----------------------------- MODULE ModelRanks -----------------------------
(***************************************************************************)
(* The Model object of every rank of a group (src/models/models.cpp) and   *)
(* the calls a program makes on it: rank 0 has the arguments, the others   *)
(* run the same calls without them (examples/pytorch/demo.py: "while True: *)
(* model.generate()") and get everything by broadcast: the configuration,  *)
(* the stop words, the input, the prefix, the sequences to work on.  The   *)
(* sizes of later broadcasts, whether they take place, and when a          *)
(* generation is over, each rank works out for itself.                     *)
(*                                                                         *)
(* A forward is the calls of reduceAdd of its layers.  The token the       *)
(* logits give is Logits[n] after n tokens.                                *)
(***************************************************************************)
EXTENDS Messenger

CONSTANTS
  Scripts,  \* sequences of calls of the program, with rank 0's arguments
  Layers,   \* decoder layers; each adds twice
  Logits,   \* tokens the model may give next: a set of sequences, one token per step
  Drawn     \* tokens a sampling rank may draw

(* What a program calls, with what.  A program generates, or batches on    *)
(* its own: exitSlaves sends what one of the two loops of the others waits *)
(* for.                                                                    *)
ASSUME ScriptAssumption ==
  \A s \in Scripts :
    /\ s \in Seq(ToSet(s))
    /\ \A i \in DOMAIN s :
         /\ s[i].call \in {"generate", "setPrefix", "unsetPrefix", "setInput", "forward", "freeSeqs"}
         /\ s[i].call \in {"generate", "setPrefix", "setInput"} => s[i].ids \in Seq(Int)
         /\ s[i].call = "generate" =>
              /\ s[i].config \in [maxLen : Nat, numBeams : Nat \ {0}, doSample : BOOLEAN]
              /\ s[i].stopWords \in Seq(Seq(Int))
    /\ (\E i \in DOMAIN s : s[i].call = "generate") # (\E i \in DOMAIN s : s[i].call = "setInput")

VARIABLES
  todo,     \* todo[r]: calls of the program rank r has still to make
  model,    \* model[r]: the Model of rank r and its searcher
  next      \* next[n]: the token with the largest logit after n generated ones

commVars == <<mode, calls, msgr, lost>>
vars == <<mode, pc, calls, msgr, lost, todo, model, next>>

None == "none"
Eos == 2
ConfigInts == 12  \* sizeof(SearcherConfig) / sizeof(int)

NewModel ==
  [searcher |-> FALSE, isNewInput |-> TRUE,
   configuration |-> [maxLen |-> 0, numBeams |-> 0, doSample |-> FALSE],
   wordsSize |-> <<>>, stopWordsList |-> <<>>,
   dims |-> <<>>, inputIds |-> <<>>, output |-> <<>>, doneBatch |-> 0, gathers |-> 0,
   prefix |-> <<>>,
   seqLens |-> <<>>, seqIDs |-> <<>>, maxLen |-> <<>>,
   nextID |-> 0, pool |-> {}, workingGroup |-> <<>>]

(* The others call once more what they call in a loop. *)
Again(s) == [call |-> IF \E i \in DOMAIN s : s[i].call = "setInput" THEN "setInput" ELSE "generate"]

Init ==
  /\ MessengerInit
  /\ \E s \in Scripts : todo = [r \in Rank |-> IF r = 0 THEN s ELSE Append(s, Again(s))]
  /\ pc = [r \in Rank |-> "next"]
  /\ model = [r \in Rank |-> NewModel]
  /\ next \in Logits

(* The arguments of the running call: only rank 0 looks at them. *)
Arg(r) == Head(todo[r])
Call(r, name) == At(r, "next") /\ todo[r] # <<>> /\ Arg(r).call = name

Return(r) ==
  /\ Goto(r, "next")
  /\ todo' = [todo EXCEPT ![r] = Tail(@)]

Set(r, m) == model' = [model EXCEPT ![r] = m]

-----------------------------------------------------------------------------
(* Model::config *)
Config(r) ==
  /\ Call(r, "generate")
  /\ Set(r, [model[r] EXCEPT !.isNewInput = TRUE,
                             !.configuration = IF r = 0 THEN Arg(r).config ELSE @])
  /\ Broadcast(r, model'[r].configuration, ConfigInts)
  /\ Goto(r, "configured")
  /\ UNCHANGED <<mode, msgr, lost, todo>>

(* A configuration without beams is the sign to exit. *)
SlaveExits(r) ==
  /\ At(r, "configured")
  /\ r > 0 /\ Received(r).numBeams = 0
  /\ Goto(r, "exited")
  /\ UNCHANGED <<commVars, todo, model>>

(* Empty words and words with an element that is not positive are removed. *)
Removed(words) ==
  LET kept[k \in 0 .. Len(words)] ==
        IF k = 0 THEN <<>>
        ELSE IF words[k] # <<>> /\ \A i \in DOMAIN words[k] : words[k][i] > 0
             THEN Append(kept[k-1], words[k]) ELSE kept[k-1]
  IN  kept[Len(words)]

(* createSearcher, and setStopWords up to the number of words. *)
CreateSearcher(r) ==
  /\ At(r, "configured")
  /\ r = 0 \/ Received(r).numBeams # 0
  /\ Set(r, [model[r] EXCEPT !.configuration = Received(r), !.searcher = TRUE, !.stopWordsList = <<>>])
  /\ Broadcast(r, IF r = 0 THEN Len(Removed(Arg(r).stopWords)) ELSE 0, 1)
  /\ Goto(r, "listSize")
  /\ UNCHANGED <<mode, msgr, lost, todo>>

NoStopWords(r) ==
  /\ At(r, "listSize") /\ Received(r) = 0
  /\ Goto(r, "input")
  /\ UNCHANGED <<commVars, todo, model>>

StopWordsSize(r) ==
  /\ At(r, "listSize") /\ Received(r) # 0
  /\ Broadcast(r, IF r = 0 THEN [i \in 1 .. Received(r) |-> Len(Removed(Arg(r).stopWords)[i])] ELSE None,
               Received(r))
  /\ Goto(r, "wordsSize")
  /\ UNCHANGED <<mode, msgr, lost, todo, model>>

(* Sum of the first i sizes. *)
SumTo(sizes, i) ==
  LET sum[k \in 0 .. Len(sizes)] == IF k = 0 THEN 0 ELSE sum[k-1] + sizes[k]
  IN  sum[i]

StopWordsData(r) ==
  /\ At(r, "wordsSize")
  /\ Set(r, [model[r] EXCEPT !.wordsSize = Received(r)])
  /\ Broadcast(r, IF r = 0 THEN FlattenSeq(Removed(Arg(r).stopWords)) ELSE None, SumTo(Received(r), Len(Received(r))))
  /\ Goto(r, "wordsData")
  /\ UNCHANGED <<mode, msgr, lost, todo>>

(* Variant of Restore, for mutation: currentIndex is not advanced. *)
RestoreFirst(sizes, data) == [i \in DOMAIN sizes |-> SubSeq(data, 1, sizes[i])]

(* The words, from their lengths and from all of them one after the other. *)
Restore(sizes, data) ==
  [i \in DOMAIN sizes |->
     LET currentIndex == SumTo(sizes, i - 1)
     IN SubSeq(data, currentIndex + 1, currentIndex + sizes[i])]

(* The searcher drops the word that is eosTokenId alone. *)
NotEos(words) == SelectSeq(words, LAMBDA w : w # <<Eos>>)

SetStopWords(r) ==
  /\ At(r, "wordsData")
  /\ LET words == IF r = 0 THEN Removed(Arg(r).stopWords) ELSE Restore(model[r].wordsSize, Received(r))
     IN Set(r, [model[r] EXCEPT !.stopWordsList = NotEos(words)])
  /\ Goto(r, "input")
  /\ UNCHANGED <<commVars, todo>>

-----------------------------------------------------------------------------
(* Model::input *)
InputDims(r) ==
  /\ At(r, "input")
  /\ Set(r, [model[r] EXCEPT !.isNewInput = TRUE])
  /\ Broadcast(r, IF r = 0 THEN <<1, Len(Arg(r).ids)>> ELSE None, 2)
  /\ Goto(r, "dims")
  /\ UNCHANGED <<mode, msgr, lost, todo>>

InputIds(r) ==
  /\ At(r, "dims")
  /\ Broadcast(r, IF r = 0 THEN Arg(r).ids ELSE None, Received(r)[2])
  /\ Goto(r, "ids")
  /\ UNCHANGED <<mode, msgr, lost, todo, model>>

SetInput(r) ==
  /\ At(r, "ids")
  /\ Set(r, [model[r] EXCEPT !.inputIds = Received(r)])
  /\ Goto(r, "loop")
  /\ UNCHANGED <<commVars, todo>>

(* Model::isDone: the searcher's, once it has begun.  In beam search       *)
(* doneBatch counts hypotheses, and there have to be numBeams.             *)
IsDone(m) ==
  /\ ~m.isNewInput
  /\ Len(m.output) >= m.configuration.maxLen \/ m.doneBatch >= m.configuration.numBeams

(* Model::generate up to the search: the prompt, without the prefix that   *)
(* is cached, or the last token of every beam.                             *)
Rows(m) == IF m.isNewInput THEN Len(m.inputIds) - Len(m.prefix) ELSE m.configuration.numBeams
Fed(m) ==
  IF m.isNewInput THEN [m EXCEPT !.isNewInput = FALSE, !.output = m.inputIds, !.doneBatch = 0] ELSE m

Generate(r) ==
  /\ At(r, "loop") /\ ~IsDone(model[r])
  /\ Set(r, Fed(model[r]))
  /\ BeginReduce(r, 2 * Layers, Rows(model[r]), "search")
  /\ UNCHANGED <<mode, calls, lost, todo>>

(* getGenerationMode: with several beams doSample is not looked at. *)
Samples(c) == c.numBeams = 1 /\ c.doSample

(* Collectives of a search: the largest logits of all ranks; for beam      *)
(* search the maxima, the sums and the candidates.                         *)
Gathers(c) == IF c.numBeams > 1 THEN 3 ELSE 1

Search(r) ==
  /\ At(r, "search")
  /\ Enter(r, "allgatherv", 2 * model[r].configuration.numBeams, None)
  /\ LET n == model[r].gathers + 1 IN
       IF n < Gathers(model[r].configuration)
       THEN Set(r, [model[r] EXCEPT !.gathers = n]) /\ Goto(r, "search")
       ELSE Set(r, [model[r] EXCEPT !.gathers = 0])
            /\ Goto(r, IF Samples(model[r].configuration) THEN "sample" ELSE "picked")
  /\ UNCHANGED <<mode, msgr, lost, todo>>

(* Every rank draws with a generator of its own. *)
Sample(r) ==
  /\ At(r, "sample")
  /\ \E t \in Drawn : Broadcast(r, t, 1)
  /\ Goto(r, "drawn")
  /\ UNCHANGED <<mode, msgr, lost, todo, model>>

Largest(m) == next[Len(m.output) - Len(m.inputIds) + 1]
NextToken(r) == IF pc[r] = "drawn" THEN Received(r) ELSE Largest(model[r])

(* The end of a sample by eosTokenId or, a step later, by a stop word.     *)
(* TokenSearch has the matching of words token by token.                   *)
WithToken(m, token) ==
  LET t == IF m.doneBatch < 0 THEN Eos ELSE token
      o == Append(m.output, t)
      generated == SubSeq(o, Len(m.inputIds) + 1, Len(o))
      word == \E w \in ToSet(m.stopWordsList) : IsSuffix(w, generated)
  IN  [m EXCEPT !.output = o, !.doneBatch = IF t = Eos THEN 1 ELSE IF word THEN -1 ELSE 0]

(* A step of beam search: eosTokenId among the candidates makes a          *)
(* hypothesis, and the beams go on.  Stop words are not looked for.  Which *)
(* hypotheses are kept, and that scores may delay the end when the search  *)
(* does not stop early, is in BeamSearch.                                  *)
WithBeams(m, token) ==
  [m EXCEPT !.output = Append(m.output, token),
            !.doneBatch = IF token = Eos THEN m.doneBatch + 1 ELSE m.doneBatch]

Stepped(m, token) == IF m.configuration.numBeams = 1 THEN WithToken(m, token) ELSE WithBeams(m, token)

Picked(r) ==
  /\ At(r, "picked") \/ At(r, "drawn")
  /\ Set(r, Stepped(model[r], NextToken(r)))
  /\ Goto(r, "loop")
  /\ UNCHANGED <<commVars, todo>>

Finalize(r) ==
  /\ At(r, "loop") /\ IsDone(model[r])
  /\ Return(r)
  /\ UNCHANGED <<commVars, model>>

-----------------------------------------------------------------------------
(* Model::setPrefix; the decoder runs the prefix at once. *)
PrefixLen(r) ==
  /\ Call(r, "setPrefix")
  /\ Broadcast(r, IF r = 0 THEN Len(Arg(r).ids) ELSE 0, 1)
  /\ Goto(r, "prefixLen")
  /\ UNCHANGED <<mode, msgr, lost, todo, model>>

PrefixIds(r) ==
  /\ At(r, "prefixLen")
  /\ Broadcast(r, IF r = 0 THEN Arg(r).ids ELSE None, Received(r))
  /\ Goto(r, "prefixIds")
  /\ UNCHANGED <<mode, msgr, lost, todo, model>>

SetPrefix(r) ==
  /\ At(r, "prefixIds")
  /\ Set(r, [model[r] EXCEPT !.prefix = Received(r)])
  /\ BeginReduce(r, 2 * Layers, Len(Received(r)), "return")
  /\ UNCHANGED <<mode, calls, lost, todo>>

UnsetPrefix(r) ==
  /\ Call(r, "unsetPrefix")
  /\ Set(r, [model[r] EXCEPT !.prefix = <<>>])
  /\ Return(r)
  /\ UNCHANGED commVars

(* The last collective of a call without a result returns. *)
ForwardReturns(r) ==
  /\ At(r, "return")
  /\ Return(r)
  /\ UNCHANGED <<commVars, model>>

-----------------------------------------------------------------------------
(* Model::set_input of continuous batching, by its sizes. *)
SetInputDim(r) ==
  /\ Call(r, "setInput")
  /\ Broadcast(r, IF r = 0
                  THEN <<Len(Arg(r).ids), Len(Arg(r).seqLens), Len(Arg(r).seqIDs), Len(Arg(r).maxLen)>>
                  ELSE <<0, 0, 0, 0>>, 4)
  /\ Goto(r, "dim")
  /\ UNCHANGED <<mode, msgr, lost, todo, model>>

SlaveExitsBatching(r) ==
  /\ At(r, "dim")
  /\ r > 0 /\ Received(r)[1] < 0
  /\ Goto(r, "exited")
  /\ UNCHANGED <<commVars, todo, model>>

SetInputIds(r) ==
  /\ At(r, "dim") /\ Received(r)[1] >= 0
  /\ Set(r, [model[r] EXCEPT !.dims = Received(r), !.seqLens = <<>>, !.seqIDs = <<>>, !.maxLen = <<>>])
  /\ Broadcast(r, IF r = 0 THEN Arg(r).ids ELSE None, Received(r)[1])
  /\ Goto(r, "tokens")
  /\ UNCHANGED <<mode, msgr, lost, todo>>

(* What is empty is not sent: the next of the three that is not. *)
Parts == <<"tokens", "seqLens", "seqIDs", "maxLen">>
NextPart(m, p) == SelectInSubSeq(m.dims, p + 1, 4, LAMBDA d : d # 0)

(* The vector of the last broadcast is taken over, the next one is sent. *)
Taken(m, part, data) ==
  CASE part = "tokens"  -> [m EXCEPT !.inputIds = data]
    [] part = "seqLens" -> [m EXCEPT !.seqLens = data]
    [] part = "seqIDs"  -> [m EXCEPT !.seqIDs = data]
    [] part = "maxLen"  -> [m EXCEPT !.maxLen = data]

SetInputPart(r) ==
  \E p \in 1 .. 4 :
    /\ At(r, Parts[p])
    /\ Set(r, Taken(model[r], Parts[p], Received(r)))
    /\ LET q == NextPart(model[r], p) IN
         IF q = 0 THEN Goto(r, "group") /\ UNCHANGED calls
         ELSE /\ Broadcast(r, IF r = 0 THEN Arg(r)[Parts[q]] ELSE None, model[r].dims[q])
              /\ Goto(r, Parts[q])
    /\ UNCHANGED <<mode, msgr, lost, todo>>

(* Lengths and sequences that do not belong together end the process. *)
Mismatch(m) ==
  IF m.seqIDs = <<>> THEN Len(m.maxLen) \notin {0, 1, Len(m.seqLens)}
  ELSE Len(m.inputIds) # Len(m.seqIDs) \/ ~ (ToSet(m.seqIDs) \subseteq m.pool)

(* New sequences get the next IDs of the rank, or known ones take a token. *)
Grouped(m) ==
  LET new == [i \in DOMAIN m.seqLens |-> m.nextID + i - 1]
  IN  IF m.seqIDs = <<>>
      THEN [m EXCEPT !.workingGroup = new, !.pool = @ \cup ToSet(new), !.nextID = @ + Len(new)]
      ELSE [m EXCEPT !.workingGroup = m.seqIDs]

Group(r) ==
  /\ At(r, "group") /\ ~Mismatch(model[r])
  /\ Set(r, Grouped(model[r]))
  /\ Return(r)
  /\ UNCHANGED commVars

(* exit(-1) of every rank, each on its own. *)
GroupFails(r) ==
  /\ At(r, "group") /\ Mismatch(model[r])
  /\ Goto(r, "failed")
  /\ UNCHANGED <<commVars, todo, model>>

(* Model::forward; the logits of all ranks are gathered. *)
Forward(r) ==
  /\ Call(r, "forward")
  /\ BeginReduce(r, 2 * Layers, Len(model[r].inputIds), "gather")
  /\ UNCHANGED <<mode, calls, lost, todo, model>>

(* Variant of GatherLogits, for mutation: each rank keeps its logits. *)
GatherLogitsNot(r) ==
  /\ At(r, "gather")
  /\ Goto(r, "return")
  /\ UNCHANGED <<commVars, todo, model>>

GatherLogits(r) ==
  /\ At(r, "gather")
  /\ Enter(r, "allgatherv", Len(model[r].workingGroup), None)
  /\ Goto(r, "return")
  /\ UNCHANGED <<mode, msgr, lost, todo, model>>

(* Model::freeSeqs *)
FreeSize(r) ==
  /\ Call(r, "freeSeqs")
  /\ Broadcast(r, IF r = 0 THEN Len(Arg(r).seqIDs) ELSE 0, 1)
  /\ Goto(r, "freeSize")
  /\ UNCHANGED <<mode, msgr, lost, todo, model>>

FreeIDs(r) ==
  /\ At(r, "freeSize")
  /\ IF Received(r) = 0 THEN Return(r) /\ UNCHANGED calls
     ELSE /\ Broadcast(r, IF r = 0 THEN Arg(r).seqIDs ELSE None, Received(r))
          /\ Goto(r, "freeIDs")
          /\ UNCHANGED todo
  /\ UNCHANGED <<mode, msgr, lost, model>>

(* After the first ID that is not, or no longer, in the pool none is removed. *)
Freed(pool, ids) ==
  pool \ {ids[i] : i \in {i \in DOMAIN ids : \A j \in 1 .. i :
                            ids[j] \in pool /\ \A k \in 1 .. j-1 : ids[k] # ids[j]}}

FreeSeqs(r) ==
  /\ At(r, "freeIDs")
  /\ Set(r, [model[r] EXCEPT !.pool = Freed(@, Received(r))])
  /\ Return(r)
  /\ UNCHANGED commVars

-----------------------------------------------------------------------------
(* Variant of ExitSlaves, for mutation: the configuration is sent as it is. *)
ExitSlavesKeepBeams(r) ==
  /\ At(r, "next") /\ todo[r] = <<>> /\ r = 0
  /\ IF model[r].searcher
     THEN Broadcast(r, model[r].configuration, ConfigInts)
     ELSE Broadcast(r, <<-1, -1, -1, -1>>, 4)
  /\ Goto(r, "exited")
  /\ UNCHANGED <<mode, msgr, lost, todo, model>>

(* The program of rank 0 ends: ~Model() calls exitSlaves. *)
ExitSlaves(r) ==
  /\ At(r, "next") /\ todo[r] = <<>> /\ r = 0
  /\ IF model[r].searcher
     THEN Broadcast(r, [model[r].configuration EXCEPT !.numBeams = 0], ConfigInts)
     ELSE Broadcast(r, <<-1, -1, -1, -1>>, 4)
  /\ Goto(r, "exited")
  /\ UNCHANGED <<mode, msgr, lost, todo, model>>

(* One step of rank r. *)
Step(r) ==
  \/ ReduceAdd(r) /\ UNCHANGED <<todo, model>>
  \/ Config(r) \/ SlaveExits(r) \/ CreateSearcher(r)
  \/ NoStopWords(r) \/ StopWordsSize(r) \/ StopWordsData(r) \/ SetStopWords(r)
  \/ InputDims(r) \/ InputIds(r) \/ SetInput(r)
  \/ Generate(r) \/ Search(r) \/ Sample(r) \/ Picked(r) \/ Finalize(r)
  \/ PrefixLen(r) \/ PrefixIds(r) \/ SetPrefix(r) \/ UnsetPrefix(r) \/ ForwardReturns(r)
  \/ SetInputDim(r) \/ SlaveExitsBatching(r) \/ SetInputIds(r) \/ SetInputPart(r) \/ Group(r) \/ GroupFails(r)
  \/ Forward(r) \/ GatherLogits(r) \/ FreeSize(r) \/ FreeIDs(r) \/ FreeSeqs(r)
  \/ ExitSlaves(r)

AllExited == \A r \in Rank : pc[r] \in {"exited", "failed"}

Next ==
  \/ (\E r \in Rank : Step(r)) /\ UNCHANGED next
  \/ (AllExited \/ lost # {}) /\ UNCHANGED vars

(* Every rank is a process that runs on while it can. *)
Spec == Init /\ [][Next]_vars /\ \A r \in Rank : WF_vars(Step(r) /\ UNCHANGED next)

-----------------------------------------------------------------------------
(* Calls of rank 0's program that rank r has not made. *)
Left(r) == Len(todo[r]) - (IF r = 0 THEN 0 ELSE 1)

(* Ranks that are equally far in the program have the same parameters,     *)
(* stop words, input and output, and between two calls the same sequences: *)
(* what was broadcast in pieces was put together as rank 0 had it, and a   *)
(* token that each rank draws for itself is the same everywhere.           *)
RanksAgree ==
  \A r, s \in Rank :
    (pc[r] = pc[s] /\ pc[r] \in {"loop", "next"} /\ Len(calls[r]) = Len(calls[s]) /\ Left(r) = Left(s)) =>
      LET m == model[r]  n == model[s]
      IN /\ m.configuration = n.configuration
         /\ m.stopWordsList = n.stopWordsList
         /\ m.inputIds = n.inputIds /\ m.output = n.output /\ m.doneBatch = n.doneBatch
         /\ m.prefix = n.prefix
         /\ m.pool = n.pool /\ m.workingGroup = n.workingGroup

(* Every rank gets to the end: no rank waits for ever in a collective that *)
(* another has not entered, every generation ends, when a batch is refused *)
(* all refuse it, and when the program of rank 0 is over the others are    *)
(* told and exit.  Unless rank 0 has wiped the words of a sum others were  *)
(* still in (WipedOnlyInPrefix says which).                                *)
EveryRankExits == <>(AllExited \/ lost # {})
=============================================================================
