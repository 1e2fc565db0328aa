----------------------------- MODULE BeamSearch -----------------------------
(***************************************************************************)
(* BeamSearch and BeamSearchScorer (src/searchers/beam_search.cpp): the    *)
(* candidates of a step, the beams that go on, the hypotheses that have    *)
(* ended, when a sample is done, and the rows of the KV cache, which the   *)
(* decoder rearranges by the indices that the scorer hands out.            *)
(*                                                                         *)
(* Log probabilities are integers below 0; 1e9 is Big, and a sum with      *)
(* -1e9 is -1e9 again, as it is in a float.  A score divided by a power of *)
(* the length is a pair <<sum, divisor>>.  The decoder is a table lm of    *)
(* log probabilities for the token after a given token.                    *)
(***************************************************************************)
EXTENDS Integers, FiniteSets, SequencesExt

CONSTANTS
  Prompts,    \* Prompts[s]: prompt of sample s, all of one length
  NumBeams,
  VocabSize,
  Eos, Pad,
  Configs,    \* [maxLen, lenPenalty, earlyStopping, keep] (keep: numBeamHypsToKeep)
  Tables,     \* log probabilities of the next token
  Hybrid,     \* the decoder is a HybridModel
  Big

BatchSize == Len(Prompts)
Token  == 0 .. VocabSize-1
Sample == 0 .. BatchSize-1
Beam   == 0 .. BatchSize*NumBeams-1
KVal   == 2 * NumBeams
PromptLen == Len(Prompts[1])
SampleOf(b) == b \div NumBeams

(* No two tokens of a table are equally likely: of equal candidates of one *)
(* beam any may come first after std::sort.                                *)
ASSUME TableAssumption ==
  /\ NumBeams \in Nat \ {0, 1} /\ VocabSize >= KVal
  /\ VocabSize \in Nat /\ {Eos, Pad} \subseteq Token
  /\ \A t \in Tables : t \in [Token -> -Big+1 .. -1] /\ IsInjective(t)
ASSUME PromptAssumption ==
  /\ Prompts \in Seq(Seq(Token)) \ {<<>>}
  /\ \A i \in DOMAIN Prompts : Len(Prompts[i]) = PromptLen /\ PromptLen > 0
ASSUME ConfigAssumption ==
  \A c \in Configs :
    /\ c.keep \in 1 .. NumBeams /\ c.lenPenalty \in Nat /\ c.earlyStopping \in BOOLEAN
    /\ c.maxLen \in Nat
(* 1e9 is out of the reach of the log probabilities of maxLen tokens. *)
ASSUME BigAssumption ==
  /\ Big \in Nat \ {0} /\ Hybrid \in BOOLEAN
  /\ \E low \in -Big .. -1 : /\ \A t \in Tables : \A x \in Token : t[x] >= low
                             /\ \A c \in Configs : (c.maxLen + 1) * low > -Big

VARIABLES
  config, lm,
  phase,           \* "new", "run", "final", or "exit"
  inputIds,        \* inputIds[b]: tokens of beam b
  beamNextScores, beamNextTokens, beamNextIndices,
  beamHyps,        \* beamHyps[s]: hypotheses kept, and worstScore
  doneBatch,
  cache,           \* cache[b]: tokens whose keys row b of the KV cache holds
  found,           \* every hypothesis ever added (history)
  output

vars == <<config, lm, phase, inputIds, beamNextScores, beamNextTokens, beamNextIndices,
          beamHyps, doneBatch, cache, found, output>>

Init ==
  /\ config \in Configs
  /\ lm \in [Token -> Tables]
  /\ phase = "new"
  /\ inputIds = [b \in Beam |-> Prompts[SampleOf(b) + 1]]
  /\ beamNextScores = [b \in Beam |-> IF b % NumBeams = 0 THEN 0 ELSE -Big]
  /\ beamNextTokens = [b \in Beam |-> Pad]
  /\ beamNextIndices = [b \in Beam |-> 0]
  /\ beamHyps = [s \in Sample |-> [beams |-> <<>>, worst |-> <<Big, 1>>]]
  /\ doneBatch = [s \in Sample |-> FALSE]
  /\ cache = [b \in Beam |-> <<>>]
  /\ found = [s \in Sample |-> {}]
  /\ output = <<>>

-----------------------------------------------------------------------------
(* BeamHypotheses. *)
Less(x, y) == x[1] * y[2] < y[1] * x[2]
Power(x, n) == LET p[i \in 0 .. n] == IF i = 0 THEN 1 ELSE x * p[i-1] IN p[n]
Score(sum, len) == <<sum, Power(len, config.lenPenalty)>>

(* The first of the hypotheses with the lowest score: what a sort that     *)
(* keeps the order of equals has in front (that is what std::sort does     *)
(* with so few).                                                           *)
Worst(beams) ==
  CHOOSE i \in DOMAIN beams : \A j \in DOMAIN beams :
    Less(beams[i].score, beams[j].score) \/ (~Less(beams[j].score, beams[i].score) /\ i <= j)

(* Variant of Add, for mutation: a full list drops its oldest entry.       *)
AddDropsOldest(h, hyp, sum) ==
  LET score == Score(sum, Len(hyp))
      more  == Append(h.beams, [score |-> score, hyp |-> hyp])
      kept  == IF Len(more) > NumBeams THEN Tail(more) ELSE more
  IN  IF Len(h.beams) < NumBeams \/ Less(h.worst, score)
      THEN [beams |-> kept, worst |-> kept[Worst(kept)].score]
      ELSE h

Add(h, hyp, sum) ==
  LET score == Score(sum, Len(hyp))
      more  == Append(h.beams, [score |-> score, hyp |-> hyp])
      kept  == RemoveAt(more, Worst(more))
  IN  CASE Len(h.beams) < NumBeams ->
             [beams |-> more, worst |-> IF Less(score, h.worst) THEN score ELSE h.worst]
        [] Len(h.beams) >= NumBeams /\ Less(h.worst, score) ->
             [beams |-> kept, worst |-> kept[Worst(kept)].score]
        [] OTHER -> h

(* Variant of HypsDone, for mutation: a list that is not full will do.     *)
HypsDoneAny(h, best, len) ==
  Len(h.beams) > 0 /\ (config.earlyStopping \/ ~Less(h.worst, Score(best, len)))

HypsDone(h, best, len) ==
  Len(h.beams) >= NumBeams /\ (config.earlyStopping \/ ~Less(h.worst, Score(best, len)))

-----------------------------------------------------------------------------
(* searchTopK. *)
Plus(x, y) == IF x = -Big THEN -Big ELSE x + y

(* The KVal likeliest tokens after the last token of a row of the cache,   *)
(* with the score of the beam added; e = <<score, token, beam>>.           *)
BeamTopK(s, k, rows) ==
  LET b == s * NumBeams + k
      t == lm[Last(rows[b])]
  IN  {<<Plus(beamNextScores[b], t[x]), x, k>> :
         x \in {y \in Token : Cardinality({z \in Token : t[z] > t[y]}) < KVal}}

(* tupleCompare; the token decides between equals, which only rows of      *)
(* scores -1e9 have.                                                       *)
Before(e, f) ==
  e[1] > f[1] \/ (e[1] = f[1] /\ (e[3] < f[3] \/ (e[3] = f[3] /\ e[2] > f[2])))

(* Same score and token as the candidate just before it. *)
Duplicate(e, S) ==
  \E f \in S : /\ f[1] = e[1] /\ f[2] = e[2] /\ Before(f, e)
               /\ ~\E g \in S : Before(f, g) /\ Before(g, e)

(* The best KVal candidates of sample s, in order. *)
Candidates(s, rows) ==
  LET S == UNION {BeamTopK(s, k, rows) : k \in 0 .. NumBeams-1}
      U == {e \in S : ~Duplicate(e, S)}
  IN  [i \in 1 .. KVal |-> CHOOSE e \in U : Cardinality({f \in U : Before(f, e)}) = i - 1]

-----------------------------------------------------------------------------
(* BeamSearchScorer::process. *)

(* The candidates that go on: the first NumBeams that are not at an end.   *)
GoOn(cand) == {i \in 1 .. KVal : cand[i][2] # Eos}
Live(cand) ==
  [k \in 1 .. NumBeams |->
     cand[CHOOSE i \in GoOn(cand) : Cardinality({j \in GoOn(cand) : j < i}) = k - 1]]

(* Hypotheses that end now: candidates with eosTokenId among the first     *)
(* NumBeams.  The scan stops at the NumBeams-th of the others, which is    *)
(* never before those.                                                     *)
Ends(cand) == {i \in 1 .. NumBeams : cand[i][2] = Eos}

(* Variant of Ended, for mutation: the beam is taken from the rank.        *)
EndedByRank(s, cand) ==
  [i \in 1 .. NumBeams |-> <<cand[i][1], inputIds[s * NumBeams + i - 1]>>]

(* What candidate i is without its last token, <<score, tokens>>. *)
Ended(s, cand) ==
  [i \in 1 .. NumBeams |-> <<cand[i][1], inputIds[s * NumBeams + cand[i][3]]>>]

(* Hypotheses which of list are added one after the other. *)
AddAll(h, list, which) ==
  LET add[i \in 0 .. Len(list)] ==
        IF i = 0 THEN h ELSE
        IF i \in which THEN Add(add[i-1], list[i][2], list[i][1]) ELSE add[i-1]
  IN  add[Len(list)]

(* Rows of n entries, one for each sample, in one flat vector. *)
Flat(rows, n) == [p \in 1 .. BatchSize * n |-> rows[(p-1) \div n][((p-1) % n) + 1]]

(* The score that decides whether sample s is done: of NumBeams entries of *)
(* nextScores from s * NumBeams on the largest.  nextScores has KVal       *)
(* entries per sample, so from the second sample on they are another's.    *)
BestOf(s, scores) == Max({scores[p + 1] : p \in s * NumBeams .. (s + 1) * NumBeams - 1})

(* Variant of NextIndex, for mutation: the index within the sample.        *)
NextIndexLocal(b, e) == e[3]

(* Row that beam b continues. *)
NextIndex(b, e) == SampleOf(b) * NumBeams + e[3]

(* "At most tokens can be equal to `eosTokenId`": exit(-1). *)
TooFew(cand) == \E s \in Sample : ~doneBatch[s] /\ Cardinality(GoOn(cand[s])) < NumBeams

(* process, and the copy of inputIds that follows it. *)
Process(cand, ends, hyps, scores) ==
  /\ beamHyps' = hyps
  /\ found' = [s \in Sample |-> found[s] \cup {Ended(s, cand[s])[i] : i \in ends[s]}]
  /\ doneBatch' = [s \in Sample |->
       doneBatch[s] \/ HypsDone(hyps[s], BestOf(s, scores), Len(inputIds[0]))]
  /\ IF TooFew(cand)
     THEN /\ phase' = "exit"
          /\ UNCHANGED <<beamNextScores, beamNextTokens, beamNextIndices, inputIds>>
     ELSE /\ phase' = "run"
          /\ \E go \in {[b \in Beam |-> IF doneBatch[SampleOf(b)] THEN <<0, Pad, 0>>
                                        ELSE Live(cand[SampleOf(b)])[(b % NumBeams) + 1]]} :
             /\ beamNextScores'  = [b \in Beam |-> go[b][1]]
             /\ beamNextTokens'  = [b \in Beam |-> go[b][2]]
             /\ beamNextIndices' = [b \in Beam |-> IF doneBatch[SampleOf(b)] THEN 0 ELSE NextIndex(b, go[b])]
             /\ inputIds' = [b \in Beam |-> Append(inputIds[beamNextIndices'[b]], beamNextTokens'[b])]

(* beam_search with the cache rows after the decoder's forward. *)
Search(rows) ==
  \E cand \in {[s \in Sample |-> Candidates(s, rows)]} :
  \E ends \in {[s \in Sample |-> IF doneBatch[s] THEN {} ELSE Ends(cand[s])]} :
  \E hyps \in {[s \in Sample |-> AddAll(beamHyps[s], Ended(s, cand[s]), ends[s])]} :
  \E scores \in {Flat([s \in Sample |-> [i \in 1 .. KVal |-> cand[s][i][1]]], KVal)} :
    /\ cache' = rows
    /\ Process(cand, ends, hyps, scores)
    /\ UNCHANGED <<config, lm, output>>

(* getNextToken(ids, batchSize, seqLen): the prompts are computed once per *)
(* sample and the rows of the cache expanded to the beams.                 *)
GetFirstToken ==
  /\ phase = "new"
  /\ Search([b \in Beam |-> Prompts[SampleOf(b) + 1]])

IsDone ==
  /\ phase = "run"
  /\ (\A s \in Sample : doneBatch[s]) \/ Len(inputIds[0]) >= config.maxLen

(* accSeqLen of the decoder that reorderCache is called on: all lines of   *)
(* the cache.  HybridModel calls it on firstModel, which has computed the  *)
(* prompt alone, while nextModel adds to the same cache.                   *)
AccSeqLen == IF Hybrid THEN PromptLen ELSE Len(cache[0])

(* reorderCache: on lines PromptLen to AccSeqLen - 1 row b gets what       *)
(* beamNextIndices says.                                                   *)
Reordered(b) ==
  [l \in DOMAIN cache[b] |->
     IF l \in PromptLen + 1 .. AccSeqLen THEN cache[beamNextIndices[b]][l] ELSE cache[b][l]]

(* getNextToken(); the client asks isDone() first. *)
GetNextToken ==
  /\ phase = "run" /\ ~IsDone
  /\ Search([b \in Beam |-> Append(Reordered(b), beamNextTokens[b])])

-----------------------------------------------------------------------------
(* Open beams are hypotheses too, unless the sample is done. *)
Finalized(s) ==
  IF doneBatch[s] THEN beamHyps[s]
  ELSE AddAll(beamHyps[s],
              [k \in 1 .. NumBeams |-> <<beamNextScores[s * NumBeams + k - 1], inputIds[s * NumBeams + k - 1]>>],
              1 .. NumBeams)

(* The best n hypotheses, best first: the back of a sort that keeps the    *)
(* order of equals.                                                        *)
Better(beams, i) ==
  {j \in DOMAIN beams : \/ Less(beams[i].score, beams[j].score)
                        \/ ~Less(beams[j].score, beams[i].score) /\ j > i}
BestN(beams, n) ==
  [k \in 1 .. n |-> beams[CHOOSE i \in DOMAIN beams : Cardinality(Better(beams, i)) = k - 1].hyp]

(* Variant of Decoded, for mutation: one token of the hypothesis is lost.  *)
DecodedShort(hyp, width) ==
  [j \in 1 .. width |-> IF j < Len(hyp) /\ j <= config.maxLen THEN hyp[j] ELSE
                        IF j = Len(hyp) /\ Len(hyp) < config.maxLen THEN Eos ELSE Pad]

(* A row of the result: the hypothesis, eosTokenId if it fits, padding.    *)
Decoded(hyp, width) ==
  [j \in 1 .. width |-> IF j <= Len(hyp) /\ j <= config.maxLen THEN hyp[j] ELSE
                        IF j = Len(hyp) + 1 /\ Len(hyp) < config.maxLen THEN Eos ELSE Pad]

(* Length of the rows: the longest hypothesis and eosTokenId, or maxLen.   *)
Width(best) == Min({Max({Len(best[i]) : i \in DOMAIN best}) + 1, config.maxLen})

(* finalize(), after isDone(). *)
Finalize ==
  /\ IsDone
  /\ phase' = "final"
  /\ \E hyps \in {[s \in Sample |-> Finalized(s)]} :
     \E best \in {Flat([s \in Sample |-> BestN(hyps[s].beams, config.keep)], config.keep)} :
       /\ beamHyps' = hyps
       /\ output' = [i \in DOMAIN best |-> Decoded(best[i], Width(best))]
  /\ UNCHANGED <<config, lm, inputIds, beamNextScores, beamNextTokens, beamNextIndices,
                 doneBatch, cache, found>>

Next == GetFirstToken \/ GetNextToken \/ Finalize

Spec == Init /\ [][Next]_vars

-----------------------------------------------------------------------------
(* The beams a sample works with all have its prompt, and row b of the     *)
(* cache, once rearranged for the next step, holds exactly the tokens of   *)
(* beam b but the last, which is fed next: the scorer's indices, the copy  *)
(* of inputIds and the rearrangement of the cache agree, also beside       *)
(* samples that are done and only padded.                                  *)
CacheAgrees ==
  phase = "run" =>
    \A b \in Beam : ~doneBatch[SampleOf(b)] =>
      /\ IsPrefix(Prompts[SampleOf(b) + 1], inputIds[b])
      /\ inputIds[b] = Append(Reordered(b), beamNextTokens[b])

(* Log probability of tokens after the prompt. *)
LogProbIn(model, ids) ==
  LET sum[i \in PromptLen .. Len(ids)] ==
        IF i = PromptLen THEN 0 ELSE sum[i-1] + model[ids[i-1]][ids[i]]
  IN  sum[Len(ids)]
LogProb(ids) == LogProbIn(lm, ids)

(* Every hypothesis is a continuation of its sample's own prompt and its   *)
(* score is that of the tokens: with eosTokenId behind it, or as an open   *)
(* beam that finalize added.  The score of a beam is that of its tokens.   *)
ScoresTrue ==
  /\ \A s \in Sample : \A i \in DOMAIN beamHyps[s].beams :
       LET h == beamHyps[s].beams[i] IN
       /\ IsPrefix(Prompts[s + 1], h.hyp)
       /\ \/ h.score = Score(LogProb(Append(h.hyp, Eos)), Len(h.hyp))
          \/ phase = "final" /\ h.score = Score(LogProb(h.hyp), Len(h.hyp))
  /\ phase = "run" => \A b \in Beam :
       ~doneBatch[SampleOf(b)] => beamNextScores[b] = LogProb(inputIds[b])

(* BeamHypotheses::add keeps the best: at most NumBeams, worstScore is the *)
(* worst of them, and no hypothesis that was found and is not kept is      *)
(* better than one that is.                                                *)
BestKept ==
  phase = "run" => \A s \in Sample :
    LET kept == {h.hyp : h \in ToSet(beamHyps[s].beams)} IN
    /\ Len(beamHyps[s].beams) <= NumBeams
    /\ \A h \in ToSet(beamHyps[s].beams) : ~Less(h.score, beamHyps[s].worst)
    /\ \A f \in found[s] :
         f[2] \notin kept => ~Less(beamHyps[s].worst, Score(f[1], Len(f[2])))

(* process: there are always NumBeams candidates that go on (the exit      *)
(* "At most tokens can be equal to `eosTokenId`" is never taken), and, as  *)
(* its assert says, a sample that is done has NumBeams hypotheses.         *)
EnoughBeams ==
  /\ phase # "exit"
  /\ \A s \in Sample : doneBatch[s] => Len(beamHyps[s].beams) >= NumBeams

(* finalize: row k of a sample is one of its NumBeams hypotheses with less *)
(* than k better ones, cut at maxLen, or followed by eosTokenId and then   *)
(* by padding alone.                                                       *)
OutputBest ==
  phase = "final" => \A s \in Sample :
    LET hyps == beamHyps[s].beams IN
    /\ Len(hyps) = NumBeams
    /\ \A k \in 1 .. config.keep : \E i \in DOMAIN hyps :
         LET row == output[s * config.keep + k]
             n   == Min({Len(hyps[i].hyp), config.maxLen})
         IN  /\ SubSeq(row, 1, n) = SubSeq(hyps[i].hyp, 1, n)
             /\ n < config.maxLen => n < Len(row) /\ row[n + 1] = Eos
             /\ \A j \in n + 2 .. Len(row) : row[j] = Pad
             /\ Cardinality({j \in DOMAIN hyps : Less(hyps[i].score, hyps[j].score)}) < k

(* common_decoder.h on reorderCache: "Reorder cached keys and values": the *)
(* next step of a beam is computed from the rows of its own tokens.        *)
KeysReordered ==
  phase = "run" => \A b \in Beam :
    ~doneBatch[SampleOf(b)] => Reordered(b) = SubSeq(inputIds[b], 1, Len(inputIds[b]) - 1)

-----------------------------------------------------------------------------
(* The inductive invariant.                                                *)
InvType ==
  /\ phase \in {"new", "run", "final"}
  /\ config \in Configs /\ lm \in [Token -> Tables]
  /\ doneBatch \in [Sample -> BOOLEAN]
  /\ inputIds \in [Beam -> Seq(Token)] /\ \A b \in Beam : Len(inputIds[b]) = Len(inputIds[0])
  /\ phase # "final" => beamNextScores \in [Beam -> Int]

InvNew ==
  phase = "new" =>
    /\ \A b \in Beam : /\ inputIds[b] = Prompts[SampleOf(b) + 1]
                       /\ beamNextScores[b] = IF b % NumBeams = 0 THEN 0 ELSE -Big
    /\ \A s \in Sample : beamHyps[s] = [beams |-> <<>>, worst |-> <<Big, 1>>] /\ found[s] = {} /\ ~doneBatch[s]

(* A row of the cache has one token less than a beam; a beam comes from    *)
(* one of its own sample and begins with the prompt.                       *)
InvBeams ==
  phase = "run" =>
    /\ beamNextTokens \in [Beam -> Token] /\ beamNextIndices \in [Beam -> Beam]
    /\ cache \in [Beam -> Seq(Token)]
    /\ Len(inputIds[0]) > PromptLen /\ Len(inputIds[0]) - PromptLen <= config.maxLen + 1
    /\ \A b \in Beam :
         /\ Len(cache[b]) + 1 = Len(inputIds[0]) /\ Last(inputIds[b]) = beamNextTokens[b]
         /\ ~doneBatch[SampleOf(b)] => IsPrefix(Prompts[SampleOf(b) + 1], inputIds[b])

(* Scores of beams stay above -1e9. *)
Low == CHOOSE low \in -Big .. -1 :
  /\ \A t \in Tables : \A x \in Token : t[x] >= low
  /\ \A c \in Configs : (c.maxLen + 1) * low > -Big
InvScores ==
  phase = "run" => \A b \in Beam : ~doneBatch[SampleOf(b)] =>
    /\ beamNextScores[b] = LogProb(inputIds[b])
    /\ beamNextScores[b] >= (Len(inputIds[b]) - PromptLen) * Low

(* Every hypothesis found is kept, or the list is full of better ones. *)
HypOf(f) == [score |-> Score(f[1], Len(f[2])), hyp |-> f[2]]
Quotient == Int \X (Nat \ {0})
HypRecord == [score : Quotient, hyp : Seq(Token)]
Hyps == [beams : Seq(HypRecord), worst : Quotient]
Hypothesis == Int \X (Seq(Token) \ {<<>>})
KeepsBest(h, S) ==
  /\ h \in Hyps /\ S \subseteq Hypothesis
  /\ Len(h.beams) <= NumBeams
  /\ \A r \in ToSet(h.beams) : ~Less(r.score, h.worst)
  /\ \A f \in S : HypOf(f) \in ToSet(h.beams) \/ (Len(h.beams) = NumBeams /\ ~Less(h.worst, Score(f[1], Len(f[2]))))
TrueHyp(s, r) ==
  IsPrefix(Prompts[s + 1], r.hyp) /\ r.score = Score(LogProb(Append(r.hyp, Eos)), Len(r.hyp))
InvHyps ==
  phase # "final" => \A s \in Sample :
    /\ KeepsBest(beamHyps[s], found[s])
    /\ \A r \in ToSet(beamHyps[s].beams) : TrueHyp(s, r)

IInv == InvType /\ InvNew /\ InvBeams /\ InvScores /\ InvHyps /\ EnoughBeams
=============================================================================
