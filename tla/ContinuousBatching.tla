------------------------- MODULE ContinuousBatching -------------------------
(***************************************************************************)
(* Continuous batching: the part of one model process that turns API calls *)
(* (Model::set_input, forward, generate, freeSeqs, finalize) into work on  *)
(* sequences.  Three process-wide singletons share the sequence IDs:       *)
(*   - SequenceIDManager hands IDs out and starts over at a fixed bound;   *)
(*   - SequencePool maps an ID to its SequenceGroupMeta (lengths, step);   *)
(*   - KVCacheMgr maps an ID to a KV cache and recycles the freed ones.    *)
(* Model keeps workingGroup, pointers to the groups of the current batch,  *)
(* from one call to the next.                                              *)
(*                                                                         *)
(* The client is an arbitrary scheduler: it makes any call with any batch  *)
(* as long as it keeps its rules, which are things the code relies on      *)
(* and does not check.  Beams are 1 (continuous batching supports no       *)
(* others).  A cell of a KV cache holds the group and the index of the     *)
(* token whose key and value were last stored there.                       *)
(***************************************************************************)
EXTENDS Integers, Sequences

CONSTANTS
  MaxID,      \* where createSequenceID starts over (10 * 1024 in the code)
  MaxSeqLen,  \* Model::maxSeqLen and KVCacheMgrImpl::maxSeqLen_
  PromptLens, \* lengths of the prompts the client sends
  MaxLens,    \* values of maxLen the client sends (negative: the default)
  MaxBatch,   \* bound: sequences in one call
  MaxGroups,  \* bound: groups created
  MaxPos,     \* bound: positions of a cache that are looked at
  RuleSets    \* the clients: each a set of rules it keeps

(* What the code expects of its client and never checks:                   *)
(*   "ids"   an ID is not issued again while the client still holds it;    *)
(*   "fits"  a prompt, and every token sent after it, has room in the      *)
(*           cache asked for;                                              *)
(*   "loop"  a batch is not computed again once isDone() holds;            *)
(*   "done"  no sequence that is done is computed again;                   *)
(*   "held"  no sequence the client has freed is computed;                 *)
(*   "once"  no sequence is freed again.                                   *)
AllRules == {"ids", "fits", "loop", "done", "held", "once"}

ASSUME BoundAssumption ==
  /\ MaxID \in Nat \ {0}
  /\ MaxSeqLen \in Nat \ {0}
  /\ MaxBatch \in Nat \ {0}
  /\ MaxGroups \in Nat
  /\ MaxPos \in Nat /\ MaxPos >= MaxSeqLen
ASSUME InputAssumption == PromptLens \subseteq Nat \ {0} /\ MaxLens \subseteq Int \ {0}
ASSUME RulesAssumption == RuleSets \subseteq SUBSET AllRules

ID     == 0 .. MaxID-1
Group  == 1 .. MaxGroups
Cache  == 1 .. MaxGroups
Pos    == 0 .. MaxPos-1
None   == 0
Blank  == [group |-> None, token |-> 0]

VARIABLES
  globalSequenceID, \* SequenceIDManager
  created,          \* groups allocated so far; the group objects are 1 .. created
  meta,             \* meta[g]: SequenceGroupMeta and its one SequenceMeta
  hub,              \* SequencePool: ID -> group
  workingGroup,     \* Model::workingGroup
  sequenceCaches,   \* KVCacheMgrImpl: ID -> cache
  freeCaches,       \* KVCacheMgrImpl: stack of caches to reuse
  readyCaches,      \* KVCacheMgrImpl: caches of the batch being computed
  allocated,        \* caches allocated so far; the caches are 1 .. allocated
  cap,              \* cap[c]: KVCacheTensor::maxSeqLen
  cells,            \* cells[c][p]: what position p of cache c holds
  pc,               \* the loop a call is in, or "client"
  todo,             \* what is left for that loop
  ret,              \* Model::freeSeqs: ret
  rules,            \* client: the rules it keeps
  held,             \* client: IDs it has received and not freed
  fed               \* client: IDs whose logits it has, so that it can send the next token

pool   == <<globalSequenceID, created, meta, hub>>
caches == <<sequenceCaches, freeCaches, allocated, cap>>
vars   == <<globalSequenceID, created, meta, hub, workingGroup, sequenceCaches, freeCaches,
            readyCaches, allocated, cap, cells, pc, todo, ret, rules, held, fed>>

Smaller(a, b) == IF a < b THEN a ELSE b
Larger(a, b)  == IF a > b THEN a ELSE b

NewMeta(id, prompt, maxLen) ==
  [id |-> id, prompt |-> prompt, generated |-> 0, step |-> 0, past |-> 0,
   input |-> prompt, maxLen |-> maxLen, done |-> FALSE]

(* SamplingMeta() of the calls that take no SearcherConfig leaves maxLen -1. *)
NoConfig   == -1
Sampled(g) == meta[g].maxLen # NoConfig

TotalLen(m) == m.prompt + m.generated

Elems(s) == {s[i] : i \in DOMAIN s}

IdOf(g) == meta[g].id

(* Injective sequences over S of at most MaxBatch elements: the batches. *)
Batches(S) ==
  UNION {{s \in [1 .. n -> S] : \A i, j \in 1 .. n : i # j => s[i] # s[j]} : n \in 1 .. MaxBatch}

-----------------------------------------------------------------------------
Init ==
  /\ globalSequenceID = 0
  /\ created = 0
  /\ meta = [g \in Group |-> NewMeta(0, 0, NoConfig)]
  /\ hub = [id \in ID |-> None]
  /\ workingGroup = <<>>
  /\ sequenceCaches = [id \in ID |-> None]
  /\ freeCaches = <<>>
  /\ readyCaches = <<>>
  /\ allocated = 0
  /\ cap = [c \in Cache |-> 0]
  /\ cells = [c \in Cache |-> [p \in Pos |-> Blank]]
  /\ pc = "client"
  /\ todo = <<>>
  /\ ret = TRUE
  /\ rules \in RuleSets
  /\ held = {}
  /\ fed = {}

-----------------------------------------------------------------------------
(* SequenceIDManager::createSequenceID: the ID that a counter value yields. *)
CreateSequenceID(counter) == IF counter >= MaxID THEN 0 ELSE counter

(* The IDs that the next n calls of createSequenceID return. *)
NextIDs(n) == {(CreateSequenceID(globalSequenceID) + i) % MaxID : i \in 0 .. n-1}

(* KVCacheMgrImpl::exist *)
Exist(id) == sequenceCaches[id] # None

(* SequencePool::newGroupMeta: the group is put into the pool unless its   *)
(* ID is taken; the result of add is ignored.                              *)
NewGroupMeta(g, id, job) ==
  /\ created' = g
  /\ meta' = [meta EXCEPT ![g] = NewMeta(id, job.prompt, job.maxLen)]
  /\ hub' = [hub EXCEPT ![id] = IF @ = None THEN g ELSE @]

(* KVCacheMgrImpl::addSequence: positions of the cache for a request. *)
CacheLen(room) == Smaller(room, MaxSeqLen)

(* KVCacheMgrImpl::addSequence: nothing if the ID has a cache, otherwise   *)
(* the cache freed last, or a new one.  KVCacheTensor::resize keeps the    *)
(* memory that is large enough, and with it what the cells held.           *)
AddSequence(id, room) ==
  \/ /\ Exist(id)
     /\ UNCHANGED <<sequenceCaches, freeCaches, allocated, cap, cells>>
  \/ /\ ~Exist(id)
     /\ LET reuse == freeCaches # <<>>
            c     == IF reuse THEN freeCaches[Len(freeCaches)] ELSE allocated + 1
            size  == CacheLen(room)
        IN  /\ sequenceCaches' = [sequenceCaches EXCEPT ![id] = c]
            /\ freeCaches' = IF reuse THEN SubSeq(freeCaches, 1, Len(freeCaches)-1) ELSE <<>>
            /\ allocated' = IF reuse THEN allocated ELSE c
            /\ cap' = [cap EXCEPT ![c] = size]
            /\ cells' = [cells EXCEPT ![c] = [p \in Pos |-> IF p < size THEN @[p] ELSE Blank]]

(* The length asked for is bounded by the model's. *)
Limit(maxLen) == IF maxLen < 0 THEN MaxSeqLen ELSE Smaller(maxLen, MaxSeqLen)

(* One maxLen for the batch, raised to the longest prompt. *)
BatchLen(lens, maxLen) ==
  LET all == {Limit(maxLen)} \cup Elems(lens)
  IN  CHOOSE m \in all : \A n \in all : m >= n

(* The forms of set_input with one vector of tokens raise the length to    *)
(* that of each prompt, the form with a vector per prompt to the longest.  *)
Rooms(lens, maxLen) ==
  {[i \in DOMAIN lens |-> Larger(Limit(maxLen), lens[i])],
   [i \in DOMAIN lens |-> BatchLen(lens, maxLen)]}

(* Model::set_input without SearcherConfig, prompts: one job per sequence. *)
SetInputPrompt(lens, maxLen) ==
  /\ pc = "client"
  /\ created + Len(lens) <= MaxGroups
  /\ "ids" \in rules => NextIDs(Len(lens)) \cap held = {} /\ Len(lens) <= MaxID
  /\ "fits" \in rules => \A i \in DOMAIN lens : lens[i] <= MaxSeqLen
  /\ workingGroup' = <<>>
  /\ \E room \in Rooms(lens, maxLen) :
       todo' = [i \in DOMAIN lens |-> [prompt |-> lens[i], room |-> room[i], maxLen |-> NoConfig]]
  /\ pc' = "add"
  /\ UNCHANGED <<rules, pool, caches, readyCaches, cells, ret, held, fed>>

(* Model::set_input with SearcherConfig, prompts. *)
SetInputConfig(lens, maxLen) ==
  /\ pc = "client"
  /\ created + Len(lens) <= MaxGroups
  /\ "ids" \in rules => NextIDs(Len(lens)) \cap held = {} /\ Len(lens) <= MaxID
  /\ "fits" \in rules => \A i \in DOMAIN lens : lens[i] <= MaxSeqLen
  /\ workingGroup' = <<>>
  /\ todo' = [i \in DOMAIN lens |->
                [prompt |-> lens[i], room |-> BatchLen(lens, maxLen), maxLen |-> BatchLen(lens, maxLen)]]
  /\ pc' = "add"
  /\ UNCHANGED <<rules, pool, caches, readyCaches, cells, ret, held, fed>>

(* One iteration of the loop over the prompts of set_input. *)
AddGroup ==
  /\ pc = "add"
  /\ LET id  == CreateSequenceID(globalSequenceID)
         job == Head(todo)
     IN  /\ globalSequenceID' = id + 1
         /\ NewGroupMeta(created + 1, id, job)
         /\ workingGroup' = Append(workingGroup, created + 1)
         /\ AddSequence(id, job.room)
         /\ held' = held \cup {id}
         /\ fed' = fed \ {id}
  /\ todo' = Tail(todo)
  /\ pc' = IF Len(todo) = 1 THEN "client" ELSE "add"
  /\ UNCHANGED <<rules, readyCaches, ret>>

-----------------------------------------------------------------------------
(* Variant of StepForward, for mutation: the prompt is not counted. *)
StepForwardPromptLost(m) ==
  [m EXCEPT !.input = 1, !.past = @ + 1, !.generated = @ + 1, !.step = @ + 1]

(* SequenceMeta::stepForward *)
StepForward(m) ==
  [m EXCEPT !.input = 1,
            !.past = IF m.step = 0 THEN m.prompt ELSE @ + 1,
            !.generated = @ + 1,
            !.step = @ + 1]

(* Model::set_input without SearcherConfig, next tokens.  An ID that is in *)
(* neither map ends the process, which SequencesHeld rules out.            *)
SetInputDecode(ids) ==
  /\ pc = "client"
  /\ \A i \in DOMAIN ids : hub[ids[i]] # None /\ Exist(ids[i])
  /\ LET gs == [i \in DOMAIN ids |-> hub[ids[i]]]
     IN  /\ \A g \in Elems(gs) : ~Sampled(g) /\ TotalLen(meta[g]) < MaxPos
         /\ "fits" \in rules =>
              \A i \in DOMAIN ids : TotalLen(meta[gs[i]]) < cap[sequenceCaches[ids[i]]]
         /\ meta' = [g \in Group |-> IF g \in Elems(gs) THEN StepForward(meta[g]) ELSE meta[g]]
         /\ workingGroup' = gs
  /\ fed' = fed \ Elems(ids)
  /\ UNCHANGED <<rules, globalSequenceID, created, hub, caches, readyCaches, cells, pc, todo, ret, held>>

(* Model::set_input with SearcherConfig, next tokens: the batch is chosen, *)
(* the tokens are ignored (generate has already stepped forward).          *)
SetInputResume(ids) ==
  /\ pc = "client"
  /\ \A i \in DOMAIN ids : hub[ids[i]] # None /\ Exist(ids[i])
  /\ \A i \in DOMAIN ids : Sampled(hub[ids[i]]) /\ meta[hub[ids[i]]].step > 0
  /\ workingGroup' = [i \in DOMAIN ids |-> hub[ids[i]]]
  /\ UNCHANGED <<rules, pool, caches, readyCaches, cells, pc, todo, ret, held, fed>>

-----------------------------------------------------------------------------
(* Variant of PrepareCache, for mutation: the list is built only once. *)
PrepareCacheOnce(ids) ==
  IF readyCaches = <<>> THEN [i \in DOMAIN ids |-> sequenceCaches[ids[i]]] ELSE readyCaches

(* KVCacheMgrImpl::prepareCache: the list to use from now on; an unknown   *)
(* ID leaves the previous list (the caller ignores the failure).           *)
PrepareCache(ids) ==
  IF \A i \in DOMAIN ids : Exist(ids[i])
  THEN [i \in DOMAIN ids |-> sequenceCaches[ids[i]]]
  ELSE readyCaches

(* Attention::copyKVCache: the input tokens of the i-th group are stored   *)
(* from position past of the i-th ready cache.                             *)
Stored(i, p) ==
  LET m == meta[workingGroup[i]]
  IN  p \in m.past .. m.past + m.input - 1

CopyKVCache(ready) ==
  [c \in Cache |->
    [p \in Pos |->
      IF \E i \in DOMAIN workingGroup : i \in DOMAIN ready /\ ready[i] = c /\ Stored(i, p)
      THEN LET i == CHOOSE i \in DOMAIN workingGroup :
                      i \in DOMAIN ready /\ ready[i] = c /\ Stored(i, p)
               m == meta[workingGroup[i]]
           IN  [group |-> workingGroup[i], token |-> TotalLen(m) - m.input + (p - m.past)]
      ELSE cells[c][p]]]

WorkingIDs == [i \in DOMAIN workingGroup |-> IdOf(workingGroup[i])]

(* Model::isDone *)
IsDone == \A g \in Elems(workingGroup) : meta[g].done

Computable ==
  /\ pc = "client"
  /\ workingGroup # <<>>
  /\ "held" \in rules => Elems(WorkingIDs) \subseteq held
  /\ "loop" \in rules => ~IsDone
  /\ "done" \in rules => \A g \in Elems(workingGroup) : ~meta[g].done
  /\ \A g \in Elems(workingGroup) : meta[g].past + meta[g].input <= MaxPos

(* CommonDecoder::forward and DecoderBlock::forward. *)
DecoderForward ==
  LET ready == PrepareCache(WorkingIDs)
  IN  /\ readyCaches' = ready
      /\ cells' = CopyKVCache(ready)

(* Model::forward: the client gets the logits. *)
Forward ==
  /\ Computable
  /\ DecoderForward
  /\ fed' = fed \cup Elems(WorkingIDs)
  /\ UNCHANGED <<rules, pool, caches, workingGroup, pc, todo, ret, held>>

(* Variant of StopCheck, for mutation: the token just generated is forgotten. *)
StopCheckLate(m, eos) == [m EXCEPT !.done = @ \/ eos \/ TotalLen(m) > m.maxLen]

(* stopCheck *)
StopCheck(m, eos) == [m EXCEPT !.done = @ \/ eos \/ TotalLen(m) + 1 >= m.maxLen]

(* Model::generate: forward, greedySearch, stopCheck, stepForward.  The    *)
(* search yields the end token for the groups in ended.                    *)
Generate(ended) ==
  /\ Computable
  /\ \A g \in Elems(workingGroup) : Sampled(g) /\ TotalLen(meta[g]) < MaxPos
  /\ DecoderForward
  /\ meta' = [g \in Group |->
               IF g \in Elems(workingGroup) THEN StepForward(StopCheck(meta[g], g \in ended))
                                            ELSE meta[g]]
  /\ UNCHANGED <<rules, globalSequenceID, created, hub, caches, workingGroup, pc, todo, ret, held, fed>>

-----------------------------------------------------------------------------
(* Variant of DelSequence, for mutation: an unknown ID is not noticed. *)
DelSequenceUnknown(id) ==
  /\ freeCaches' = Append(freeCaches, sequenceCaches[id])
  /\ sequenceCaches' = [sequenceCaches EXCEPT ![id] = None]

(* Variant of DelSequence, for mutation: the entry of the ID is kept. *)
DelSequenceKeepsEntry(id) ==
  /\ freeCaches' = IF Exist(id) THEN Append(freeCaches, sequenceCaches[id]) ELSE freeCaches
  /\ UNCHANGED sequenceCaches

(* KVCacheMgrImpl::delSequence *)
DelSequence(id) ==
  /\ freeCaches' = IF Exist(id) THEN Append(freeCaches, sequenceCaches[id]) ELSE freeCaches
  /\ sequenceCaches' = [sequenceCaches EXCEPT ![id] = None]

(* Variant of Remove, for mutation: nothing is removed. *)
RemoveNothing(id) == hub' = hub

(* SequencePool::remove *)
Remove(id) == hub' = [hub EXCEPT ![id] = None]

(* Model::freeSeqs *)
FreeSeqs(ids) ==
  /\ pc = "client"
  /\ pc' = "free"
  /\ todo' = ids
  /\ ret' = TRUE
  /\ held' = held \ Elems(ids)
  /\ fed' = fed \ Elems(ids)
  /\ UNCHANGED <<rules, pool, caches, workingGroup, readyCaches, cells>>

(* Variant of FreeOne, for mutation: the result of remove is inverted. *)
FreeOneInverted ==
  /\ pc = "free"
  /\ LET id == Head(todo)
     IN  \/ /\ ret /\ Exist(id)
            /\ DelSequence(id)
            /\ Remove(id)
            /\ ret' = (hub[id] = None)
         \/ /\ ~(ret /\ Exist(id))
            /\ ret' = FALSE
            /\ UNCHANGED <<sequenceCaches, freeCaches, hub>>
  /\ todo' = Tail(todo)
  /\ pc' = IF Len(todo) = 1 THEN "client" ELSE "free"
  /\ UNCHANGED <<rules, globalSequenceID, created, meta, workingGroup, readyCaches, allocated, cap,
                 cells, held, fed>>

(* One iteration of its loop: after a failure nothing more is freed. *)
FreeOne ==
  /\ pc = "free"
  /\ LET id == Head(todo)
     IN  \/ /\ ret /\ Exist(id)
            /\ DelSequence(id)
            /\ Remove(id)
            /\ ret' = (hub[id] # None)
         \/ /\ ~(ret /\ Exist(id))
            /\ ret' = FALSE
            /\ UNCHANGED <<sequenceCaches, freeCaches, hub>>
  /\ todo' = Tail(todo)
  /\ pc' = IF Len(todo) = 1 THEN "client" ELSE "free"
  /\ UNCHANGED <<rules, globalSequenceID, created, meta, workingGroup, readyCaches, allocated, cap,
                 cells, held, fed>>

(* Model::finalize *)
Finalize ==
  /\ pc = "client"
  /\ workingGroup # <<>>
  /\ "once" \in rules => Elems(WorkingIDs) \subseteq held
  /\ pc' = "finalize"
  /\ todo' = WorkingIDs
  /\ held' = held \ Elems(WorkingIDs)
  /\ fed' = fed \ Elems(WorkingIDs)
  /\ UNCHANGED <<rules, pool, caches, workingGroup, readyCaches, cells, ret>>

FinalizeOne ==
  /\ pc = "finalize"
  /\ DelSequence(Head(todo))
  /\ Remove(Head(todo))
  /\ todo' = Tail(todo)
  /\ pc' = IF Len(todo) = 1 THEN "client" ELSE "finalize"
  /\ workingGroup' = IF Len(todo) = 1 THEN <<>> ELSE workingGroup
  /\ UNCHANGED <<rules, globalSequenceID, created, meta, readyCaches, allocated, cap, cells, ret, held, fed>>

-----------------------------------------------------------------------------
(* The batches a client of these rules may name in freeSeqs: with "once"   *)
(* only sequences it holds, otherwise any, a sequence freed before too.    *)
Freeable == IF "once" \in rules THEN held ELSE ID

Next ==
  \/ \E n \in 1 .. MaxBatch : \E lens \in [1 .. n -> PromptLens], maxLen \in MaxLens :
       SetInputPrompt(lens, maxLen) \/ SetInputConfig(lens, maxLen)
  \/ AddGroup
  \/ \E ids \in Batches(held \cap fed) : SetInputDecode(ids)
  \/ \E ids \in Batches(held) : SetInputResume(ids)
  \/ Forward
  \/ \E ended \in SUBSET Elems(workingGroup) : Generate(ended)
  \/ \E ids \in Batches(Freeable) : FreeSeqs(ids)
  \/ FreeOne
  \/ Finalize
  \/ FinalizeOne

Spec == Init /\ [][Next]_vars

-----------------------------------------------------------------------------
Meta ==
  [id : ID, prompt : Nat, generated : Nat, step : Nat, past : Nat, input : Nat,
   maxLen : Nat \cup {NoConfig}, done : BOOLEAN]
Job  == [prompt : Nat, room : Nat, maxLen : Nat \cup {NoConfig}]
Cell == [group : {None} \cup Group, token : Nat]

(* Types of the three singletons, of Model and of the client.  The counter *)
(* of SequenceIDManager never passes the bound, a cache never gets more    *)
(* positions than the model is configured for.                             *)
TypeOK ==
  /\ globalSequenceID \in 0 .. MaxID
  /\ created \in 0 .. MaxGroups
  /\ meta \in [Group -> Meta]
  /\ hub \in [ID -> {None} \cup 1 .. created]
  /\ workingGroup \in Seq(1 .. created)
  /\ sequenceCaches \in [ID -> {None} \cup 1 .. allocated]
  /\ freeCaches \in Seq(1 .. allocated)
  /\ readyCaches \in Seq(1 .. allocated)
  /\ allocated \in 0 .. MaxGroups
  /\ cap \in [Cache -> 0 .. MaxSeqLen]
  /\ cells \in [Cache -> [Pos -> Cell]]
  /\ pc \in {"client", "add", "free", "finalize"}
  /\ pc = "add" => todo \in Seq(Job) /\ todo # <<>>
  /\ pc \in {"free", "finalize"} => todo \in Seq(ID) /\ todo # <<>>
  /\ ret \in BOOLEAN
  /\ rules \in RuleSets
  /\ held \subseteq ID
  /\ fed \subseteq ID

(* KVCacheMgr: a cache belongs to one sequence or waits once on the stack  *)
(* of free caches, never both, and none is lost: whatever the order of     *)
(* set_input, freeSeqs and finalize, two sequences never share a cache.    *)
OneOwner ==
  /\ \A i, j \in ID : Exist(i) /\ sequenceCaches[i] = sequenceCaches[j] => i = j
  /\ \A i \in ID : Exist(i) => sequenceCaches[i] \notin Elems(freeCaches)
  /\ \A i, j \in DOMAIN freeCaches : freeCaches[i] = freeCaches[j] => i = j
  /\ 1 .. allocated = Elems(freeCaches) \cup {sequenceCaches[i] : i \in {k \in ID : Exist(k)}}

(* SequencePool and KVCacheMgr, two maps that are updated one after the    *)
(* other, know the same sequences at the end of every iteration, and the   *)
(* pool finds a group under the group's own ID.                            *)
MapsAgree ==
  \A id \in ID :
    /\ hub[id] # None <=> Exist(id)
    /\ hub[id] # None => meta[hub[id]].id = id

(* Between calls the sequences with a cache are exactly those the client   *)
(* holds: the "not found" exits of set_input are not taken for an ID it    *)
(* holds, and no sequence it has freed keeps a cache.                      *)
SequencesHeld == rules = AllRules /\ pc = "client" => held = {id \in ID : Exist(id)}

(* The keys and values that attention reads for a sequence, positions 0 to *)
(* pastSeqLen - 1 of its cache, are those of its own tokens in order,      *)
(* whatever was computed, freed and reused in between, and the input       *)
(* tokens are exactly the ones that follow.                                *)
CacheHoldsPast ==
  rules = AllRules => \A id \in ID : hub[id] # None =>
    /\ meta[hub[id]].past + meta[hub[id]].input = TotalLen(meta[hub[id]])
    /\ \A p \in 0 .. meta[hub[id]].past - 1 :
         cells[sequenceCaches[id]][p] = [group |-> hub[id], token |-> p]

(* copyKVCache stores nothing beyond the positions the cache was sized for. *)
InBounds == rules = AllRules => \A c \in Cache : \A p \in Pos : p >= cap[c] => cells[c][p] = Blank

(* A call computes only the sequences of its batch: the cache of any other *)
(* sequence that stays in the pool keeps its cells.                        *)
OthersUntouched ==
  [][rules = AllRules => \A id \in ID :
       hub[id] # None /\ hub'[id] = hub[id] /\ hub[id] \notin Elems(workingGroup) =>
         /\ sequenceCaches'[id] = sequenceCaches[id]
         /\ cells'[sequenceCaches[id]] = cells[sequenceCaches[id]]]_vars

(* sampling.cpp, stopCheck: "If the sequence meets the max length, mark    *)
(* the sequence as done": a sequence that is not computed again once it is *)
(* done never grows past its maxLen, but for the one token that generate   *)
(* adds to a prompt that is as long itself.                                *)
LengthBounded ==
  "done" \in rules =>
    \A g \in 1 .. created : Sampled(g) =>
      TotalLen(meta[g]) <= Larger(meta[g].maxLen, meta[g].prompt + 1)

-----------------------------------------------------------------------------
(* The inductive invariant: what the properties above rest on.             *)
Cached == {id \in ID : Exist(id)}

(* There are no more caches than groups, and room for those being added. *)
InvCounts ==
  /\ allocated <= created
  /\ pc = "add" => created + Len(todo) <= MaxGroups

(* The lengths of a group agree with its step. *)
InvLengths ==
  \A g \in 1 .. created :
    /\ meta[g].step = 0 => meta[g].past = 0 /\ meta[g].input = meta[g].prompt /\ meta[g].generated = 0
    /\ meta[g].step > 0 => meta[g].input = 1 /\ meta[g].past + 1 = TotalLen(meta[g])

(* A group that is not done has not come to its maxLen, except by its prompt. *)
InvSampled ==
  /\ "done" \in rules =>
       \A g \in 1 .. created : Sampled(g) /\ ~meta[g].done =>
         \/ TotalLen(meta[g]) < meta[g].maxLen
         \/ meta[g].generated = 0 /\ meta[g].prompt <= meta[g].maxLen
  /\ pc = "add" =>
       \A i \in 1 .. Len(todo) : todo[i].maxLen # NoConfig => todo[i].prompt <= todo[i].maxLen

(* The rest is about the client that keeps every rule.  During a call the  *)
(* caches are those of the sequences held and of those still to be freed.  *)
InvHeld ==
  rules = AllRules =>
    /\ pc \in {"client", "add"} => held = Cached
    /\ pc \in {"free", "finalize"} =>
         held \subseteq Cached /\ Cached \subseteq held \cup Elems(todo) /\ held \cap Elems(todo) = {}
    /\ pc = "free" =>
         /\ ret /\ Elems(todo) \subseteq Cached
         /\ \A i, j \in 1 .. Len(todo) : todo[i] = todo[j] => i = j

(* The IDs still to be issued are not held. *)
InvFresh ==
  rules = AllRules /\ pc = "add" => NextIDs(Len(todo)) \cap held = {} /\ Len(todo) <= MaxID

(* A group of the batch is the one the pool has under its ID, or has been  *)
(* removed; none is while the batch is being built.                        *)
InvWorking ==
  rules = AllRules => \A g \in Elems(workingGroup) :
    \/ hub[IdOf(g)] = g
    \/ pc # "add" /\ hub[IdOf(g)] = None

(* What a sequence may still grow to has room in its cache. *)
InvRoom ==
  rules = AllRules =>
    /\ \A id \in ID : hub[id] # None =>
         /\ TotalLen(meta[hub[id]]) <= MaxPos
         /\ IF Sampled(hub[id]) THEN meta[hub[id]].maxLen <= cap[sequenceCaches[id]]
            ELSE TotalLen(meta[hub[id]]) <= cap[sequenceCaches[id]]
    /\ pc = "add" => \A i \in 1 .. Len(todo) :
         /\ todo[i].prompt <= todo[i].room /\ todo[i].prompt <= MaxSeqLen
         /\ todo[i].maxLen # NoConfig => todo[i].maxLen = todo[i].room /\ todo[i].room <= MaxSeqLen

(* A sequence whose next token the client may send has all its tokens in   *)
(* its cache.                                                              *)
InvFed ==
  rules = AllRules =>
    \A id \in fed : hub[id] # None /\ ~Sampled(hub[id]) =>
      \A p \in 0 .. TotalLen(meta[hub[id]]) - 1 :
        cells[sequenceCaches[id]][p] = [group |-> hub[id], token |-> p]

IInv ==
  /\ TypeOK /\ OneOwner /\ MapsAgree
  /\ InvCounts /\ InvLengths /\ InvSampled /\ LengthBounded
  /\ InvHeld /\ InvFresh /\ InvWorking /\ InvRoom /\ InvFed
  /\ CacheHoldsPast /\ InBounds
=============================================================================
