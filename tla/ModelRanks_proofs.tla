-------------------------- MODULE ModelRanks_proofs --------------------------
(***************************************************************************)
(* The ranks of a group run one program: all go through the same states,   *)
(* each at its own pace.  For any number of ranks, any scripts, tokens     *)
(* drawn and timings.                                                      *)
(***************************************************************************)
EXTENDS ModelRanks, WellFoundedInduction, SequenceTheorems, TLAPS

-----------------------------------------------------------------------------
(* A sequence, of whatever it holds. *)
IsSeq(s) == Len(s) \in Nat /\ s = [k \in 1 .. Len(s) |-> s[k]]

(* What the ranks have in common: the operations and sizes of the          *)
(* collectives entered, but not the data; the calls left, the Messenger    *)
(* and the Model.  A rank that has been told to exit has no Model to speak *)
(* of, and while the configuration is on its way only rank 0 has it.       *)
V(p, o, l, g, m) == [pc |-> p, ops |-> o, left |-> l, msgr |-> g, model |-> m]

OpsOf(c) == [k \in DOMAIN c |-> <<c[k].op, c[k].count>>]
LeftOf(r, td) == Len(td) - (IF r = 0 THEN 0 ELSE 1)

(* Rank 0 exits with the broadcast that the others wait for once more. *)
LoopLabel(script) == IF Again(script).call = "setInput" THEN "dim" ELSE "configured"
PcOf(script, r, p) == IF r = 0 /\ p = "exited" THEN LoopLabel(script) ELSE p
Pending(m) == [m EXCEPT !.configuration = None]
ModelOf(l, p, m) ==
  IF l = 0 /\ p \in {"configured", "dim", "exited"} THEN NewModel
  ELSE IF p = "configured" THEN Pending(m) ELSE m
ViewOf(script, r, p, c, td, g, m) ==
  V(PcOf(script, r, p), OpsOf(c), LeftOf(r, td), g, ModelOf(LeftOf(r, td), p, m))
View(script, r) == ViewOf(script, r, pc[r], calls[r], todo[r], msgr[r], model[r])

(* The call that is made with l left. *)
Name(script, l) == IF l = 0 THEN Again(script).call ELSE script[Len(script) - l + 1].call

-----------------------------------------------------------------------------
(* The step from view a, with v what the last broadcast brought. *)
Then(a, p) == V(p, a.ops, a.left, a.msgr, a.model)
ThenWith(a, p, m) == V(p, a.ops, a.left, a.msgr, m)
Calls(a, op, count, p, m) == V(p, Append(a.ops, <<op, count>>), a.left, a.msgr, m)
Casts(a, count, p) == Calls(a, "broadcast", count, p, a.model)
Returns(a, m) == V("next", a.ops, a.left - 1, a.msgr, m)
Reduces(a, count, ret, m) == V("reduceAdd", a.ops, a.left, Begun(a.msgr, 2 * Layers, count, ret), m)

FromNext(script, a) ==
  LET name == Name(script, a.left) IN
  IF name = "generate" THEN
    Calls(a, "broadcast", ConfigInts, "configured",
          IF a.left = 0 THEN NewModel ELSE [a.model EXCEPT !.isNewInput = TRUE, !.configuration = None])
  ELSE IF name = "setInput" THEN
    Calls(a, "broadcast", 4, "dim", IF a.left = 0 THEN NewModel ELSE a.model)
  ELSE IF name = "setPrefix" THEN Casts(a, 1, "prefixLen")
  ELSE IF name = "unsetPrefix" THEN Returns(a, [a.model EXCEPT !.prefix = <<>>])
  ELSE IF name = "forward" THEN Reduces(a, Len(a.model.inputIds), "gather", a.model)
  ELSE Casts(a, 1, "freeSize")

FromConfigured(a, v) ==
  IF a.left = 0 THEN Then(a, "exited")
  ELSE Calls(a, "broadcast", 1, "listSize",
             [a.model EXCEPT !.configuration = v, !.searcher = TRUE, !.stopWordsList = <<>>])
FromConfig(a, v) ==
  IF a.pc = "configured" THEN FromConfigured(a, v)
  ELSE IF a.pc = "listSize" THEN IF v = 0 THEN Then(a, "input") ELSE Casts(a, v, "wordsSize")
  ELSE IF a.pc = "wordsSize" THEN
    Calls(a, "broadcast", SumTo(v, Len(v)), "wordsData", [a.model EXCEPT !.wordsSize = v])
  ELSE IF a.pc = "wordsData" THEN
    ThenWith(a, "input", [a.model EXCEPT !.stopWordsList = NotEos(Restore(a.model.wordsSize, v))])
  ELSE IF a.pc = "input" THEN Calls(a, "broadcast", 2, "dims", [a.model EXCEPT !.isNewInput = TRUE])
  ELSE IF a.pc = "dims" THEN Casts(a, v[2], "ids")
  ELSE ThenWith(a, "loop", [a.model EXCEPT !.inputIds = v])

SearchPc(m) ==
  IF m.gathers + 1 < Gathers(m.configuration) THEN "search"
  ELSE IF Samples(m.configuration) THEN "sample" ELSE "picked"
SearchModel(m) ==
  [m EXCEPT !.gathers = IF m.gathers + 1 < Gathers(m.configuration) THEN m.gathers + 1 ELSE 0]

FromLoop(a, v) ==
  IF a.pc = "loop" THEN IF IsDone(a.model) THEN Returns(a, a.model)
                        ELSE Reduces(a, Rows(a.model), "search", Fed(a.model))
  ELSE IF a.pc = "search" THEN
    Calls(a, "allgatherv", 2 * a.model.configuration.numBeams, SearchPc(a.model), SearchModel(a.model))
  ELSE IF a.pc = "sample" THEN Casts(a, 1, "drawn")
  ELSE ThenWith(a, "loop", Stepped(a.model, IF a.pc = "drawn" THEN v ELSE Largest(a.model)))

PartOf(p) == IF p = "tokens" THEN 1 ELSE IF p = "seqLens" THEN 2 ELSE IF p = "seqIDs" THEN 3 ELSE 4
FromPart(a, v) ==
  LET q == NextPart(a.model, PartOf(a.pc))
      m == Taken(a.model, a.pc, v)
  IN  IF q = 0 THEN ThenWith(a, "group", m) ELSE Calls(a, "broadcast", a.model.dims[q], Parts[q], m)

FromDim(a, v) ==
  IF a.left = 0 THEN Then(a, "exited")
  ELSE Calls(a, "broadcast", v[1], "tokens",
             [a.model EXCEPT !.dims = v, !.seqLens = <<>>, !.seqIDs = <<>>, !.maxLen = <<>>])
FromBatch(a, v) ==
  IF a.pc = "dim" THEN FromDim(a, v)
  ELSE IF a.pc = "group" THEN
    IF Mismatch(a.model) THEN Then(a, "failed") ELSE Returns(a, Grouped(a.model))
  ELSE IF a.pc = "gather" THEN Calls(a, "allgatherv", Len(a.model.workingGroup), "return", a.model)
  ELSE IF a.pc = "return" THEN Returns(a, a.model)
  ELSE IF a.pc = "freeSize" THEN IF v = 0 THEN Returns(a, a.model) ELSE Casts(a, v, "freeIDs")
  ELSE IF a.pc = "freeIDs" THEN Returns(a, [a.model EXCEPT !.pool = Freed(a.model.pool, v)])
  ELSE IF a.pc = "prefixLen" THEN Casts(a, v, "prefixIds")
  ELSE Reduces(a, Len(v), "return", [a.model EXCEPT !.prefix = v])

TuneSteps(g) == IF g.count < CclLimit THEN 2 * TuneRuns ELSE TuneRuns
Resizes(a) == a.pc = "reduceAdd" /\ Tuning /\ a.msgr.count > a.msgr.shmSize
Tunes(a) ==
  /\ a.pc = "tune" \/ (Tuning /\ a.pc \in {"reduceAdd", "resized"})
  /\ a.msgr.count \notin DOMAIN a.msgr.tuned
UserOp(g) ==
  IF Tuning THEN IF g.tuned[g.count] = 0 THEN "shm" ELSE "allreduce"
  ELSE IF ~mode.localRanksFlag \/ g.count > g.shmSize THEN "allreduce" ELSE "shm"
Learnt(g, v) ==
  [g EXCEPT !.tuned = [n \in DOMAIN g.tuned \cup {g.count} |-> IF n = g.count THEN v ELSE g.tuned[n]]]

FromReduce(a, v) ==
  LET g == a.msgr IN
  IF a.pc = "timed" THEN Casts(a, 1, "typed")
  ELSE IF a.pc = "typed" THEN V("tuned", a.ops, a.left, Learnt(g, v), a.model)
  ELSE IF Resizes(a) THEN
    V("resized", a.ops, a.left, [g EXCEPT !.shmSize = g.count], a.model)
  ELSE IF Tunes(a) THEN
    V(IF g.run + 1 < TuneSteps(g) THEN "tune" ELSE "timed",
      Append(a.ops, <<IF g.run < TuneRuns THEN "shm" ELSE "allreduce", g.count>>),
      a.left, [g EXCEPT !.run = g.run + 1], a.model)
  ELSE
    V(IF g.left = 1 THEN g.ret ELSE "reduceAdd",
      Append(a.ops, <<UserOp(g), g.count>>), a.left, [g EXCEPT !.left = g.left - 1, !.run = 0], a.model)

ConfigPcs == {"configured", "listSize", "wordsSize", "wordsData", "input", "dims", "ids"}
LoopPcs == {"loop", "search", "sample", "picked", "drawn"}
PartPcs == {"tokens", "seqLens", "seqIDs", "maxLen"}
BatchPcs == {"dim", "group", "gather", "return", "freeSize", "freeIDs", "prefixLen", "prefixIds"}
ReducePcs == {"reduceAdd", "resized", "tune", "timed", "typed", "tuned"}

After(script, a, v) ==
  IF a.pc = "next" THEN FromNext(script, a)
  ELSE IF a.pc \in ConfigPcs THEN FromConfig(a, v)
  ELSE IF a.pc \in LoopPcs THEN FromLoop(a, v)
  ELSE IF a.pc \in PartPcs THEN FromPart(a, v)
  ELSE IF a.pc \in BatchPcs THEN FromBatch(a, v)
  ELSE FromReduce(a, v)

(* What the last broadcast of n brought. *)
Data(n) == IF n = 0 THEN None ELSE calls[0][n].data

-----------------------------------------------------------------------------
(* A step that enters no collective goes up in weight, or ends a call;     *)
(* places of weight 0 are entered with a collective, the one after         *)
(* ShmResize is left with one, and only ShmResize changes the size.        *)
Weight(p) == CASE p \in {"next", "loop", "tuned", "input", "group"} -> 1
               [] p \in {"reduceAdd", "exited", "failed"} -> 2
               [] p = "resized" -> 3
               [] OTHER -> 0

Later(a, b) ==
  /\ Len(a.ops) <= Len(b.ops) /\ \A k \in 1 .. Len(a.ops) : a.ops[k] = b.ops[k]
  /\ b.left <= a.left
  /\ Len(a.ops) < Len(b.ops) \/ b.left < a.left \/ Weight(a.pc) < Weight(b.pc)
  /\ Weight(b.pc) = 0 \/ a.pc = "resized" => Len(a.ops) < Len(b.ops)
  /\ Len(a.ops) = Len(b.ops) /\ b.pc # "resized" => b.msgr.shmSize = a.msgr.shmSize

(* A view is sound. *)
Generates(script) == \E i \in DOMAIN script : script[i].call = "generate"
Configuration == [maxLen : Nat, numBeams : Nat, doSample : BOOLEAN]
Pcs == {"next", "exited", "failed"} \cup ConfigPcs \cup LoopPcs \cup PartPcs \cup BatchPcs \cup ReducePcs
SoundPlaceOf(script, p, o, l) ==
  /\ p \in Pcs
  /\ l \in 0 .. Len(script)
  /\ l = 0 => p \in {"next", "configured", "dim", "exited"}
  /\ p = "exited" => l = 0
  /\ p \in ConfigPcs => Name(script, l) = "generate"
  /\ p = "prefixLen" => Name(script, l) = "setPrefix"
  /\ p = "dim" => Name(script, l) = "setInput"
  /\ IsSeq(o) /\ (Weight(p) = 0 => Len(o) > 0)
SoundPlace(script, a) == SoundPlaceOf(script, a.pc, a.ops, a.left)

SoundMessengerOf(p, o, g) ==
  /\ DOMAIN g = DOMAIN NewMessenger
  /\ g.shmSize \in Int /\ g.count \in Int
  /\ p \in {"resized", "tune", "timed", "typed", "tuned"} => g.count <= g.shmSize
  /\ p \in ReducePcs => g.ret \in {"search", "return", "gather"}
  /\ Len(o) > 0 /\ o[Len(o)][1] = "shm" =>
       /\ o[Len(o)][2] \in Int /\ o[Len(o)][2] <= g.shmSize
       /\ g.ret \in {"search", "return", "gather"}
SoundMessenger(a) == SoundMessengerOf(a.pc, a.ops, a.msgr)

SoundModelOf(script, p, l, m) ==
  /\ DOMAIN m = DOMAIN NewModel
  /\ m.inputIds \in Seq(Int) /\ m.prefix \in Seq(Int)
  /\ p # "configured" => m.configuration \in Configuration
  /\ m.searcher \in BOOLEAN /\ (m.searcher => Generates(script))
  /\ l > 0 \/ p = "next" =>
       \A i \in 1 .. Len(script) - l : script[i].call = "generate" => m.searcher
  /\ l > 0 /\ p \notin {"next", "configured"} /\ Name(script, l) = "generate" => m.searcher
  /\ l = 0 /\ p # "next" => m = NewModel
SoundModel(script, a) == SoundModelOf(script, a.pc, a.left, a.model)

Sound(script, a) == SoundPlace(script, a) /\ SoundMessenger(a) /\ SoundModel(script, a)

(* What rank 0 sends at a. *)
SentAt(p, l, v) ==
  /\ p = "configured" => IF l = 0 THEN v.numBeams = 0 ELSE v \in Configuration /\ v.numBeams # 0
  /\ p = "dim" => v[1] \in Int /\ IF l = 0 THEN v[1] < 0 ELSE v[1] >= 0
  /\ p \in {"ids", "tokens", "prefixIds"} => v \in Seq(Int)
Sent(a, v) == SentAt(a.pc, a.left, v)

-----------------------------------------------------------------------------
(* The history t that all ranks follow; rank r is at pos[r]. *)
Traced(script, t, N, pos) ==
  /\ N \in Nat /\ pos \in [Rank -> 0 .. N]
  /\ \A r \in Rank : View(script, r) = t[pos[r]]
  /\ \A n \in 0 .. N : Sound(script, t[n])
  /\ \A n \in 0 .. N-1 : /\ Len(t[n].ops) <= Len(calls[0])
                         /\ t[n + 1] = After(script, t[n], Data(Len(t[n].ops)))
  /\ \A i, j \in 0 .. N : i < j => Later(t[i], t[j])
  /\ \A n \in 0 .. N : Len(t[n].ops) <= Len(calls[0]) => Sent(t[n], Data(Len(t[n].ops)))

Full(script, r) == IF r = 0 THEN script ELSE Append(script, Again(script))
Rest(full, td) ==
  /\ IsSeq(td) /\ Len(td) <= Len(full)
  /\ \A i \in 1 .. Len(td) : td[i] = full[Len(full) - Len(td) + i]
Domains ==
  /\ DOMAIN pc = Rank /\ DOMAIN calls = Rank /\ DOMAIN msgr = Rank
  /\ DOMAIN todo = Rank /\ DOMAIN model = Rank
Orderly(script, r) == IsSeq(calls[r]) /\ Rest(Full(script, r), todo[r])

(* Rank 0 has what it sends: the words of its caller. *)
MasterOf(p, c, td, m) ==
  LET words == Removed(Head(td).stopWords)
      sizes == [i \in 1 .. Len(words) |-> Len(words[i])]
      data == c[Len(c)].data
  IN  /\ td = <<>> => p \in {"next", "exited"}
      /\ p = "listSize" => data = Len(words)
      /\ p = "wordsSize" => data = sizes
      /\ p = "wordsData" => data = FlattenSeq(words) /\ m.wordsSize = sizes
Master == MasterOf(pc[0], calls[0], todo[0], model[0])

OneHistory ==
  \E script \in Scripts : /\ Domains /\ Master
                          /\ \A r \in Rank : Orderly(script, r)
                          /\ \E t, N, pos : Traced(script, t, N, pos)

-----------------------------------------------------------------------------
(* A non-empty set of naturals has a least element. *)
LEMMA LeastNatural ==
  ASSUME NEW T \in SUBSET Nat, T # {}
  PROVE  \E x \in T : \A y \in T : x <= y
<1>1. PICK x \in T : \A y \in T : ~(<<y, x>> \in OpToRel(<, Nat))
  BY WFMin, NatLessThanWellFounded
<1>2. \A y \in T : ~(y < x)
  BY <1>1 DEF OpToRel
<1> QED
  BY <1>2

(* Induction, for a property given as a set. *)
LEMMA InductionOnNat ==
  ASSUME NEW T, 0 \in T, \A n \in Nat : n \in T => n + 1 \in T
  PROVE  Nat \subseteq T
<1> SUFFICES ASSUME Nat \ T # {} PROVE FALSE
  OBVIOUS
<1>1. PICK x \in Nat \ T : \A y \in Nat \ T : x <= y
  BY LeastNatural
<1>2. x # 0 /\ x - 1 \in Nat
  BY <1>1
<1>3. x - 1 \in T
  BY <1>1, <1>2
<1> QED
  BY <1>1, <1>2, <1>3

-----------------------------------------------------------------------------
(* Sequences. *)
LEMMA SeqIs ==
  ASSUME NEW s, IsSeq(s)
  PROVE  s \in Seq({s[k] : k \in 1 .. Len(s)}) /\ DOMAIN s = 1 .. Len(s)
<1> DEFINE n == Len(s)
           S == {s[k] : k \in 1 .. n}
<1>1. n \in Nat /\ s = [k \in 1 .. n |-> s[k]]
  BY DEF IsSeq
<1> HIDE DEF n
<1>2. [k \in 1 .. n |-> s[k]] \in [1 .. n -> S]
  OBVIOUS
<1>3. s \in [1 .. n -> S]
  BY <1>1, <1>2, Zenon
<1>4. s \in Seq(S) /\ DOMAIN s = 1 .. n
  BY <1>1, <1>3
<1> QED
  BY <1>4 DEF n

LEMMA IsSeqOf ==
  ASSUME NEW S, NEW s \in Seq(S)
  PROVE  IsSeq(s)
BY DEF IsSeq

(* An element more. *)
LEMMA AppendIs ==
  ASSUME NEW s, NEW x, IsSeq(s)
  PROVE  /\ IsSeq(Append(s, x)) /\ Len(Append(s, x)) = Len(s) + 1
         /\ \A k \in 1 .. Len(s) : Append(s, x)[k] = s[k]
         /\ Append(s, x)[Len(s) + 1] = x
<1> DEFINE S == {s[k] : k \in 1 .. Len(s)} \cup {x}
<1>0. s = [k \in 1 .. Len(s) |-> s[k]] /\ Len(s) \in Nat
  BY DEF IsSeq
<1>1. s \in Seq(S) /\ x \in S
  <2>1. [k \in 1 .. Len(s) |-> s[k]] \in [1 .. Len(s) -> S]
    OBVIOUS
  <2>2. s \in [1 .. Len(s) -> S]
    BY <1>0, <2>1, Zenon
  <2> HIDE DEF S
  <2>3. s \in Seq(S)
    BY <1>0, <2>2
  <2> QED
    BY <2>3 DEF S
<1> HIDE DEF S
<1>2. Append(s, x) \in Seq(S)
  BY <1>1
<1>3. IsSeq(Append(s, x))
  BY <1>2, IsSeqOf
<1> QED
  BY <1>1, <1>3

(* An element less. *)
LEMMA TailIs ==
  ASSUME NEW s, IsSeq(s), s # <<>>
  PROVE  /\ IsSeq(Tail(s)) /\ Len(Tail(s)) = Len(s) - 1 /\ Len(s) \in Nat \ {0}
         /\ \A k \in 1 .. Len(s) - 1 : Tail(s)[k] = s[k + 1]
         /\ Head(s) = s[1]
<1> DEFINE S == {s[k] : k \in 1 .. Len(s)}
<1>1. s \in Seq(S)
  BY SeqIs
<1> HIDE DEF S
<1>2. Tail(s) \in Seq(S)
  BY <1>1
<1>3. IsSeq(Tail(s))
  BY <1>2, IsSeqOf
<1> QED
  BY <1>1, <1>3

LEMMA EmptyIs ==
  ASSUME NEW s, IsSeq(s)
  PROVE  s = <<>> <=> Len(s) = 0
<1> DEFINE S == {s[k] : k \in 1 .. Len(s)}
<1>1. s \in Seq(S)
  BY SeqIs
<1> HIDE DEF S
<1> QED
  BY <1>1

(* Sequences with the same elements are equal. *)
LEMMA SameSeq ==
  ASSUME NEW s, NEW u, IsSeq(s), IsSeq(u), Len(s) = Len(u), \A k \in 1 .. Len(s) : s[k] = u[k]
  PROVE  s = u
<1>1. s = [k \in 1 .. Len(s) |-> s[k]] /\ u = [k \in 1 .. Len(s) |-> u[k]]
  BY DEF IsSeq
<1>2. [k \in 1 .. Len(s) |-> s[k]] = [k \in 1 .. Len(s) |-> u[k]]
  OBVIOUS
<1> QED
  BY <1>1, <1>2, Zenon

Entry(op, count, data) == [op |-> op, count |-> count, data |-> data]
(* The operations and sizes of collectives, one by one. *)
LEMMA OpsAre ==
  ASSUME NEW c, IsSeq(c)
  PROVE  /\ IsSeq(OpsOf(c)) /\ Len(OpsOf(c)) = Len(c)
         /\ \A k \in 1 .. Len(c) : OpsOf(c)[k] = <<c[k].op, c[k].count>>
<1>1. DOMAIN c = 1 .. Len(c) /\ Len(c) \in Nat
  BY SeqIs DEF IsSeq
<1>2. OpsOf(c) = [k \in 1 .. Len(c) |-> <<c[k].op, c[k].count>>]
  BY <1>1 DEF OpsOf
<1> QED
  BY <1>1, <1>2 DEF IsSeq

(* A collective more. *)
LEMMA OpsAppend ==
  ASSUME NEW c, IsSeq(c), NEW op, NEW count, NEW data
  PROVE  OpsOf(Append(c, Entry(op, count, data))) = Append(OpsOf(c), <<op, count>>)
<1> DEFINE e == Entry(op, count, data)
           d == Append(c, e)
           u == Append(OpsOf(c), <<op, count>>)
<1>1. /\ IsSeq(d) /\ Len(d) = Len(c) + 1 /\ Len(c) \in Nat
      /\ \A k \in 1 .. Len(c) : d[k] = c[k]
      /\ d[Len(c) + 1] = e
  BY AppendIs DEF IsSeq
<1>2. e.op = op /\ e.count = count
  BY DEF Entry
<1> HIDE DEF d, e
<1>3. /\ IsSeq(OpsOf(d)) /\ Len(OpsOf(d)) = Len(c) + 1
      /\ \A k \in 1 .. Len(c) + 1 : OpsOf(d)[k] = <<d[k].op, d[k].count>>
  BY <1>1, OpsAre
<1>4. /\ IsSeq(OpsOf(c)) /\ Len(OpsOf(c)) = Len(c)
      /\ \A k \in 1 .. Len(c) : OpsOf(c)[k] = <<c[k].op, c[k].count>>
  BY OpsAre
<1>5. /\ IsSeq(u) /\ Len(u) = Len(c) + 1
      /\ \A k \in 1 .. Len(c) : u[k] = OpsOf(c)[k]
      /\ u[Len(c) + 1] = <<op, count>>
  BY <1>4, AppendIs
<1> HIDE DEF u
<1>6. ASSUME NEW k \in 1 .. Len(c) + 1 PROVE OpsOf(d)[k] = u[k]
  <2>1. CASE k = Len(c) + 1
    BY <1>1, <1>2, <1>3, <1>5, <2>1
  <2>2. CASE k # Len(c) + 1
    <3>1. k \in 1 .. Len(c)
      BY <1>1, <2>2
    <3> QED
      BY <1>1, <1>3, <1>4, <1>5, <3>1
  <2> QED
    BY <2>1, <2>2
<1>7. OpsOf(d) = u
  BY <1>3, <1>5, <1>6, SameSeq
<1> QED
  BY <1>7 DEF d, e, u

-----------------------------------------------------------------------------
(* A history only goes on. *)
Placed(a) == IsSeq(a.ops) /\ a.left \in Nat
LEMMA WeightType == \A p : Weight(p) \in 0 .. 3
BY DEF Weight

(* Later is transitive between views with a place. *)
LEMMA LaterTransitive ==
  ASSUME NEW a, NEW b, NEW c, Placed(a), Placed(b), Placed(c), Later(a, b), Later(b, c)
  PROVE  Later(a, c)
<1>1. /\ Len(a.ops) \in Nat /\ Len(b.ops) \in Nat /\ Len(c.ops) \in Nat
      /\ a.left \in Nat /\ b.left \in Nat /\ c.left \in Nat
  BY DEF Placed, IsSeq
<1>2. Len(a.ops) <= Len(c.ops) /\ c.left <= a.left
  BY <1>1 DEF Later
<1>3. ASSUME NEW k \in 1 .. Len(a.ops) PROVE a.ops[k] = c.ops[k]
  <2>1. k \in 1 .. Len(b.ops)
    BY <1>1 DEF Later
  <2> QED
    BY <2>1 DEF Later
<1>4. Len(a.ops) < Len(c.ops) \/ c.left < a.left \/ Weight(a.pc) < Weight(c.pc)
  BY <1>1, WeightType DEF Later
<1>5. Weight(c.pc) = 0 \/ a.pc = "resized" => Len(a.ops) < Len(c.ops)
  BY <1>1 DEF Later
<1>6. Len(a.ops) = Len(c.ops) /\ c.pc # "resized" => c.msgr.shmSize = a.msgr.shmSize
  BY <1>1 DEF Later
<1> QED
  BY <1>2, <1>3, <1>4, <1>5, <1>6 DEF Later

-----------------------------------------------------------------------------
(* Scripts. *)
Names == {"generate", "setPrefix", "unsetPrefix", "setInput", "forward", "freeSeqs"}
(* What ScriptAssumption says of a script. *)
LEMMA ScriptIs ==
  ASSUME NEW script \in Scripts
  PROVE  /\ IsSeq(script) /\ Len(script) \in Nat /\ DOMAIN script = 1 .. Len(script)
         /\ \A i \in 1 .. Len(script) : script[i].call \in Names
<1>1. script \in Seq(ToSet(script))
  BY ScriptAssumption
<1>2. IsSeq(script)
  BY <1>1, IsSeqOf
<1>3. DOMAIN script = 1 .. Len(script) /\ Len(script) \in Nat
  BY <1>2, SeqIs DEF IsSeq
<1> QED
  BY <1>2, <1>3, ScriptAssumption DEF Names

(* The call that the other ranks make once more, and where it waits. *)
LEMMA AgainIs ==
  ASSUME NEW script \in Scripts
  PROVE  /\ Again(script).call = IF Generates(script) THEN "generate" ELSE "setInput"
         /\ LoopLabel(script) = IF Generates(script) THEN "configured" ELSE "dim"
<1>1. (\E i \in DOMAIN script : script[i].call = "generate") # (\E i \in DOMAIN script : script[i].call = "setInput")
  BY ScriptAssumption
<1>2. Again(script).call = IF \E i \in DOMAIN script : script[i].call = "setInput" THEN "setInput" ELSE "generate"
  BY DEF Again
<1>3. Again(script).call = IF Generates(script) THEN "generate" ELSE "setInput"
  BY <1>1, <1>2 DEF Generates
<1> QED
  BY <1>3 DEF LoopLabel

(* The name of a call, of the script or of the one more. *)
LEMMA NameIs ==
  ASSUME NEW script \in Scripts, NEW l \in 0 .. Len(script)
  PROVE  /\ Name(script, l) \in Names
         /\ l = 0 => Name(script, l) = Again(script).call
         /\ l > 0 => Len(script) - l + 1 \in 1 .. Len(script) /\ Name(script, l) = script[Len(script) - l + 1].call
<1>1. Len(script) \in Nat /\ \A i \in 1 .. Len(script) : script[i].call \in Names
  BY ScriptIs
<1>2. CASE l = 0
  BY <1>2, AgainIs DEF Name, Names
<1>3. CASE l > 0
  <2>1. Len(script) - l + 1 \in 1 .. Len(script)
    BY <1>1, <1>3
  <2> QED
    BY <1>1, <1>3, <2>1 DEF Name
<1> QED
  BY <1>2, <1>3

-----------------------------------------------------------------------------
(* The step of a sound view: to a sound view, that is later. *)
LEMMA PlaceCalls ==
  ASSUME NEW script, NEW a, NEW p, NEW x, NEW g, NEW m, SoundPlace(script, a),
         p \in Pcs \ {"exited"},
         a.left = 0 => p \in {"configured", "dim"},
         p \in ConfigPcs => Name(script, a.left) = "generate",
         p = "prefixLen" => Name(script, a.left) = "setPrefix",
         p = "dim" => Name(script, a.left) = "setInput",
         NEW b, b = V(p, Append(a.ops, x), a.left, g, m)
  PROVE  SoundPlace(script, b) /\ Later(a, b)
<1>1. b.pc = p /\ b.ops = Append(a.ops, x) /\ b.left = a.left
  BY DEF V
<1>2. IsSeq(a.ops) /\ Len(a.ops) \in Nat
  BY DEF SoundPlace, SoundPlaceOf, IsSeq
<1>3. /\ IsSeq(b.ops) /\ Len(b.ops) = Len(a.ops) + 1
      /\ \A k \in 1 .. Len(a.ops) : b.ops[k] = a.ops[k]
  BY <1>1, <1>2, AppendIs
<1>4. a.left \in 0 .. Len(script)
  BY DEF SoundPlace, SoundPlaceOf
<1>5. Later(a, b)
  BY <1>1, <1>2, <1>3, <1>4 DEF Later
<1>6. SoundPlaceOf(script, p, b.ops, a.left)
  BY <1>2, <1>3, <1>4 DEF SoundPlaceOf
<1> QED
  BY <1>1, <1>5, <1>6 DEF SoundPlace

(* so has one that only goes on, *)
LEMMA PlaceThen ==
  ASSUME NEW script, NEW a, NEW p, NEW g, NEW m, SoundPlace(script, a),
         p \in Pcs, Weight(a.pc) < Weight(p),
         (p = "exited") <=> (a.left = 0),
         p \in ConfigPcs => Name(script, a.left) = "generate",
         p # "resized" => g.shmSize = a.msgr.shmSize,
         NEW b, b = V(p, a.ops, a.left, g, m)
  PROVE  SoundPlace(script, b) /\ Later(a, b)
<1>1. b.pc = p /\ b.ops = a.ops /\ b.left = a.left /\ b.msgr = g
  BY DEF V
<1>2. IsSeq(a.ops) /\ Len(a.ops) \in Nat
  BY DEF SoundPlace, SoundPlaceOf, IsSeq
<1>3. a.left \in 0 .. Len(script) /\ Weight(a.pc) \in 0 .. 3 /\ Weight(p) \in 0 .. 3 /\ Weight(p) > 0
  BY WeightType DEF SoundPlace, SoundPlaceOf
<1>7. a.pc # "resized"
  <2>1. Weight("resized") = 3
    BY DEF Weight
  <2> QED
    BY <1>3, <2>1
<1>4. Later(a, b)
  BY <1>1, <1>2, <1>3, <1>7 DEF Later
<1>5. p # "prefixLen" /\ p # "dim"
  BY <1>3 DEF Weight
<1>6. SoundPlaceOf(script, p, a.ops, a.left)
  BY <1>2, <1>3, <1>5 DEF SoundPlaceOf
<1> QED
  BY <1>1, <1>4, <1>6 DEF SoundPlace

(* and one that ends a call. *)
LEMMA PlaceReturns ==
  ASSUME NEW script, NEW a, NEW g, NEW m, SoundPlace(script, a), a.left > 0,
         a.pc # "resized", g.shmSize = a.msgr.shmSize,
         NEW b, b = V("next", a.ops, a.left - 1, g, m)
  PROVE  SoundPlace(script, b) /\ Later(a, b)
<1>1. b.pc = "next" /\ b.ops = a.ops /\ b.left = a.left - 1 /\ b.msgr = g
  BY DEF V
<1>2. IsSeq(a.ops) /\ Len(a.ops) \in Nat
  BY DEF SoundPlace, SoundPlaceOf, IsSeq
<1>3. a.left \in 0 .. Len(script) /\ Weight("next") = 1
  BY DEF SoundPlace, SoundPlaceOf, Weight
<1>4. Later(a, b)
  BY <1>1, <1>2, <1>3 DEF Later
<1>5. SoundPlaceOf(script, "next", a.ops, a.left - 1)
  BY <1>2, <1>3 DEF SoundPlaceOf, Pcs, ConfigPcs
<1> QED
  BY <1>1, <1>4, <1>5 DEF SoundPlace

LEMMA ModelKeeps ==
  ASSUME NEW script, NEW p, NEW l \in Nat, NEW m, SoundModelOf(script, p, l, m),
         p # "configured", NEW q, NEW n, l > 0, p = "next" => Name(script, l) # "generate", q # "next",
         DOMAIN n = DOMAIN NewModel, n.inputIds \in Seq(Int), n.prefix \in Seq(Int),
         n.configuration = m.configuration, n.searcher = m.searcher
  PROVE  SoundModelOf(script, q, l, n)
BY DEF SoundModelOf

(* The calls before the one that ends. *)
LEMMA BelowLast ==
  ASSUME NEW i \in Int, NEW n \in Int, NEW l \in Int, i <= n - (l - 1), i # n - l + 1
  PROVE  i <= n - l
OBVIOUS

(* A call that ends: what it set stays set. *)
LEMMA ModelReturns ==
  ASSUME NEW script \in Scripts, NEW p, NEW l \in 1 .. Len(script), NEW m, SoundModelOf(script, p, l, m),
         p # "configured", NEW n, p = "next" => Name(script, l) # "generate",
         DOMAIN n = DOMAIN NewModel, n.inputIds \in Seq(Int), n.prefix \in Seq(Int),
         n.configuration = m.configuration, n.searcher = m.searcher
  PROVE  SoundModelOf(script, "next", l - 1, n)
<1>1. Len(script) \in Nat
  BY ScriptIs
<1>2. Name(script, l) = script[Len(script) - l + 1].call
  BY <1>1, NameIs
<1>3. ASSUME NEW i \in 1 .. Len(script) - (l - 1), script[i].call = "generate" PROVE n.searcher
  <2>1. CASE i = Len(script) - l + 1
    BY <1>1, <1>2, <1>3, <2>1 DEF SoundModelOf
  <2>2. CASE i # Len(script) - l + 1
    <3>1. i \in Int /\ i >= 1 /\ i <= Len(script) - (l - 1) /\ l \in Int
      BY <1>1
    <3>2. i <= Len(script) - l
      <4> DEFINE N == Len(script)
      <4>1. N \in Int /\ i \in Int /\ l \in Int /\ i <= N - (l - 1) /\ i # N - l + 1
        BY <1>1, <2>2, <3>1
      <4> HIDE DEF N
      <4>2. i <= N - l
        BY <4>1, BelowLast
      <4> QED
        BY <4>2 DEF N
    <3>3. i \in 1 .. Len(script) - l
      BY <1>1, <3>1, <3>2
    <3> QED
      BY <1>3, <3>3 DEF SoundModelOf
  <2> QED
    BY <2>1, <2>2
<1> QED
  BY <1>3 DEF SoundModelOf

(* The Messenger stays sound with a collective that is no sum in memory, *)
LEMMA MessengerCalls ==
  ASSUME NEW p, NEW o, NEW g, SoundMessengerOf(p, o, g), IsSeq(o),
         NEW op, op # "shm", NEW count, NEW q, q \notin ReducePcs
  PROVE  SoundMessengerOf(q, Append(o, <<op, count>>), g)
<1> DEFINE x == <<op, count>>
           u == Append(o, x)
<1>1. Len(u) = Len(o) + 1 /\ u[Len(o) + 1] = x
  BY AppendIs
<1>2. x[1] # "shm"
  OBVIOUS
<1> HIDE DEF u, x
<1>3. SoundMessengerOf(q, u, g)
  BY <1>1, <1>2 DEF SoundMessengerOf, ReducePcs
<1> QED
  BY <1>3 DEF u, x

(* without one, *)
LEMMA MessengerKeeps ==
  ASSUME NEW p, NEW o, NEW g, SoundMessengerOf(p, o, g), NEW q, q \notin ReducePcs
  PROVE  SoundMessengerOf(q, o, g)
BY DEF SoundMessengerOf, ReducePcs

LEMMA MessengerFields ==
  /\ {"shmSize", "tuned", "count", "run", "left", "ret"} = DOMAIN NewMessenger
  /\ NewMessenger.shmSize = ShmSize /\ NewMessenger.count = 0
BY DEF NewMessenger

(* and when reduceAdd begins. *)
LEMMA MessengerBegins ==
  ASSUME NEW p, NEW o, NEW g, SoundMessengerOf(p, o, g), NEW n, NEW count \in Int,
         NEW ret \in {"search", "return", "gather"}
  PROVE  SoundMessengerOf("reduceAdd", o, Begun(g, n, count, ret))
<1>1. DOMAIN g = {"shmSize", "tuned", "count", "run", "left", "ret"}
  BY MessengerFields DEF SoundMessengerOf
<1> DEFINE h == Begun(g, n, count, ret)
<1>2. /\ DOMAIN h = DOMAIN g /\ h.shmSize = g.shmSize /\ h.count = count /\ h.ret = ret
  BY <1>1 DEF Begun
<1> HIDE DEF h
<1>3. SoundMessengerOf("reduceAdd", o, h)
  BY <1>1, <1>2 DEF SoundMessengerOf
<1> QED
  BY <1>3 DEF h

LEMMA ModelFields ==
  /\ DOMAIN NewModel = {"searcher", "isNewInput", "configuration", "wordsSize", "stopWordsList",
                        "dims", "inputIds", "output", "doneBatch", "gathers", "prefix",
                        "seqLens", "seqIDs", "maxLen", "nextID", "pool", "workingGroup"}
  /\ NewModel.inputIds = <<>> /\ NewModel.prefix = <<>> /\ NewModel.searcher = FALSE
  /\ NewModel.configuration = [maxLen |-> 0, numBeams |-> 0, doSample |-> FALSE]
BY DEF NewModel

LEMMA NewModelParts ==
  NewModel.inputIds \in Seq(Int) /\ NewModel.prefix \in Seq(Int) /\ NewModel.configuration \in Configuration
<1>1. <<>> \in Seq(Int)
  OBVIOUS
<1>2. [maxLen |-> 0, numBeams |-> 0, doSample |-> FALSE] \in Configuration
  BY DEF Configuration
<1> HIDE DEF NewModel
<1> QED
  BY <1>1, <1>2, ModelFields

(* A new Model is sound: it stands for that of a rank that exits, *)
LEMMA NewModelIs ==
  ASSUME NEW script, NEW p, NEW l, l = 0, p # "next"
  PROVE  SoundModelOf(script, p, l, NewModel)
<1>1. NewModel.inputIds \in Seq(Int) /\ NewModel.prefix \in Seq(Int) /\ NewModel.configuration \in Configuration
  BY NewModelParts
<1>2. NewModel.searcher = FALSE
  BY ModelFields
<1> HIDE DEF NewModel
<1>3. NewModel.searcher \in BOOLEAN /\ ~NewModel.searcher
  BY <1>2, Zenon
<1>4. ~(l > 0)
  OBVIOUS
<1> QED
  BY <1>1, <1>3, <1>4, Zenon DEF SoundModelOf

(* and is what the history begins with. *)
LEMMA FirstModelIs ==
  ASSUME NEW script \in Scripts
  PROVE  SoundModelOf(script, "next", Len(script), NewModel)
<1>1. NewModel.inputIds \in Seq(Int) /\ NewModel.prefix \in Seq(Int) /\ NewModel.configuration \in Configuration
  BY NewModelParts
<1>2. NewModel.searcher = FALSE
  BY ModelFields
<1> HIDE DEF NewModel
<1>3. NewModel.searcher \in BOOLEAN /\ ~NewModel.searcher
  BY <1>2, Zenon
<1>4. \A i \in 1 .. Len(script) - Len(script) : FALSE
  <2> DEFINE N == Len(script)
  <2>1. N \in Nat
    BY ScriptIs
  <2> HIDE DEF N
  <2>2. \A i \in 1 .. N - N : FALSE
    BY <2>1
  <2> QED
    BY <2>2 DEF N
<1> QED
  BY <1>1, <1>3, <1>4, Zenon DEF SoundModelOf

(* What a Model keeps: the parts that soundness is about. *)
Kept(m, n) ==
  /\ DOMAIN n = DOMAIN NewModel
  /\ n.inputIds = m.inputIds /\ n.prefix = m.prefix
  /\ n.configuration = m.configuration /\ n.searcher = m.searcher
SoundStep(script, a, b) == Sound(script, b) /\ Later(a, b)

(* The kinds of step: a collective, on, the end of a call, reduceAdd. *)
LEMMA StepCalls ==
  ASSUME NEW script, NEW a, Sound(script, a), NEW op, op # "shm", NEW count, NEW m,
         NEW p \in Pcs \ ({"exited"} \cup ReducePcs),
         a.left = 0 => p \in {"configured", "dim"},
         p \in ConfigPcs => Name(script, a.left) = "generate",
         p = "prefixLen" => Name(script, a.left) = "setPrefix",
         p = "dim" => Name(script, a.left) = "setInput",
         SoundModelOf(script, p, a.left, m)
  PROVE  SoundStep(script, a, Calls(a, op, count, p, m))
<1> DEFINE x == <<op, count>>
           b == V(p, Append(a.ops, x), a.left, a.msgr, m)
<1>1. SoundPlace(script, a) /\ SoundMessengerOf(a.pc, a.ops, a.msgr) /\ IsSeq(a.ops)
  BY DEF Sound, SoundMessenger, SoundPlace, SoundPlaceOf
<1>2. b.pc = p /\ b.ops = Append(a.ops, x) /\ b.left = a.left /\ b.msgr = a.msgr /\ b.model = m
  BY DEF V
<1>3. SoundMessengerOf(p, Append(a.ops, x), a.msgr)
  BY <1>1, MessengerCalls
<1>4. SoundPlace(script, b) /\ Later(a, b)
  BY <1>1, PlaceCalls
<1> HIDE DEF b, x
<1>5. SoundMessenger(b) /\ SoundModel(script, b)
  BY <1>2, <1>3 DEF SoundMessenger, SoundModel
<1>6. SoundStep(script, a, b)
  BY <1>4, <1>5 DEF SoundStep, Sound
<1>7. b = Calls(a, op, count, p, m)
  BY DEF b, x, Calls
<1> QED
  BY <1>6, <1>7

LEMMA StepThen ==
  ASSUME NEW script, NEW a, Sound(script, a), NEW m,
         NEW p \in Pcs \ ReducePcs, Weight(a.pc) < Weight(p),
         (p = "exited") <=> (a.left = 0),
         p \in ConfigPcs => Name(script, a.left) = "generate",
         SoundModelOf(script, p, a.left, m)
  PROVE  SoundStep(script, a, ThenWith(a, p, m))
<1> DEFINE b == V(p, a.ops, a.left, a.msgr, m)
<1>1. SoundPlace(script, a) /\ SoundMessengerOf(a.pc, a.ops, a.msgr)
  BY DEF Sound, SoundMessenger
<1>2. b.pc = p /\ b.ops = a.ops /\ b.left = a.left /\ b.msgr = a.msgr /\ b.model = m
  BY DEF V
<1>3. SoundMessengerOf(p, a.ops, a.msgr)
  BY <1>1, MessengerKeeps
<1>4. SoundPlace(script, b) /\ Later(a, b)
  BY <1>1, PlaceThen DEF ReducePcs
<1>7. b = ThenWith(a, p, m)
  BY DEF ThenWith
<1> HIDE DEF b
<1>5. SoundMessenger(b) /\ SoundModel(script, b)
  BY <1>2, <1>3 DEF SoundMessenger, SoundModel
<1>6. SoundStep(script, a, b)
  BY <1>4, <1>5 DEF SoundStep, Sound
<1> QED
  BY <1>6, <1>7

LEMMA StepReturns ==
  ASSUME NEW script, NEW a, Sound(script, a), NEW m, a.left > 0, a.pc # "resized",
         SoundModelOf(script, "next", a.left - 1, m)
  PROVE  SoundStep(script, a, Returns(a, m))
<1> DEFINE b == V("next", a.ops, a.left - 1, a.msgr, m)
<1>1. SoundPlace(script, a) /\ SoundMessengerOf(a.pc, a.ops, a.msgr)
  BY DEF Sound, SoundMessenger
<1>2. b.pc = "next" /\ b.ops = a.ops /\ b.left = a.left - 1 /\ b.msgr = a.msgr /\ b.model = m
  BY DEF V
<1>3. SoundMessengerOf("next", a.ops, a.msgr)
  BY <1>1, MessengerKeeps DEF ReducePcs
<1>4. SoundPlace(script, b) /\ Later(a, b)
  BY <1>1, PlaceReturns
<1>7. b = Returns(a, m)
  BY DEF Returns
<1> HIDE DEF b
<1>5. SoundMessenger(b) /\ SoundModel(script, b)
  BY <1>2, <1>3 DEF SoundMessenger, SoundModel
<1>6. SoundStep(script, a, b)
  BY <1>4, <1>5 DEF SoundStep, Sound
<1> QED
  BY <1>6, <1>7

LEMMA StepReduces ==
  ASSUME NEW script, NEW a, Sound(script, a), NEW m, a.left > 0, Weight(a.pc) < 2,
         NEW count \in Int, NEW ret \in {"search", "return", "gather"},
         SoundModelOf(script, "reduceAdd", a.left, m)
  PROVE  SoundStep(script, a, Reduces(a, count, ret, m))
<1> DEFINE g == Begun(a.msgr, 2 * Layers, count, ret)
           b == V("reduceAdd", a.ops, a.left, g, m)
<1>1. SoundPlace(script, a) /\ SoundMessengerOf(a.pc, a.ops, a.msgr) /\ a.left \in Nat
  BY DEF Sound, SoundMessenger, SoundPlace, SoundPlaceOf
<1>2. b.pc = "reduceAdd" /\ b.ops = a.ops /\ b.left = a.left /\ b.msgr = g /\ b.model = m
  BY DEF V
<1>3. SoundMessengerOf("reduceAdd", a.ops, g)
  BY <1>1, MessengerBegins
<1>8. g.shmSize = a.msgr.shmSize
  BY <1>1, MessengerFields DEF Begun, SoundMessengerOf
<1>4. SoundPlace(script, b) /\ Later(a, b)
  <2>1. Weight("reduceAdd") = 2 /\ "reduceAdd" \in Pcs /\ "reduceAdd" \notin ConfigPcs
    BY DEF Weight, Pcs, ReducePcs, ConfigPcs
  <2>2. a.left # 0
    BY <1>1
  <2> HIDE DEF g
  <2> QED
    BY <1>1, <1>8, <2>1, <2>2, PlaceThen
<1>7. b = Reduces(a, count, ret, m)
  BY DEF Reduces
<1> HIDE DEF b, g
<1>5. SoundMessenger(b) /\ SoundModel(script, b)
  BY <1>2, <1>3 DEF SoundMessenger, SoundModel
<1>6. SoundStep(script, a, b)
  BY <1>4, <1>5 DEF SoundStep, Sound
<1> QED
  BY <1>6, <1>7

(* A Model that keeps the parts that matter stays sound. *)
LEMMA ModelKept ==
  ASSUME NEW script \in Scripts, NEW a, Sound(script, a), a.left > 0, a.pc # "configured",
         a.pc = "next" => Name(script, a.left) # "generate", NEW n, Kept(a.model, n)
  PROVE  /\ \A q : q # "next" => SoundModelOf(script, q, a.left, n)
         /\ SoundModelOf(script, "next", a.left - 1, n)
<1>1. SoundModelOf(script, a.pc, a.left, a.model) /\ a.left \in 1 .. Len(script) /\ a.left \in Nat
  BY ScriptIs DEF Sound, SoundModel, SoundPlace, SoundPlaceOf
<1>2. a.model.inputIds \in Seq(Int) /\ a.model.prefix \in Seq(Int)
  BY <1>1 DEF SoundModelOf
<1>3. /\ DOMAIN n = DOMAIN NewModel /\ n.inputIds \in Seq(Int) /\ n.prefix \in Seq(Int)
      /\ n.configuration = a.model.configuration /\ n.searcher = a.model.searcher
  BY <1>2, Zenon DEF Kept
<1>4. ASSUME NEW q, q # "next" PROVE SoundModelOf(script, q, a.left, n)
  BY <1>1, <1>3, <1>4, ModelKeeps
<1>5. SoundModelOf(script, "next", a.left - 1, n)
  BY <1>1, <1>3, ModelReturns
<1> QED
  BY <1>4, <1>5

LEMMA ModelSame ==
  ASSUME NEW script, NEW a, Sound(script, a)
  PROVE  Kept(a.model, a.model) /\ DOMAIN a.model = DOMAIN NewModel
<1> HIDE DEF NewModel
<1> QED
  BY Zenon DEF Kept, Sound, SoundModel, SoundModelOf

(* What a sound view says of its place. *)
LEMMA PlaceIs ==
  ASSUME NEW script \in Scripts, NEW a, Sound(script, a)
  PROVE  /\ a.left \in 0 .. Len(script) /\ a.left \in Nat /\ a.pc \in Pcs
         /\ a.left = 0 => a.pc \in {"next", "configured", "dim", "exited"}
         /\ a.pc \in ConfigPcs => Name(script, a.left) = "generate"
         /\ a.pc = "dim" => Name(script, a.left) = "setInput"
         /\ a.pc = "prefixLen" => Name(script, a.left) = "setPrefix"
         /\ IsSeq(a.ops)
BY ScriptIs DEF Sound, SoundPlace, SoundPlaceOf

(* A call begins. *)
LEMMA FromNextSound ==
  ASSUME NEW script \in Scripts, NEW a, Sound(script, a), a.pc = "next"
  PROVE  SoundStep(script, a, FromNext(script, a))
<1> DEFINE name == Name(script, a.left)
<1> USE DEF Pcs, ReducePcs, ConfigPcs, BatchPcs
<1>1. a.left \in 0 .. Len(script) /\ a.left \in Nat
  BY PlaceIs
<1>2. name \in Names /\ (a.left = 0 => name \in {"generate", "setInput"})
  BY <1>1, NameIs, AgainIs
<1>3. Kept(a.model, a.model) /\ DOMAIN a.model = DOMAIN NewModel /\ SoundModelOf(script, "next", a.left, a.model)
  BY ModelSame DEF Sound, SoundModel
<1> HIDE DEF name, NewModel
<1>4. CASE name = "generate"
  <2> DEFINE n == [a.model EXCEPT !.isNewInput = TRUE, !.configuration = None]
             m == IF a.left = 0 THEN NewModel ELSE n
  <2>1. /\ DOMAIN n = DOMAIN NewModel /\ n.searcher = a.model.searcher
        /\ n.inputIds = a.model.inputIds /\ n.prefix = a.model.prefix
    BY <1>3, ModelFields
  <2> HIDE DEF n
  <2>2. a.left # 0 => SoundModelOf(script, "configured", a.left, n)
    BY <1>3, <2>1 DEF SoundModelOf
  <2>3. SoundModelOf(script, "configured", a.left, m)
    BY <1>1, <2>2, NewModelIs
  <2>4. FromNext(script, a) = Calls(a, "broadcast", ConfigInts, "configured", m)
    BY <1>4 DEF FromNext, name, m, n
  <2> HIDE DEF m
  <2> QED
    BY <1>4, <2>3, <2>4, StepCalls DEF name
<1>5. CASE name = "setInput"
  <2> DEFINE m == IF a.left = 0 THEN NewModel ELSE a.model
  <2>1. SoundModelOf(script, "dim", a.left, m)
    <3>1. CASE a.left = 0
      BY <3>1, NewModelIs
    <3>2. CASE a.left > 0
      <4>1. name # "generate"
        BY <1>5
      <4>2. SoundModelOf(script, "dim", a.left, a.model)
        BY <1>1, <1>3, <3>2, <4>1, ModelKept DEF name
      <4>3. m = a.model
        BY <3>2
      <4> HIDE DEF m
      <4> QED
        BY <4>2, <4>3
    <3> QED
      BY <1>1, <3>1, <3>2
  <2>2. FromNext(script, a) = Calls(a, "broadcast", 4, "dim", m)
    BY <1>5 DEF FromNext, name
  <2> HIDE DEF m
  <2> QED
    BY <1>5, <2>1, <2>2, StepCalls DEF name
<1>6. CASE name \notin {"generate", "setInput"}
  <2>1. a.left > 0 /\ a.left # 0 /\ name # "generate"
    BY <1>1, <1>2, <1>6
  <2>2. \A q : q # "next" => SoundModelOf(script, q, a.left, a.model)
    BY <1>3, <2>1, ModelKept DEF name
  <2>3. CASE name = "setPrefix"
    <3>1. FromNext(script, a) = Calls(a, "broadcast", 1, "prefixLen", a.model)
      BY <2>3 DEF FromNext, name, Casts
    <3> QED
      BY <2>1, <2>2, <2>3, <3>1, StepCalls DEF name
  <2>4. CASE name = "freeSeqs"
    <3>1. FromNext(script, a) = Calls(a, "broadcast", 1, "freeSize", a.model)
      BY <2>4 DEF FromNext, name, Casts
    <3> QED
      BY <2>1, <2>2, <3>1, StepCalls
  <2>5. CASE name = "unsetPrefix"
    <3> DEFINE m == [a.model EXCEPT !.prefix = <<>>]
    <3>1. /\ DOMAIN m = DOMAIN NewModel /\ m.searcher = a.model.searcher
          /\ m.inputIds = a.model.inputIds /\ m.prefix = <<>> /\ m.configuration = a.model.configuration
      BY <1>3, ModelFields
    <3>2. FromNext(script, a) = Returns(a, m)
      BY <2>5 DEF FromNext, name
    <3> HIDE DEF m
    <3>3. m.inputIds \in Seq(Int) /\ m.prefix \in Seq(Int)
      BY <1>3, <3>1 DEF SoundModelOf
    <3>4. SoundModelOf(script, "next", a.left - 1, m)
      <4>1. a.left \in 1 .. Len(script)
        BY <1>1, <2>1
      <4>2. Name(script, a.left) # "generate"
        BY <2>1 DEF name
      <4>3. "next" # "configured"
        OBVIOUS
      <4> QED
        BY <1>3, <3>1, <3>3, <4>1, <4>2, <4>3, ModelReturns, Zenon
    <3> QED
      BY <2>1, <3>2, <3>4, StepReturns
  <2>6. CASE name = "forward"
    <3>1. FromNext(script, a) = Reduces(a, Len(a.model.inputIds), "gather", a.model)
      BY <2>6 DEF FromNext, name
    <3>2. Len(a.model.inputIds) \in Int
      BY <1>3 DEF SoundModelOf
    <3>3. Weight(a.pc) < 2
      BY DEF Weight
    <3> QED
      BY <2>1, <2>2, <3>1, <3>2, <3>3, StepReduces
  <2> QED
    BY <1>2, <1>6, <2>3, <2>4, <2>5, <2>6 DEF Names
<1> QED
  BY <1>4, <1>5, <1>6

(* Model::config, setStopWords and Model::input. *)
LEMMA FromConfigSound ==
  ASSUME NEW script \in Scripts, NEW a, Sound(script, a), NEW v, Sent(a, v), a.pc \in ConfigPcs
  PROVE  SoundStep(script, a, FromConfig(a, v))
<1> USE DEF Pcs, ReducePcs, ConfigPcs, LoopPcs
<1>1. a.left \in Nat /\ Name(script, a.left) = "generate" /\ (a.pc # "configured" => a.left > 0 /\ a.left # 0)
  BY PlaceIs
<1>2. Kept(a.model, a.model) /\ DOMAIN a.model = DOMAIN NewModel /\ SoundModelOf(script, a.pc, a.left, a.model)
  BY ModelSame DEF Sound, SoundModel
<1> HIDE DEF NewModel
<1>3. CASE a.pc = "configured"
  <2>1. CASE a.left = 0
    <3>1. FromConfig(a, v) = ThenWith(a, "exited", a.model)
      BY <1>3, <2>1 DEF FromConfig, FromConfigured, Then, ThenWith
    <3>0. a.model = NewModel
      BY <1>2, <1>3, <2>1 DEF SoundModelOf
    <3>2. SoundModelOf(script, "exited", a.left, a.model)
      BY <2>1, <3>0, NewModelIs
    <3>3. Weight(a.pc) < Weight("exited")
      BY <1>3 DEF Weight
    <3> QED
      BY <2>1, <3>1, <3>2, <3>3, StepThen
  <2>2. CASE a.left > 0
    <3> DEFINE m == [a.model EXCEPT !.configuration = v, !.searcher = TRUE, !.stopWordsList = <<>>]
    <3>1. FromConfig(a, v) = Calls(a, "broadcast", 1, "listSize", m)
      BY <1>1, <1>3, <2>2 DEF FromConfig, FromConfigured
    <3>2. /\ DOMAIN m = DOMAIN NewModel /\ m.searcher = TRUE /\ m.configuration = v
          /\ m.inputIds = a.model.inputIds /\ m.prefix = a.model.prefix
      BY <1>2, ModelFields
    <3>3. v \in Configuration
      BY <1>1, <1>3, <2>2 DEF Sent, SentAt
    <3>4. Generates(script)
      <4>1. a.left \in 1 .. Len(script) /\ a.left \in 0 .. Len(script)
        BY <1>1, <2>2, PlaceIs
      <4>2. \E i \in DOMAIN script : script[i].call = "generate"
        BY <1>1, <2>2, <4>1, NameIs, ScriptIs
      <4> QED
        BY <4>2 DEF Generates
    <3> HIDE DEF m
    <3>5. SoundModelOf(script, "listSize", a.left, m)
      <4>1. m.searcher /\ m.searcher \in BOOLEAN
        BY <3>2, Zenon
      <4>2. m.inputIds \in Seq(Int) /\ m.prefix \in Seq(Int)
        BY <1>2, <3>2 DEF SoundModelOf
      <4>3. a.left # 0
        BY <2>2
      <4> QED
        BY <1>1, <2>2, <3>2, <3>3, <3>4, <4>1, <4>2, <4>3, Zenon DEF SoundModelOf
    <3> QED
      BY <1>1, <2>2, <3>1, <3>5, StepCalls
  <2> QED
    BY <1>1, <2>1, <2>2
<1>4. CASE a.pc # "configured"
  <2>0. a.left > 0 /\ a.left # 0 /\ a.pc # "next"
    BY <1>1, <1>4
  <2>1. \A n, q : Kept(a.model, n) /\ q # "next" => SoundModelOf(script, q, a.left, n)
    BY <1>4, <2>0, ModelKept
  <2>2. CASE a.pc = "listSize" /\ v = 0
    <3>1. FromConfig(a, v) = ThenWith(a, "input", a.model)
      BY <2>2 DEF FromConfig, Then, ThenWith
    <3>2. Weight(a.pc) < Weight("input")
      BY <2>2 DEF Weight
    <3> QED
      BY <1>1, <1>2, <2>0, <2>1, <3>1, <3>2, StepThen
  <2>3. CASE a.pc = "listSize" /\ v # 0
    <3>1. FromConfig(a, v) = Calls(a, "broadcast", v, "wordsSize", a.model)
      BY <2>3 DEF FromConfig, Casts
    <3> QED
      BY <1>1, <1>2, <2>0, <2>1, <3>1, StepCalls
  <2>4. CASE a.pc = "wordsSize"
    <3> DEFINE m == [a.model EXCEPT !.wordsSize = v]
    <3>1. FromConfig(a, v) = Calls(a, "broadcast", SumTo(v, Len(v)), "wordsData", m)
      BY <2>4 DEF FromConfig
    <3>2. Kept(a.model, m)
      BY <1>2, ModelFields DEF Kept
    <3> HIDE DEF m
    <3> QED
      BY <1>1, <2>0, <2>1, <3>1, <3>2, StepCalls
  <2>5. CASE a.pc = "wordsData"
    <3> DEFINE w == NotEos(Restore(a.model.wordsSize, v))
               m == [a.model EXCEPT !.stopWordsList = w]
    <3>1. FromConfig(a, v) = ThenWith(a, "input", m)
      BY <2>5 DEF FromConfig
    <3> HIDE DEF w
    <3>2. Kept(a.model, m)
      BY <1>2, ModelFields DEF Kept
    <3>3. Weight(a.pc) < Weight("input")
      BY <2>5 DEF Weight
    <3> HIDE DEF m
    <3> QED
      BY <1>1, <2>0, <2>1, <3>1, <3>2, <3>3, StepThen
  <2>6. CASE a.pc = "input"
    <3> DEFINE m == [a.model EXCEPT !.isNewInput = TRUE]
    <3>1. FromConfig(a, v) = Calls(a, "broadcast", 2, "dims", m)
      BY <2>6 DEF FromConfig
    <3>2. Kept(a.model, m)
      BY <1>2, ModelFields DEF Kept
    <3> HIDE DEF m
    <3> QED
      BY <1>1, <2>0, <2>1, <3>1, <3>2, StepCalls
  <2>7. CASE a.pc = "dims"
    <3>1. FromConfig(a, v) = Calls(a, "broadcast", v[2], "ids", a.model)
      BY <2>7 DEF FromConfig, Casts
    <3> QED
      BY <1>1, <1>2, <2>0, <2>1, <3>1, StepCalls
  <2>8. CASE a.pc = "ids"
    <3> DEFINE m == [a.model EXCEPT !.inputIds = v]
    <3>1. FromConfig(a, v) = ThenWith(a, "loop", m)
      BY <2>8 DEF FromConfig
    <3>2. v \in Seq(Int)
      BY <2>8 DEF Sent, SentAt
    <3>3. /\ DOMAIN m = DOMAIN NewModel /\ m.inputIds = v /\ m.prefix = a.model.prefix
          /\ m.configuration = a.model.configuration /\ m.searcher = a.model.searcher
      BY <1>2, ModelFields
    <3>4. Weight(a.pc) < Weight("loop")
      BY <2>8 DEF Weight
    <3> HIDE DEF m
    <3>5. m.prefix \in Seq(Int)
      BY <1>2, <3>3 DEF SoundModelOf
    <3>6. SoundModelOf(script, "loop", a.left, m)
      BY <1>1, <1>2, <1>4, <2>0, <3>2, <3>3, <3>5, ModelKeeps
    <3> QED
      BY <1>1, <2>0, <3>1, <3>4, <3>6, StepThen
  <2> QED
    BY <1>4, <2>2, <2>3, <2>4, <2>5, <2>6, <2>7, <2>8
<1> QED
  BY <1>3, <1>4

(* Model::generate. *)
LEMMA FromLoopSound ==
  ASSUME NEW script \in Scripts, NEW a, Sound(script, a), NEW v, a.pc \in LoopPcs
  PROVE  SoundStep(script, a, FromLoop(a, v))
<1> USE DEF Pcs, ReducePcs, ConfigPcs, LoopPcs
<1>1. a.left \in Nat /\ a.left > 0 /\ a.left # 0 /\ a.pc \notin {"next", "configured", "resized"}
  BY PlaceIs
<1>2. Kept(a.model, a.model) /\ DOMAIN a.model = DOMAIN NewModel /\ SoundModelOf(script, a.pc, a.left, a.model)
  BY ModelSame DEF Sound, SoundModel
<1>3. \A n : Kept(a.model, n) => /\ \A q : q # "next" => SoundModelOf(script, q, a.left, n)
                                /\ SoundModelOf(script, "next", a.left - 1, n)
  BY <1>1, ModelKept
<1> HIDE DEF NewModel
<1>4. CASE a.pc = "loop" /\ IsDone(a.model)
  <2>1. FromLoop(a, v) = Returns(a, a.model)
    BY <1>4 DEF FromLoop
  <2> QED
    BY <1>1, <1>2, <1>3, <2>1, StepReturns
<1>5. CASE a.pc = "loop" /\ ~IsDone(a.model)
  <2> DEFINE m == Fed(a.model)
  <2>1. FromLoop(a, v) = Reduces(a, Rows(a.model), "search", m)
    BY <1>5 DEF FromLoop
  <2>2. Kept(a.model, m)
    BY <1>2, ModelFields DEF Kept, Fed
  <2>3. Rows(a.model) \in Int
    <3>1. a.model.inputIds \in Seq(Int) /\ a.model.prefix \in Seq(Int) /\ a.model.configuration \in Configuration
      BY <1>1, <1>2 DEF SoundModelOf
    <3>2. a.model.configuration.numBeams \in Int
      BY <3>1 DEF Configuration
    <3>3. Len(a.model.inputIds) - Len(a.model.prefix) \in Int
      BY <3>1
    <3> QED
      BY <3>2, <3>3 DEF Rows
  <2>4. Weight(a.pc) < 2
    BY <1>5 DEF Weight
  <2> HIDE DEF m
  <2> QED
    BY <1>1, <1>3, <2>1, <2>2, <2>3, <2>4, StepReduces
<1>6. CASE a.pc = "search"
  <2> DEFINE m == SearchModel(a.model)
             p == SearchPc(a.model)
  <2>1. FromLoop(a, v) = Calls(a, "allgatherv", 2 * a.model.configuration.numBeams, p, m)
    BY <1>6 DEF FromLoop
  <2>2. Kept(a.model, m)
    BY <1>2, ModelFields DEF Kept, SearchModel
  <2>3. p \in {"search", "sample", "picked"}
    BY DEF SearchPc
  <2> HIDE DEF m, p
  <2>4. SoundModelOf(script, p, a.left, m)
    BY <1>3, <2>2, <2>3
  <2> QED
    BY <1>1, <2>1, <2>3, <2>4, StepCalls
<1>7. CASE a.pc = "sample"
  <2>1. FromLoop(a, v) = Calls(a, "broadcast", 1, "drawn", a.model)
    BY <1>7 DEF FromLoop, Casts
  <2> QED
    BY <1>1, <1>2, <1>3, <2>1, StepCalls
<1>8. CASE a.pc \in {"picked", "drawn"}
  <2> DEFINE token == IF a.pc = "drawn" THEN v ELSE Largest(a.model)
             m == Stepped(a.model, token)
  <2>1. FromLoop(a, v) = ThenWith(a, "loop", m)
    BY <1>8 DEF FromLoop
  <2> HIDE DEF token
  <2>2. Kept(a.model, m)
    <3>1. Kept(a.model, WithToken(a.model, token))
      BY <1>2, ModelFields DEF Kept, WithToken
    <3>2. Kept(a.model, WithBeams(a.model, token))
      BY <1>2, ModelFields DEF Kept, WithBeams
    <3> QED
      BY <3>1, <3>2 DEF Stepped
  <2>3. Weight(a.pc) < Weight("loop")
    BY <1>8 DEF Weight
  <2> HIDE DEF m
  <2> QED
    BY <1>1, <1>3, <2>1, <2>2, <2>3, StepThen
<1> QED
  BY <1>4, <1>5, <1>6, <1>7, <1>8

(* The part that is sent next is none, or not the first. *)
LEMMA NextPartIs ==
  ASSUME NEW m, NEW p \in 1 .. 4
  PROVE  NextPart(m, p) \in {0, 2, 3, 4}
<1> DEFINE I == {i \in p+1 .. 4 : m.dims[i] # 0}
<1>1. NextPart(m, p) = IF I # {} THEN Min(I) ELSE 0
  BY DEF NextPart, SelectInSubSeq
<1>2. I \in SUBSET Nat /\ I \subseteq 2 .. 4
  OBVIOUS
<1> HIDE DEF I
<1>3. ASSUME I # {} PROVE Min(I) \in I
  <2>1. \E x \in I : \A y \in I : x <= y
    BY <1>2, <1>3, LeastNatural
  <2>2. Min(I) = CHOOSE x \in I : \A y \in I : x <= y
    BY DEF Min
  <2> QED
    BY <2>1, <2>2
<1>4. CASE I = {}
  BY <1>1, <1>4
<1>5. CASE I # {}
  <2>1. NextPart(m, p) \in 2 .. 4
    BY <1>1, <1>2, <1>3, <1>5, Zenon
  <2> QED
    BY <2>1
<1> QED
  BY <1>4, <1>5

LEMMA PartsAre ==
  /\ Parts[1] = "tokens" /\ Parts[2] = "seqLens" /\ Parts[3] = "seqIDs" /\ Parts[4] = "maxLen"
BY DEF Parts

(* The vectors of Model::set_input. *)
LEMMA FromPartSound ==
  ASSUME NEW script \in Scripts, NEW a, Sound(script, a), NEW v, Sent(a, v), a.pc \in PartPcs
  PROVE  SoundStep(script, a, FromPart(a, v))
<1> USE DEF Pcs, ReducePcs, ConfigPcs, PartPcs, BatchPcs
<1>1. a.left \in Nat /\ a.left > 0 /\ a.left # 0 /\ a.pc \notin {"next", "configured"}
  BY PlaceIs
<1>2. DOMAIN a.model = DOMAIN NewModel /\ SoundModelOf(script, a.pc, a.left, a.model)
  BY ModelSame DEF Sound, SoundModel
<1> HIDE DEF NewModel
<1> DEFINE m == Taken(a.model, a.pc, v)
           q == NextPart(a.model, PartOf(a.pc))
<1>3. FromPart(a, v) = IF q = 0 THEN ThenWith(a, "group", m)
                       ELSE Calls(a, "broadcast", a.model.dims[q], Parts[q], m)
  BY DEF FromPart
<1>4. q \in {0, 2, 3, 4}
  <2>1. PartOf(a.pc) \in 1 .. 4
    BY DEF PartOf
  <2> HIDE DEF PartPcs
  <2> QED
    BY <2>1, NextPartIs
<1>5. /\ DOMAIN m = DOMAIN NewModel /\ m.prefix = a.model.prefix
      /\ m.configuration = a.model.configuration /\ m.searcher = a.model.searcher
      /\ m.inputIds = IF a.pc = "tokens" THEN v ELSE a.model.inputIds
  <2>1. CASE a.pc = "tokens"
    BY <1>2, <2>1, ModelFields DEF Taken
  <2>2. CASE a.pc = "seqLens"
    BY <1>2, <2>2, ModelFields DEF Taken
  <2>3. CASE a.pc = "seqIDs"
    BY <1>2, <2>3, ModelFields DEF Taken
  <2>4. CASE a.pc = "maxLen"
    BY <1>2, <2>4, ModelFields DEF Taken
  <2> QED
    BY <2>1, <2>2, <2>3, <2>4
<1> HIDE DEF m, q
<1>6. m.inputIds \in Seq(Int) /\ m.prefix \in Seq(Int)
  <2>1. a.model.inputIds \in Seq(Int) /\ a.model.prefix \in Seq(Int) /\ (a.pc = "tokens" => v \in Seq(Int))
    BY <1>2 DEF SoundModelOf, Sent, SentAt
  <2> QED
    BY <1>5, <2>1, Zenon
<1>7. \A p : p # "next" => SoundModelOf(script, p, a.left, m)
  BY <1>1, <1>2, <1>5, <1>6, ModelKeeps
<1>8. CASE q = 0
  <2>1. Weight(a.pc) < Weight("group")
    BY DEF Weight
  <2> QED
    BY <1>1, <1>3, <1>7, <1>8, <2>1, StepThen
<1>9. CASE q # 0
  <2>1. Parts[q] \in {"seqLens", "seqIDs", "maxLen"}
    BY <1>4, <1>9, PartsAre
  <2>2. SoundModelOf(script, Parts[q], a.left, m)
    BY <1>7, <2>1
  <2> QED
    BY <1>1, <1>3, <1>9, <2>1, <2>2, StepCalls
<1> QED
  BY <1>8, <1>9

(* The rest of set_input, forward, freeSeqs and setPrefix. *)
LEMMA FromBatchSound ==
  ASSUME NEW script \in Scripts, NEW a, Sound(script, a), NEW v, Sent(a, v), a.pc \in BatchPcs
  PROVE  SoundStep(script, a, FromBatch(a, v))
<1> USE DEF Pcs, ReducePcs, ConfigPcs, LoopPcs, PartPcs, BatchPcs
<1>1. /\ a.left \in Nat /\ (a.pc # "dim" => a.left > 0 /\ a.left # 0) /\ a.pc \notin {"next", "configured", "resized"}
      /\ a.pc = "prefixLen" => Name(script, a.left) = "setPrefix"
  BY PlaceIs
<1>2. Kept(a.model, a.model) /\ DOMAIN a.model = DOMAIN NewModel /\ SoundModelOf(script, a.pc, a.left, a.model)
  BY ModelSame DEF Sound, SoundModel
<1>3. a.left > 0 =>
        \A n : Kept(a.model, n) => /\ \A q : q # "next" => SoundModelOf(script, q, a.left, n)
                                  /\ SoundModelOf(script, "next", a.left - 1, n)
  BY <1>1, ModelKept
<1> HIDE DEF NewModel
<1>4. CASE a.pc = "dim" /\ a.left = 0
  <2>1. FromBatch(a, v) = ThenWith(a, "exited", a.model)
    BY <1>4 DEF FromBatch, FromDim, Then, ThenWith
  <2>2. a.model = NewModel
    BY <1>2, <1>4 DEF SoundModelOf
  <2>3. SoundModelOf(script, "exited", a.left, a.model)
    BY <1>4, <2>2, NewModelIs
  <2>4. Weight(a.pc) < Weight("exited")
    BY <1>4 DEF Weight
  <2> QED
    BY <1>4, <2>1, <2>3, <2>4, StepThen
<1>5. CASE a.pc = "dim" /\ a.left > 0
  <2> DEFINE m == [a.model EXCEPT !.dims = v, !.seqLens = <<>>, !.seqIDs = <<>>, !.maxLen = <<>>]
  <2>1. FromBatch(a, v) = Calls(a, "broadcast", v[1], "tokens", m)
    BY <1>1, <1>5 DEF FromBatch, FromDim
  <2>2. Kept(a.model, m)
    BY <1>2, ModelFields DEF Kept
  <2> HIDE DEF m
  <2> QED
    BY <1>1, <1>3, <1>5, <2>1, <2>2, StepCalls
<1>13. CASE a.pc = "group" /\ Mismatch(a.model)
  <2>1. FromBatch(a, v) = ThenWith(a, "failed", a.model)
    BY <1>13 DEF FromBatch, Then, ThenWith
  <2>2. Weight(a.pc) < Weight("failed")
    BY <1>13 DEF Weight
  <2> QED
    BY <1>1, <1>2, <1>3, <1>13, <2>1, <2>2, StepThen
<1>6. CASE a.pc = "group" /\ ~Mismatch(a.model)
  <2> DEFINE m == Grouped(a.model)
  <2>1. FromBatch(a, v) = Returns(a, m)
    BY <1>6 DEF FromBatch
  <2>2. Kept(a.model, m)
    BY <1>2, ModelFields DEF Kept, Grouped
  <2> HIDE DEF m
  <2> QED
    BY <1>1, <1>3, <1>6, <2>1, <2>2, StepReturns
<1>7. CASE a.pc = "gather"
  <2>1. FromBatch(a, v) = Calls(a, "allgatherv", Len(a.model.workingGroup), "return", a.model)
    BY <1>7 DEF FromBatch
  <2> QED
    BY <1>1, <1>2, <1>3, <1>7, <2>1, StepCalls
<1>8. CASE a.pc = "return" \/ (a.pc = "freeSize" /\ v = 0)
  <2>1. FromBatch(a, v) = Returns(a, a.model)
    BY <1>8 DEF FromBatch
  <2> QED
    BY <1>1, <1>2, <1>3, <1>8, <2>1, StepReturns
<1>9. CASE a.pc = "freeSize" /\ v # 0
  <2>1. FromBatch(a, v) = Calls(a, "broadcast", v, "freeIDs", a.model)
    BY <1>9 DEF FromBatch, Casts
  <2> QED
    BY <1>1, <1>2, <1>3, <1>9, <2>1, StepCalls
<1>10. CASE a.pc = "freeIDs"
  <2> DEFINE w == Freed(a.model.pool, v)
             m == [a.model EXCEPT !.pool = w]
  <2>1. FromBatch(a, v) = Returns(a, m)
    BY <1>10 DEF FromBatch
  <2> HIDE DEF w
  <2>2. Kept(a.model, m)
    BY <1>2, ModelFields DEF Kept
  <2> HIDE DEF m
  <2> QED
    BY <1>1, <1>3, <1>10, <2>1, <2>2, StepReturns
<1>11. CASE a.pc = "prefixLen"
  <2>1. FromBatch(a, v) = Calls(a, "broadcast", v, "prefixIds", a.model)
    BY <1>11 DEF FromBatch, Casts
  <2> QED
    BY <1>1, <1>2, <1>3, <1>11, <2>1, StepCalls
<1>12. CASE a.pc = "prefixIds"
  <2> DEFINE m == [a.model EXCEPT !.prefix = v]
  <2>1. FromBatch(a, v) = Reduces(a, Len(v), "return", m)
    BY <1>12 DEF FromBatch
  <2>2. v \in Seq(Int) /\ Len(v) \in Int
    BY <1>12 DEF Sent, SentAt
  <2>3. /\ DOMAIN m = DOMAIN NewModel /\ m.inputIds = a.model.inputIds /\ m.prefix = v
        /\ m.configuration = a.model.configuration /\ m.searcher = a.model.searcher
    BY <1>2, ModelFields
  <2>4. Weight(a.pc) < 2
    BY <1>12 DEF Weight
  <2> HIDE DEF m
  <2>5. m.inputIds \in Seq(Int)
    BY <1>2, <2>3 DEF SoundModelOf
  <2>6. SoundModelOf(script, "reduceAdd", a.left, m)
    BY <1>1, <1>2, <1>12, <2>2, <2>3, <2>5, ModelKeeps
  <2> QED
    BY <1>1, <1>12, <2>1, <2>2, <2>4, <2>6, StepReduces
<1> QED
  BY <1>1, <1>4, <1>5, <1>6, <1>7, <1>8, <1>9, <1>10, <1>11, <1>12, <1>13

(* A collective of reduceAdd. *)
LEMMA ReduceCalls ==
  ASSUME NEW script \in Scripts, NEW a, Sound(script, a), a.pc \in ReducePcs,
         NEW p \in ReducePcs \cup {"search", "return", "gather"}, NEW x, NEW g,
         SoundMessengerOf(p, Append(a.ops, x), g)
  PROVE  SoundStep(script, a, V(p, Append(a.ops, x), a.left, g, a.model))
<1> USE DEF Pcs, ReducePcs, ConfigPcs, LoopPcs, BatchPcs
<1> DEFINE b == V(p, Append(a.ops, x), a.left, g, a.model)
<1>1. a.left \in Nat /\ a.left > 0 /\ a.left # 0 /\ a.pc \notin {"next", "configured"}
  BY PlaceIs
<1>2. Kept(a.model, a.model)
  BY ModelSame
<1>3. SoundModelOf(script, p, a.left, a.model)
  BY <1>1, <1>2, ModelKept
<1>4. SoundPlace(script, a)
  BY DEF Sound
<1>5. SoundPlace(script, b) /\ Later(a, b)
  BY <1>1, <1>4, PlaceCalls
<1>6. b.pc = p /\ b.ops = Append(a.ops, x) /\ b.left = a.left /\ b.msgr = g /\ b.model = a.model
  BY DEF V
<1> HIDE DEF b
<1>7. SoundMessenger(b) /\ SoundModel(script, b)
  BY <1>3, <1>6 DEF SoundMessenger, SoundModel
<1>8. SoundStep(script, a, b)
  BY <1>5, <1>7 DEF SoundStep, Sound
<1> QED
  BY <1>8 DEF b

(* Messenger::reduceAdd. *)
LEMMA FromReduceSound ==
  ASSUME NEW script \in Scripts, NEW a, Sound(script, a), NEW v, a.pc \in ReducePcs
  PROVE  SoundStep(script, a, FromReduce(a, v))
<1> DEFINE g == a.msgr
           n == Len(a.ops)
<1>1. IsSeq(a.ops) /\ a.left \in Nat /\ a.left > 0 /\ a.left # 0 /\ n \in Nat
  BY PlaceIs DEF ReducePcs, IsSeq
<1>2. /\ SoundMessengerOf(a.pc, a.ops, g) /\ DOMAIN g = {"shmSize", "tuned", "count", "run", "left", "ret"}
      /\ g.shmSize \in Int /\ g.count \in Int /\ g.ret \in {"search", "return", "gather"}
      /\ a.pc \in {"resized", "tune", "timed", "typed", "tuned"} => g.count <= g.shmSize
  BY MessengerFields DEF Sound, SoundMessenger, SoundMessengerOf
<1>3. ASSUME NEW x PROVE Len(Append(a.ops, x)) = n + 1 /\ Append(a.ops, x)[n + 1] = x /\ n + 1 > 0
  BY <1>1, AppendIs
<1> HIDE DEF g, n
<1>4. ASSUME NEW p \in ReducePcs \cup {"search", "return", "gather"}, NEW op, NEW count, NEW h,
             /\ DOMAIN h = DOMAIN g /\ h.shmSize \in Int /\ h.count \in Int /\ h.ret = g.ret
             /\ p \in {"resized", "tune", "timed", "typed", "tuned"} => h.count <= h.shmSize
             /\ op = "shm" => count \in Int /\ count <= h.shmSize
      PROVE  SoundStep(script, a, V(p, Append(a.ops, <<op, count>>), a.left, h, a.model))
  <2> DEFINE x == <<op, count>>
             u == Append(a.ops, x)
  <2>1. x[1] = op /\ x[2] = count
    OBVIOUS
  <2>2. Len(u) = n + 1 /\ u[n + 1] = x /\ DOMAIN g = DOMAIN NewMessenger
    BY <1>2, <1>3, MessengerFields
  <2> HIDE DEF u, x
  <2>3. SoundMessengerOf(p, u, h)
    BY <1>2, <1>4, <2>1, <2>2 DEF SoundMessengerOf
  <2>4. SoundStep(script, a, V(p, u, a.left, h, a.model))
    BY <2>3, ReduceCalls DEF u
  <2> QED
    BY <2>4 DEF u, x
<1>5. CASE a.pc = "timed"
  <2>1. FromReduce(a, v) = V("typed", Append(a.ops, <<"broadcast", 1>>), a.left, g, a.model)
    BY <1>5 DEF FromReduce, Casts, Calls, g
  <2> QED
    BY <1>2, <1>4, <1>5, <2>1 DEF ReducePcs
<1>6. CASE a.pc = "typed"
  <2> DEFINE h == Learnt(g, v)
             b == V("tuned", a.ops, a.left, h, a.model)
  <2>1. FromReduce(a, v) = b
    BY <1>6 DEF FromReduce, g
  <2>2. /\ DOMAIN h = DOMAIN g /\ h.shmSize = g.shmSize /\ h.count = g.count /\ h.ret = g.ret
    <3> DEFINE w == [i \in DOMAIN g.tuned \cup {g.count} |-> IF i = g.count THEN v ELSE g.tuned[i]]
    <3>1. h = [g EXCEPT !.tuned = w]
      BY DEF Learnt
    <3> HIDE DEF w, h
    <3> QED
      BY <1>2, <3>1
  <2> HIDE DEF h
  <2>3. SoundMessengerOf("tuned", a.ops, h)
    BY <1>2, <1>6, <2>2 DEF SoundMessengerOf, ReducePcs
  <2>4. Weight(a.pc) < Weight("tuned") /\ "tuned" \in Pcs /\ "tuned" \notin ConfigPcs
    BY <1>6 DEF Weight, Pcs, ReducePcs, ConfigPcs
  <2>5. SoundPlace(script, b) /\ Later(a, b)
    BY <1>1, <2>2, <2>4, PlaceThen DEF Sound, g
  <2>6. SoundModelOf(script, "tuned", a.left, a.model)
    BY <1>1, <1>6, ModelSame, ModelKept
  <2>7. b.pc = "tuned" /\ b.ops = a.ops /\ b.left = a.left /\ b.msgr = h /\ b.model = a.model
    BY DEF V
  <2> HIDE DEF b
  <2>8. SoundMessenger(b) /\ SoundModel(script, b)
    BY <2>3, <2>6, <2>7 DEF SoundMessenger, SoundModel
  <2> QED
    BY <2>1, <2>5, <2>8 DEF SoundStep, Sound
<1>7. CASE a.pc \notin {"timed", "typed"} /\ Resizes(a)
  <2> DEFINE h == [g EXCEPT !.shmSize = g.count]
             b == V("resized", a.ops, a.left, h, a.model)
  <2>0. a.pc = "reduceAdd" /\ g.count > g.shmSize
    BY <1>7 DEF Resizes, g
  <2>1. FromReduce(a, v) = b
    BY <1>7 DEF FromReduce, g
  <2>2. /\ DOMAIN h = DOMAIN g /\ h.shmSize = g.count /\ h.count = g.count /\ h.ret = g.ret
    BY <1>2
  <2> HIDE DEF h
  <2>3. SoundMessengerOf("resized", a.ops, h)
    BY <1>2, <2>0, <2>2 DEF SoundMessengerOf, ReducePcs
  <2>4. Weight(a.pc) < Weight("resized") /\ "resized" \in Pcs /\ "resized" \notin ConfigPcs
    BY <2>0 DEF Weight, Pcs, ReducePcs, ConfigPcs
  <2>5. SoundPlace(script, b) /\ Later(a, b)
    BY <1>1, <2>4, PlaceThen DEF Sound
  <2>6. SoundModelOf(script, "resized", a.left, a.model)
    BY <1>1, <2>0, ModelSame, ModelKept
  <2>7. b.pc = "resized" /\ b.ops = a.ops /\ b.left = a.left /\ b.msgr = h /\ b.model = a.model
    BY DEF V
  <2> HIDE DEF b
  <2>8. SoundMessenger(b) /\ SoundModel(script, b)
    BY <2>3, <2>6, <2>7 DEF SoundMessenger, SoundModel
  <2> QED
    BY <2>1, <2>5, <2>8 DEF SoundStep, Sound
<1>8. CASE a.pc \notin {"timed", "typed"} /\ ~Resizes(a) /\ Tunes(a)
  <2> DEFINE h == [g EXCEPT !.run = g.run + 1]
             p == IF g.run + 1 < TuneSteps(g) THEN "tune" ELSE "timed"
             op == IF g.run < TuneRuns THEN "shm" ELSE "allreduce"
  <2>1. FromReduce(a, v) = V(p, Append(a.ops, <<op, g.count>>), a.left, h, a.model)
    BY <1>8 DEF FromReduce, g
  <2>2. /\ DOMAIN h = DOMAIN g /\ h.shmSize = g.shmSize /\ h.count = g.count /\ h.ret = g.ret
    BY <1>2
  <2>3. p \in {"tune", "timed"}
    OBVIOUS
  <2> HIDE DEF h, p, op
  <2>4. g.count <= g.shmSize
    <3>1. CASE a.pc = "reduceAdd"
      BY <1>2, <1>8, <3>1 DEF Resizes, Tunes, g
    <3>2. CASE a.pc # "reduceAdd"
      BY <1>2, <1>8, <3>2 DEF Tunes
    <3> QED
      BY <3>1, <3>2
  <2>5. p \in ReducePcs
    BY <2>3 DEF ReducePcs
  <2> QED
    BY <1>2, <1>4, <2>1, <2>2, <2>4, <2>5
<1>9. CASE a.pc \notin {"timed", "typed"} /\ ~Resizes(a) /\ ~Tunes(a)
  <2> DEFINE h == [g EXCEPT !.left = g.left - 1, !.run = 0]
             p == IF g.left = 1 THEN g.ret ELSE "reduceAdd"
             op == UserOp(g)
  <2>1. FromReduce(a, v) = V(p, Append(a.ops, <<op, g.count>>), a.left, h, a.model)
    BY <1>9 DEF FromReduce, g
  <2>2. /\ DOMAIN h = DOMAIN g /\ h.shmSize = g.shmSize /\ h.count = g.count /\ h.ret = g.ret
    BY <1>2
  <2>3. p \in {"search", "return", "gather", "reduceAdd"}
    BY <1>2
  <2>4. op = "shm" => g.count <= g.shmSize
    <3>1. CASE Tuning
      <4>1. a.pc \in {"reduceAdd", "resized", "tune", "tuned"}
        BY <1>9 DEF ReducePcs
      <4>2. CASE a.pc = "reduceAdd"
        BY <1>2, <1>9, <3>1, <4>2 DEF Resizes, g
      <4> QED
        BY <1>2, <4>1, <4>2
    <3>2. CASE ~Tuning
      BY <1>2, <3>2 DEF UserOp
    <3> QED
      BY <3>1, <3>2
  <2> HIDE DEF h, p, op
  <2>5. p \in ReducePcs \cup {"search", "return", "gather"} /\ p \notin {"resized", "tune", "timed", "typed", "tuned"}
    BY <2>3 DEF ReducePcs
  <2> QED
    BY <1>2, <1>4, <2>1, <2>2, <2>4, <2>5
<1> QED
  BY <1>5, <1>6, <1>7, <1>8, <1>9

(* Every step of the history. *)
LEMMA AfterSound ==
  ASSUME NEW script \in Scripts, NEW a, Sound(script, a), NEW v, Sent(a, v),
         a.pc \notin {"exited", "failed"}
  PROVE  SoundStep(script, a, After(script, a, v))
<1>1. a.pc \in Pcs
  BY PlaceIs
<1>2. CASE a.pc = "next"
  BY <1>2, FromNextSound DEF After
<1>3. CASE a.pc \in ConfigPcs
  <2>1. a.pc # "next"
    BY <1>3 DEF ConfigPcs
  <2> QED
    BY <1>3, <2>1, FromConfigSound DEF After
<1>4. CASE a.pc \in LoopPcs
  <2>1. a.pc # "next" /\ a.pc \notin ConfigPcs
    BY <1>4 DEF ConfigPcs, LoopPcs
  <2> QED
    BY <1>4, <2>1, FromLoopSound DEF After
<1>5. CASE a.pc \in PartPcs
  <2>1. a.pc # "next" /\ a.pc \notin ConfigPcs /\ a.pc \notin LoopPcs
    BY <1>5 DEF ConfigPcs, LoopPcs, PartPcs
  <2> QED
    BY <1>5, <2>1, FromPartSound DEF After
<1>6. CASE a.pc \in BatchPcs
  <2>1. a.pc # "next" /\ a.pc \notin ConfigPcs /\ a.pc \notin LoopPcs /\ a.pc \notin PartPcs
    BY <1>6 DEF ConfigPcs, LoopPcs, PartPcs, BatchPcs
  <2> QED
    BY <1>6, <2>1, FromBatchSound DEF After
<1>7. CASE a.pc \in ReducePcs
  <2>1. a.pc # "next" /\ a.pc \notin ConfigPcs /\ a.pc \notin LoopPcs /\ a.pc \notin PartPcs /\ a.pc \notin BatchPcs
    BY <1>7 DEF ConfigPcs, LoopPcs, PartPcs, BatchPcs, ReducePcs
  <2> QED
    BY <1>7, <2>1, FromReduceSound DEF After
<1> QED
  BY <1>1, <1>2, <1>3, <1>4, <1>5, <1>6, <1>7 DEF Pcs

-----------------------------------------------------------------------------
(* What a step of rank r does: it takes the step of its view, with what    *)
(* rank 0 has sent; the other ranks stay as they are; and what rank 0 adds *)
(* to its broadcasts is what the view it gets to asks for.                 *)
Local(r) ==
  /\ mode' = mode /\ next' = next /\ Domains'
  /\ \A s \in Rank \ {r} : /\ pc'[s] = pc[s] /\ calls'[s] = calls[s] /\ msgr'[s] = msgr[s]
                           /\ todo'[s] = todo[s] /\ model'[s] = model[s]
Grown(script) ==
  \/ calls'[0] = calls[0]
  \/ \E x : calls'[0] = Append(calls[0], x) /\ Sent(View(script, 0)', x.data)
Outcome(script, r) ==
  /\ Local(r) /\ Orderly(script, r)'
  /\ Len(calls[r]) <= Len(calls[0])
  /\ View(script, r)' = After(script, View(script, r), Data(Len(calls[r])))
  /\ r = 0 => Grown(script) /\ Master'

LEMMA RanksAre == Size \in Nat /\ 0 \in Rank /\ \A r \in Rank : r \in Int /\ r >= 0
BY MessengerAssumption DEF Rank

(* The fields of a view. *)
LEMMA ViewIs ==
  ASSUME NEW script, NEW r, IsSeq(calls[r])
  PROVE  /\ View(script, r).ops = OpsOf(calls[r]) /\ Len(View(script, r).ops) = Len(calls[r])
         /\ View(script, r).left = LeftOf(r, todo[r])
         /\ View(script, r).pc = PcOf(script, r, pc[r])
         /\ View(script, r).msgr = msgr[r]
         /\ View(script, r).model = ModelOf(LeftOf(r, todo[r]), pc[r], model[r])
<1>1. Len(OpsOf(calls[r])) = Len(calls[r])
  BY OpsAre
<1> QED
  BY <1>1 DEF View, ViewOf, V

(* A place that is not entered with a collective asks nothing of data. *)
LEMMA QuietSent ==
  ASSUME NEW a, NEW v, Weight(a.pc) # 0
  PROVE  Sent(a, v)
<1>1. a.pc \notin {"configured", "dim", "ids", "tokens", "prefixIds"}
  BY DEF Weight
<1> QED
  BY <1>1 DEF Sent, SentAt

LEMMA TracedPlaced ==
  ASSUME NEW script \in Scripts, NEW a, Sound(script, a)
  PROVE  Placed(a) /\ Len(a.ops) \in Nat
BY PlaceIs DEF Placed, IsSeq

(* The history is extended by the step of its last view. *)
Longer(t, N, b) == [n \in 0 .. N+1 |-> IF n <= N THEN t[n] ELSE b]
(* The history goes on from its last view. *)
LEMMA Extend ==
  ASSUME NEW script \in Scripts, NEW t, NEW N, NEW pos, Traced(script, t, N, pos),
         \A r \in Rank : Orderly(script, r),
         Len(t[N].ops) <= Len(calls[0]), t[N].pc \notin {"exited", "failed"},
         NEW b, b = After(script, t[N], Data(Len(t[N].ops)))
  PROVE  Traced(script, Longer(t, N, b), N + 1, pos)
<1> DEFINE u == Longer(t, N, b)
<1>1. N \in Nat /\ pos \in [Rank -> 0 .. N] /\ 0 \in Rank
  BY RanksAre DEF Traced
<1>2. /\ \A r \in Rank : View(script, r) = t[pos[r]]
      /\ \A n \in 0 .. N : Sound(script, t[n])
      /\ \A n \in 0 .. N-1 : /\ Len(t[n].ops) <= Len(calls[0])
                             /\ t[n + 1] = After(script, t[n], Data(Len(t[n].ops)))
      /\ \A i, j \in 0 .. N : i < j => Later(t[i], t[j])
      /\ \A n \in 0 .. N : Len(t[n].ops) <= Len(calls[0]) => Sent(t[n], Data(Len(t[n].ops)))
  BY DEF Traced
<1>3. u[N + 1] = b /\ \A n \in 0 .. N : u[n] = t[n]
  BY <1>1 DEF Longer
<1>4. Sound(script, t[N]) /\ Sent(t[N], Data(Len(t[N].ops)))
  BY <1>1, <1>2
<1>5. Sound(script, b) /\ Later(t[N], b)
  BY <1>4, AfterSound DEF SoundStep
<1>6. ASSUME NEW i \in 0 .. N PROVE Later(t[i], b)
  <2>1. CASE i = N
    BY <1>5, <2>1
  <2>2. CASE i # N
    <3>1. i < N /\ N \in 0 .. N
      BY <1>1, <2>2
    <3>2. Later(t[i], t[N])
      BY <1>2, <3>1
    <3>3. Placed(t[i]) /\ Placed(t[N]) /\ Placed(b)
      BY <1>2, <1>4, <1>5, TracedPlaced
    <3> QED
      BY <1>5, <3>2, <3>3, LaterTransitive
  <2> QED
    BY <2>1, <2>2
<1> HIDE DEF u
<1>7. ASSUME NEW n \in 0 .. N+1 PROVE n = N + 1 \/ n \in 0 .. N
  BY <1>1
<1>8. \A r \in Rank : pos[r] \in 0 .. N /\ View(script, r) = u[pos[r]]
  BY <1>1, <1>2, <1>3
<1>9. \A n \in 0 .. N+1 : Sound(script, u[n])
  BY <1>2, <1>3, <1>5, <1>7
<1>10. ASSUME NEW n \in 0 .. (N+1)-1
       PROVE  Len(u[n].ops) <= Len(calls[0]) /\ u[n + 1] = After(script, u[n], Data(Len(u[n].ops)))
  <2>1. CASE n = N
    BY <1>1, <1>3, <2>1
  <2>2. CASE n # N
    <3>1. n \in 0 .. N-1 /\ n \in 0 .. N /\ n + 1 \in 0 .. N
      BY <1>1, <2>2
    <3> QED
      BY <1>2, <1>3, <3>1
  <2> QED
    BY <2>1, <2>2
<1>11. ASSUME NEW i \in 0 .. N+1, NEW j \in 0 .. N+1, i < j PROVE Later(u[i], u[j])
  <2>1. i \in 0 .. N
    BY <1>1, <1>11
  <2>2. CASE j = N + 1
    BY <1>3, <1>6, <2>1, <2>2
  <2>3. CASE j \in 0 .. N
    BY <1>2, <1>3, <1>11, <2>1, <2>3
  <2> QED
    BY <1>7, <2>2, <2>3
<1>12. Len(b.ops) <= Len(calls[0]) => Sent(b, Data(Len(b.ops)))
  <2> SUFFICES ASSUME Len(b.ops) <= Len(calls[0]) PROVE Sent(b, Data(Len(b.ops)))
    OBVIOUS
  <2>1. pos[0] \in 0 .. N /\ View(script, 0) = t[pos[0]] /\ IsSeq(calls[0])
    BY <1>1, <1>2 DEF Orderly
  <2>2. Len(t[pos[0]].ops) = Len(calls[0]) /\ Later(t[pos[0]], b)
    BY <1>6, <2>1, ViewIs
  <2>3. Len(b.ops) \in Nat /\ Len(calls[0]) \in Nat
    BY <1>5, <2>1, TracedPlaced DEF IsSeq
  <2>4. Weight(b.pc) # 0
    BY <2>2, <2>3 DEF Later
  <2> QED
    BY <2>4, QuietSent
<1>13. \A n \in 0 .. N+1 : Len(u[n].ops) <= Len(calls[0]) => Sent(u[n], Data(Len(u[n].ops)))
  BY <1>2, <1>3, <1>7, <1>12
<1>14. N + 1 \in Nat /\ pos \in [Rank -> 0 .. N+1]
  BY <1>1
<1>15. Traced(script, u, N + 1, pos)
  BY <1>8, <1>9, <1>10, <1>11, <1>13, <1>14 DEF Traced
<1> QED
  BY <1>15 DEF u

(* A rank moves to the next view of the history. *)
LEMMA Move ==
  ASSUME NEW script \in Scripts, NEW t, NEW N, NEW pos, Traced(script, t, N, pos),
         \A s \in Rank : Orderly(script, s),
         NEW r \in Rank, pos[r] < N, Outcome(script, r)
  PROVE  Traced(script, t, N, [pos EXCEPT ![r] = pos[r] + 1])'
<1> DEFINE q == [pos EXCEPT ![r] = pos[r] + 1]
           i == pos[r]
<1>1. N \in Nat /\ pos \in [Rank -> 0 .. N] /\ 0 \in Rank
  BY RanksAre DEF Traced
<1>2. /\ \A s \in Rank : View(script, s) = t[pos[s]]
      /\ \A n \in 0 .. N : Sound(script, t[n])
      /\ \A n \in 0 .. N-1 : /\ Len(t[n].ops) <= Len(calls[0])
                             /\ t[n + 1] = After(script, t[n], Data(Len(t[n].ops)))
      /\ \A k, j \in 0 .. N : k < j => Later(t[k], t[j])
      /\ \A n \in 0 .. N : Len(t[n].ops) <= Len(calls[0]) => Sent(t[n], Data(Len(t[n].ops)))
  BY DEF Traced
<1>3. i \in 0 .. N-1 /\ i \in 0 .. N /\ i + 1 \in 0 .. N
  BY <1>1
<1>4. q \in [Rank -> 0 .. N] /\ q[r] = i + 1 /\ \A s \in Rank \ {r} : q[s] = pos[s]
  BY <1>1, <1>3
<1>5. /\ mode' = mode /\ next' = next
      /\ \A s \in Rank \ {r} : /\ pc'[s] = pc[s] /\ calls'[s] = calls[s] /\ msgr'[s] = msgr[s]
                               /\ todo'[s] = todo[s] /\ model'[s] = model[s]
  BY DEF Outcome, Local
<1>6. IsSeq(calls[0]) /\ Len(calls[0]) \in Nat /\ IsSeq(calls[r])
  BY <1>1 DEF Orderly, IsSeq
<1>7. \A s \in Rank : View(script, s)' = t[q[s]]
  <2>1. View(script, r)' = t[q[r]]
    <3>1. View(script, r) = t[i] /\ Len(View(script, r).ops) = Len(calls[r])
      BY <1>2, <1>6, ViewIs
    <3>2. View(script, r)' = After(script, t[i], Data(Len(t[i].ops)))
      BY <3>1 DEF Outcome
    <3> QED
      BY <1>2, <1>3, <1>4, <3>2
  <2>2. ASSUME NEW s \in Rank \ {r} PROVE View(script, s)' = t[q[s]]
    <3>1. View(script, s)' = View(script, s)
      BY <1>5 DEF View
    <3> QED
      BY <1>2, <1>4, <3>1
  <2> QED
    BY <2>1, <2>2
<1>8. \/ calls'[0] = calls[0]
      \/ /\ r = 0
         /\ \E x : calls'[0] = Append(calls[0], x) /\ Sent(View(script, 0)', x.data)
  <2>1. CASE r = 0
    BY <2>1 DEF Outcome, Grown
  <2>2. CASE r # 0
    BY <1>1, <1>5, <2>2
  <2> QED
    BY <2>1, <2>2
<1>9. /\ Len(calls'[0]) \in {Len(calls[0]), Len(calls[0]) + 1}
      /\ \A k \in 0 .. Len(calls[0]) : Data(k)' = Data(k)
  <2>1. CASE calls'[0] = calls[0]
    BY <2>1 DEF Data
  <2>2. CASE \E x : calls'[0] = Append(calls[0], x)
    <3>1. PICK x : calls'[0] = Append(calls[0], x)
      BY <2>2
    <3>2. Len(calls'[0]) = Len(calls[0]) + 1 /\ \A k \in 1 .. Len(calls[0]) : calls'[0][k] = calls[0][k]
      BY <1>6, <3>1, AppendIs
    <3>3. ASSUME NEW k \in 0 .. Len(calls[0]) PROVE Data(k)' = Data(k)
      <4>1. CASE k = 0
        BY <4>1 DEF Data
      <4>2. CASE k # 0
        <5>1. k \in 1 .. Len(calls[0])
          BY <1>6, <4>2
        <5> QED
          BY <3>2, <5>1 DEF Data
      <4> QED
        BY <4>1, <4>2
    <3> QED
      BY <3>2, <3>3
  <2> QED
    BY <1>8, <2>1, <2>2
<1>10. ASSUME NEW n \in 0 .. N PROVE Len(t[n].ops) \in Nat
  BY <1>2, TracedPlaced
<1>11. ASSUME NEW n \in 0 .. N-1
       PROVE  /\ Len(t[n].ops) <= Len(calls'[0])
              /\ t[n + 1] = After(script, t[n], Data(Len(t[n].ops)))'
  <2>1. n \in 0 .. N
    BY <1>1
  <2>2. Len(t[n].ops) \in 0 .. Len(calls[0])
    BY <1>2, <1>6, <1>10, <2>1
  <2>3. Data(Len(t[n].ops))' = Data(Len(t[n].ops))
    BY <1>9, <2>2
  <2> DEFINE v == Data(Len(t[n].ops))
  <2>4. v' = v
    BY <2>3
  <2>5. After(script, t[n], v) = t[n + 1]
    BY <1>2
  <2>6. After(script, t[n], v)' = After(script, t[n], v)
    <3> HIDE DEF v
    <3>1. FromLoop(t[n], v)' = FromLoop(t[n], v)
      BY <1>5, <2>4 DEF FromLoop, Largest
    <3>2. FromReduce(t[n], v)' = FromReduce(t[n], v)
      BY <1>5, <2>4 DEF FromReduce, Resizes, Tunes, UserOp, Tuning
    <3>3. FromConfig(t[n], v)' = FromConfig(t[n], v)
      BY <2>4 DEF FromConfig
    <3>4. FromPart(t[n], v)' = FromPart(t[n], v)
      BY <2>4 DEF FromPart
    <3>5. FromBatch(t[n], v)' = FromBatch(t[n], v)
      BY <2>4 DEF FromBatch
    <3> QED
      BY <3>1, <3>2, <3>3, <3>4, <3>5 DEF After
  <2>7. Len(t[n].ops) <= Len(calls'[0])
    BY <1>6, <1>9, <2>2
  <2> QED
    BY <2>5, <2>6, <2>7
<1>12. ASSUME NEW n \in 0 .. N, Len(t[n].ops) <= Len(calls'[0])
       PROVE  Sent(t[n], Data(Len(t[n].ops)))'
  <2>1. Len(t[n].ops) \in Nat
    BY <1>10
  <2> SUFFICES Sent(t[n], Data(Len(t[n].ops))')
    BY DEF Sent, SentAt
  <2>2. CASE Len(t[n].ops) <= Len(calls[0])
    <3>1. Data(Len(t[n].ops))' = Data(Len(t[n].ops))
      BY <1>6, <1>9, <2>1, <2>2
    <3> QED
      BY <1>2, <2>2, <3>1
  <2>3. CASE Len(t[n].ops) > Len(calls[0])
    <3>1. Len(calls'[0]) = Len(calls[0]) + 1 /\ Len(t[n].ops) = Len(calls[0]) + 1
      BY <1>6, <1>9, <1>12, <2>1, <2>3
    <3>2. calls'[0] # calls[0]
      BY <1>6, <3>1
    <3>3. r = 0 /\ \E x : calls'[0] = Append(calls[0], x) /\ Sent(View(script, 0)', x.data)
      BY <1>8, <3>2
    <3>4. PICK x : calls'[0] = Append(calls[0], x) /\ Sent(View(script, 0)', x.data)
      BY <3>3
    <3>5. calls'[0][Len(calls[0]) + 1] = x
      BY <1>6, <3>4, AppendIs
    <3>6. Data(Len(t[n].ops))' = x.data
      BY <1>6, <3>1, <3>5 DEF Data
    <3>7. Sent(t[i + 1], x.data) /\ View(script, 0)' = t[i + 1]
      BY <1>4, <1>7, <3>3, <3>4
    <3>8. Len(t[i].ops) = Len(calls[0]) /\ Len(t[i + 1].ops) = Len(calls[0]) + 1
      <4>1. View(script, 0) = t[i]
        BY <1>2, <3>3
      <4>2. Len(t[i].ops) = Len(calls[0])
        BY <1>6, <4>1, ViewIs
      <4>3. IsSeq(calls'[0])
        BY <3>3 DEF Outcome, Orderly
      <4>4. View(script, 0)'.ops = OpsOf(calls'[0]) /\ Len(OpsOf(calls'[0])) = Len(calls'[0])
        <5>1. Len(OpsOf(calls'[0])) = Len(calls'[0])
          BY <4>3, OpsAre
        <5> QED
          BY <5>1 DEF View, ViewOf, V
      <4> QED
        BY <3>1, <3>7, <4>2, <4>4
    <3>9. CASE n = i + 1
      BY <3>6, <3>7, <3>9
    <3>10. CASE n < i + 1
      <4>1. n = i \/ n < i
        BY <1>3, <3>10
      <4>2. CASE n = i
        BY <1>6, <3>1, <3>8, <4>2
      <4>3. CASE n < i
        <5>1. Later(t[n], t[i])
          BY <1>2, <1>3, <4>3
        <5> QED
          BY <1>6, <3>1, <3>8, <5>1 DEF Later
      <4> QED
        BY <4>1, <4>2, <4>3
    <3>11. CASE n > i + 1
      <4>1. Later(t[i + 1], t[n])
        BY <1>2, <1>3, <3>11
      <4>2. Weight(t[n].pc) # 0
        BY <1>6, <3>1, <3>8, <4>1 DEF Later
      <4> QED
        BY <4>2, QuietSent
    <3> QED
      BY <1>3, <3>9, <3>10, <3>11
  <2> QED
    BY <1>6, <2>1, <2>2, <2>3
<1> HIDE DEF q
<1>13. Traced(script, t, N, q)'
  <2>1. /\ N \in Nat /\ q \in [Rank -> 0 .. N]
        /\ \A s \in Rank : View(script, s)' = t[q[s]]
        /\ \A n \in 0 .. N : Sound(script, t[n])
        /\ \A n \in 0 .. N-1 : /\ Len(t[n].ops) <= Len(calls'[0])
                               /\ t[n + 1] = After(script, t[n], Data(Len(t[n].ops)))'
        /\ \A k, j \in 0 .. N : k < j => Later(t[k], t[j])
        /\ \A n \in 0 .. N : Len(t[n].ops) <= Len(calls'[0]) => Sent(t[n], Data(Len(t[n].ops)))'
    BY <1>1, <1>2, <1>4, <1>7, <1>11, <1>12
  <2> QED
    BY <2>1 DEF Traced
<1> QED
  BY <1>13 DEF q

-----------------------------------------------------------------------------
(* What a step finds. *)
Ready(script, r) ==
  /\ Domains /\ Master /\ \A s \in Rank : Orderly(script, s)
  /\ Sound(script, View(script, r))
  /\ Len(calls[r]) <= Len(calls[0]) => Sent(View(script, r), Data(Len(calls[r])))

(* A step of rank r gives it new values. *)
Put(f, g, r, v) == DOMAIN g = Rank /\ g[r] = v /\ \A s \in Rank \ {r} : g[s] = f[s]
Moves(r, p, c, td, g, m) ==
  /\ mode' = mode /\ next' = next
  /\ Put(pc, pc', r, p) /\ Put(calls, calls', r, c) /\ Put(todo, todo', r, td)
  /\ Put(msgr, msgr', r, g) /\ Put(model, model', r, m)

LEMMA PutExcept ==
  ASSUME NEW f, DOMAIN f = Rank, NEW r \in Rank
  PROVE  /\ \A v : Put(f, [f EXCEPT ![r] = v], r, v)
         /\ Put(f, f, r, f[r])
BY DEF Put

(* The outcome of a step from the values it gives to rank r. *)
LEMMA OutcomeOf ==
  ASSUME NEW script, NEW r \in Rank, NEW p, NEW c, NEW td, NEW g, NEW m, Moves(r, p, c, td, g, m),
         IsSeq(c), Rest(Full(script, r), td), Len(calls[r]) <= Len(calls[0]),
         ViewOf(script, r, p, c, td, g, m) = After(script, View(script, r), Data(Len(calls[r]))),
         r = 0 => /\ \/ c = calls[0]
                     \/ \E x : c = Append(calls[0], x) /\ Sent(ViewOf(script, r, p, c, td, g, m), x.data)
                  /\ MasterOf(p, c, td, m)
  PROVE  Outcome(script, r)
<1>1. pc'[r] = p /\ calls'[r] = c /\ todo'[r] = td /\ msgr'[r] = g /\ model'[r] = m
  BY DEF Moves, Put
<1>2. Local(r)
  BY DEF Moves, Put, Local, Domains
<1>3. Orderly(script, r)'
  BY <1>1 DEF Orderly
<1>4. View(script, r)' = ViewOf(script, r, p, c, td, g, m)
  BY <1>1 DEF View
<1>5. r = 0 => Grown(script) /\ Master'
  <2> SUFFICES ASSUME r = 0 PROVE Grown(script) /\ Master'
    OBVIOUS
  <2>1. Master'
    BY <1>1 DEF Master
  <2>2. CASE c = calls[0]
    BY <1>1, <2>1, <2>2 DEF Grown
  <2>3. CASE \E x : c = Append(calls[0], x) /\ Sent(ViewOf(script, r, p, c, td, g, m), x.data)
    <3>1. PICK x : c = Append(calls[0], x) /\ Sent(ViewOf(script, r, p, c, td, g, m), x.data)
      BY <2>3
    <3>2. calls'[0] = Append(calls[0], x) /\ Sent(View(script, 0)', x.data)
      BY <1>1, <1>4, <3>1
    <3> QED
      BY <2>1, <3>2 DEF Grown
  <2> QED
    BY <2>2, <2>3
<1> QED
  BY <1>2, <1>3, <1>4, <1>5 DEF Outcome

(* The rank r at a label, when its last collective has returned. *)
LEMMA LengthsAre ==
  ASSUME NEW script, NEW r \in Rank, Ready(script, r), Returned(r)
  PROVE  /\ IsSeq(calls[r]) /\ Len(calls[r]) \in Nat /\ Len(calls[r]) <= Len(calls[0])
         /\ Sent(View(script, r), Data(Len(calls[r])))
         /\ Len(calls[r]) > 0 => Received(r) = Data(Len(calls[r]))
<1>1. IsSeq(calls[r]) /\ IsSeq(calls[0]) /\ 0 \in Rank
  BY RanksAre DEF Ready, Orderly
<1>2. Len(calls[r]) \in Nat /\ Len(calls[0]) \in Nat
  BY <1>1 DEF IsSeq
<1>3. Len(calls[r]) <= Len(calls[0])
  <2>1. CASE Len(calls[r]) = 0
    BY <1>2, <2>1
  <2>2. CASE Len(calls[r]) # 0
    BY <1>1, <1>2, <2>2 DEF Returned
  <2> QED
    BY <2>1, <2>2
<1>4. Len(calls[r]) > 0 => Received(r) = Data(Len(calls[r]))
  BY <1>2 DEF Received, Data
<1> QED
  BY <1>1, <1>2, <1>3, <1>4 DEF Ready

(* What rank r has to call in all. *)
LEMMA FullIs ==
  ASSUME NEW script \in Scripts, NEW r \in Rank
  PROVE  /\ IsSeq(Full(script, r)) /\ Len(Full(script, r)) = Len(script) + (IF r = 0 THEN 0 ELSE 1)
         /\ \A i \in 1 .. Len(script) : Full(script, r)[i] = script[i]
         /\ r # 0 => Full(script, r)[Len(script) + 1] = Again(script)
<1>1. IsSeq(script) /\ Len(script) \in Nat
  BY ScriptIs
<1>2. CASE r = 0
  BY <1>1, <1>2 DEF Full
<1>3. CASE r # 0
  BY <1>1, <1>3, AppendIs DEF Full
<1> QED
  BY <1>2, <1>3

(* The call that rank r makes. *)
LEMMA CallIs ==
  ASSUME NEW script \in Scripts, NEW r \in Rank, Ready(script, r), todo[r] # <<>>
  PROVE  /\ LeftOf(r, todo[r]) \in 0 .. Len(script)
         /\ Head(todo[r]).call = Name(script, LeftOf(r, todo[r]))
         /\ r = 0 => /\ LeftOf(r, todo[r]) > 0 /\ Len(script) - LeftOf(r, todo[r]) + 1 \in 1 .. Len(script)
                     /\ Head(todo[r]) = script[Len(script) - LeftOf(r, todo[r]) + 1]
<1> DEFINE full == Full(script, r)
           k == Len(todo[r])
           n == Len(script)
           l == LeftOf(r, todo[r])
           d == IF r = 0 THEN 0 ELSE 1
<1>1. IsSeq(todo[r]) /\ k <= Len(full) /\ \A i \in 1 .. k : todo[r][i] = full[Len(full) - k + i]
  BY DEF Ready, Orderly, Rest
<1>2. k \in Nat \ {0} /\ Head(todo[r]) = todo[r][1]
  BY <1>1, TailIs
<1>3. /\ n \in Nat /\ Len(full) = n + d /\ \A i \in 1 .. n : full[i] = script[i]
      /\ r # 0 => full[n + 1] = Again(script)
  BY FullIs, ScriptIs
<1>4. l = k - d
  BY DEF LeftOf
<1> HIDE DEF full, k, n, l
<1>5. Head(todo[r]) = full[Len(full) - k + 1]
  <2>1. 1 \in 1 .. k
    BY <1>2
  <2> QED
    BY <1>1, <1>2, <2>1
<1>6. l \in 0 .. n /\ Len(full) - k + 1 = n - l + 1 /\ (r = 0 => l > 0)
  BY <1>1, <1>2, <1>3, <1>4
<1>7. Head(todo[r]) = full[n - l + 1]
  BY <1>5, <1>6
<1>8. CASE l = 0
  <2>1. r # 0 /\ n - l + 1 = n + 1
    BY <1>3, <1>6, <1>8
  <2>2. Head(todo[r]) = Again(script)
    BY <1>3, <1>7, <2>1
  <2>3. Name(script, l) = Again(script).call
    BY <1>8 DEF Name
  <2> QED
    BY <1>6, <1>8, <2>1, <2>2, <2>3 DEF n, l
<1>9. CASE l # 0
  <2>1. n - l + 1 \in 1 .. n
    BY <1>3, <1>6, <1>9
  <2>2. Head(todo[r]) = script[n - l + 1]
    BY <1>3, <1>7, <2>1
  <2>3. Name(script, l) = script[n - l + 1].call
    BY <1>9 DEF Name, n
  <2> QED
    BY <1>6, <2>1, <2>2, <2>3 DEF n, l
<1> QED
  BY <1>8, <1>9

(* Rank r is where its view is. *)
LEMMA HereIs ==
  ASSUME NEW script \in Scripts, NEW r \in Rank, Ready(script, r), pc[r] # "exited"
  PROVE  /\ View(script, r).pc = pc[r] /\ View(script, r).ops = OpsOf(calls[r])
         /\ View(script, r).left = LeftOf(r, todo[r]) /\ View(script, r).msgr = msgr[r]
         /\ (LeftOf(r, todo[r]) > 0 /\ pc[r] # "configured") \/ pc[r] = "next" => View(script, r).model = model[r]
         /\ LeftOf(r, todo[r]) \in 0 .. Len(script) /\ LeftOf(r, todo[r]) \in Nat
         /\ pc[r] \notin {"next", "configured", "dim"} => LeftOf(r, todo[r]) > 0
         /\ r = 0 /\ pc[r] # "next" => LeftOf(r, todo[r]) > 0
         /\ LeftOf(r, todo[r]) > 0 => todo[r] # <<>>
         /\ Weight(pc[r]) = 0 => Len(calls[r]) > 0
<1> DEFINE l == LeftOf(r, todo[r])
<1>1. IsSeq(calls[r]) /\ IsSeq(todo[r])
  BY DEF Ready, Orderly, Rest
<1>2. /\ View(script, r).pc = pc[r] /\ View(script, r).ops = OpsOf(calls[r]) /\ View(script, r).left = l
      /\ View(script, r).msgr = msgr[r] /\ Len(OpsOf(calls[r])) = Len(calls[r])
      /\ View(script, r).model = ModelOf(l, pc[r], model[r])
  BY <1>1, ViewIs DEF PcOf
<1>3. Sound(script, View(script, r))
  BY DEF Ready
<1>4. /\ l \in 0 .. Len(script) /\ l \in Nat
      /\ l = 0 => pc[r] \in {"next", "configured", "dim"}
  BY <1>2, <1>3, PlaceIs
<1>5. Weight(pc[r]) = 0 => Len(calls[r]) > 0
  BY <1>2, <1>3 DEF Sound, SoundPlace, SoundPlaceOf
<1>6. (l > 0 /\ pc[r] # "configured") \/ pc[r] = "next" => View(script, r).model = model[r]
  BY <1>2, <1>4 DEF ModelOf
<1>7. l > 0 => todo[r] # <<>>
  <2>1. Len(todo[r]) \in Nat /\ (todo[r] = <<>> => Len(todo[r]) = 0)
    BY <1>1, EmptyIs DEF IsSeq
  <2> DEFINE k == Len(todo[r])
  <2>2. l = k - (IF r = 0 THEN 0 ELSE 1)
    BY DEF LeftOf
  <2> HIDE DEF k, l
  <2>3. l > 0 => k # 0
    BY <2>2
  <2> QED
    BY <2>1, <2>3 DEF k
<1>8. r = 0 /\ pc[r] # "next" => l > 0
  <2> SUFFICES ASSUME r = 0, pc[r] # "next" PROVE l > 0
    OBVIOUS
  <2>1. todo[r] # <<>>
    BY DEF Ready, Master, MasterOf
  <2> QED
    BY <2>1, CallIs
<1> QED
  BY <1>2, <1>4, <1>5, <1>6, <1>7, <1>8

LEMMA ViewEnters ==
  ASSUME NEW script, NEW r, NEW c, IsSeq(c), NEW op, NEW count, NEW data, NEW td, NEW g, NEW m,
         NEW p, p \notin {"configured", "exited"}, LeftOf(r, td) # 0
  PROVE  ViewOf(script, r, p, Append(c, Entry(op, count, data)), td, g, m) =
           V(p, Append(OpsOf(c), <<op, count>>), LeftOf(r, td), g, m)
BY OpsAppend DEF ViewOf, PcOf, ModelOf

LEMMA ViewStays ==
  ASSUME NEW script, NEW r, NEW c, NEW td, NEW g, NEW m,
         NEW p, p \notin {"configured", "exited"}, LeftOf(r, td) # 0 \/ p = "next"
  PROVE  ViewOf(script, r, p, c, td, g, m) = V(p, OpsOf(c), LeftOf(r, td), g, m)
BY DEF ViewOf, PcOf, ModelOf

WordPcs == {"listSize", "wordsSize", "wordsData"}
(* Most places ask nothing of rank 0. *)
LEMMA MasterIs ==
  ASSUME NEW p, p \notin WordPcs, NEW c, NEW td, td # <<>> \/ p \in {"next", "exited"}, NEW m
  PROVE  MasterOf(p, c, td, m)
BY DEF MasterOf, WordPcs

(* The rank enters a collective. *)
LEMMA Enters ==
  ASSUME NEW script \in Scripts, NEW r \in Rank, Ready(script, r), Returned(r), pc[r] # "exited",
         LeftOf(r, todo[r]) > 0,
         NEW op, NEW count, NEW data, NEW p, p \notin {"configured", "exited"}, NEW g, NEW m,
         Moves(r, p, Append(calls[r], Entry(op, count, data)), todo[r], g, m),
         After(script, View(script, r), Data(Len(calls[r]))) =
           V(p, Append(OpsOf(calls[r]), <<op, count>>), LeftOf(r, todo[r]), g, m),
         r = 0 => SentAt(p, LeftOf(r, todo[r]), data),
         r = 0 /\ p \in WordPcs => MasterOf(p, Append(calls[r], Entry(op, count, data)), todo[r], m)
  PROVE  Outcome(script, r)
<1> DEFINE e == Entry(op, count, data)
           c == Append(calls[r], e)
           l == LeftOf(r, todo[r])
           b == ViewOf(script, r, p, c, todo[r], g, m)
<1>1. IsSeq(calls[r]) /\ Len(calls[r]) <= Len(calls[0])
  BY LengthsAre
<1>2. IsSeq(c) /\ Rest(Full(script, r), todo[r])
  BY <1>1, AppendIs DEF Ready, Orderly
<1>3. l # 0 /\ todo[r] # <<>>
  BY HereIs
<1>4. b = V(p, Append(OpsOf(calls[r]), <<op, count>>), l, g, m)
  BY <1>1, <1>3, ViewEnters
<1>5. b.pc = p /\ b.left = l /\ e.data = data
  BY <1>4 DEF V, Entry
<1>6. r = 0 => Sent(b, e.data)
  BY <1>5 DEF Sent
<1> HIDE DEF e, l
<1>7. r = 0 => /\ \E x : c = Append(calls[0], x) /\ Sent(b, x.data)
               /\ MasterOf(p, c, todo[r], m)
  <2>1. r = 0 => \E x : c = Append(calls[0], x) /\ Sent(b, x.data)
    BY <1>6
  <2>2. r = 0 => MasterOf(p, c, todo[r], m)
    <3>1. CASE p \in WordPcs
      BY <3>1 DEF e
    <3>2. CASE p \notin WordPcs
      BY <1>3, <3>2, MasterIs
    <3> QED
      BY <3>1, <3>2
  <2> QED
    BY <2>1, <2>2
<1>8. Moves(r, p, c, todo[r], g, m)
  BY DEF e
<1>9. b = After(script, View(script, r), Data(Len(calls[r])))
  BY <1>4 DEF l
<1> HIDE DEF c
<1> QED
  BY <1>1, <1>2, <1>7, <1>8, <1>9, OutcomeOf

(* The rank goes on without one. *)
LEMMA GoesOn ==
  ASSUME NEW script \in Scripts, NEW r \in Rank, Ready(script, r), Returned(r), pc[r] # "exited",
         LeftOf(r, todo[r]) > 0,
         NEW p, p \notin {"configured", "exited"} \cup WordPcs, NEW g, NEW m,
         Moves(r, p, calls[r], todo[r], g, m),
         After(script, View(script, r), Data(Len(calls[r]))) = V(p, OpsOf(calls[r]), LeftOf(r, todo[r]), g, m)
  PROVE  Outcome(script, r)
<1> DEFINE b == ViewOf(script, r, p, calls[r], todo[r], g, m)
<1>1. IsSeq(calls[r]) /\ Len(calls[r]) <= Len(calls[0]) /\ Rest(Full(script, r), todo[r])
  BY LengthsAre DEF Ready, Orderly
<1>2. LeftOf(r, todo[r]) # 0 /\ todo[r] # <<>>
  BY HereIs
<1>3. b = After(script, View(script, r), Data(Len(calls[r])))
  BY <1>2, ViewStays
<1>4. MasterOf(p, calls[r], todo[r], m)
  BY <1>2, MasterIs
<1> QED
  BY <1>1, <1>3, <1>4, OutcomeOf

(* A call of the program returns. *)
LEMMA CallReturns ==
  ASSUME NEW script \in Scripts, NEW r \in Rank, Ready(script, r), Returned(r), pc[r] # "exited",
         LeftOf(r, todo[r]) > 0, NEW m,
         Moves(r, "next", calls[r], Tail(todo[r]), msgr[r], m),
         After(script, View(script, r), Data(Len(calls[r]))) =
           V("next", OpsOf(calls[r]), LeftOf(r, todo[r]) - 1, msgr[r], m)
  PROVE  Outcome(script, r)
<1> DEFINE td == Tail(todo[r])
           full == Full(script, r)
           b == ViewOf(script, r, "next", calls[r], td, msgr[r], m)
<1>1. IsSeq(calls[r]) /\ Len(calls[r]) <= Len(calls[0])
  BY LengthsAre
<1>2. todo[r] # <<>> /\ IsSeq(todo[r]) /\ Rest(full, todo[r])
  BY HereIs DEF Ready, Orderly, Rest
<1>3. /\ IsSeq(td) /\ Len(td) = Len(todo[r]) - 1 /\ Len(todo[r]) \in Nat \ {0}
      /\ \A k \in 1 .. Len(todo[r]) - 1 : td[k] = todo[r][k + 1]
  BY <1>2, TailIs
<1>4. LeftOf(r, td) = LeftOf(r, todo[r]) - 1
  BY <1>3 DEF LeftOf
<1>5. Rest(full, td)
  <2> DEFINE k == Len(todo[r])
             n == Len(full)
  <2>1. n \in Nat /\ k <= n /\ k \in Nat \ {0} /\ \A i \in 1 .. k : todo[r][i] = full[n - k + i]
    BY <1>2, <1>3, FullIs DEF Rest, IsSeq
  <2>2. Len(td) = k - 1 /\ \A i \in 1 .. k-1 : td[i] = todo[r][i + 1]
    BY <1>3
  <2> HIDE DEF k, n
  <2>3. ASSUME NEW i \in 1 .. k-1 PROVE td[i] = full[n - (k - 1) + i]
    <3>1. i + 1 \in 1 .. k /\ n - k + (i + 1) = n - (k - 1) + i
      BY <2>1
    <3> QED
      BY <2>1, <2>2, <3>1
  <2>4. Len(td) <= n
    BY <2>1, <2>2
  <2>5. \A i \in 1 .. Len(td) : td[i] = full[n - Len(td) + i]
    BY <2>2, <2>3
  <2> QED
    BY <1>3, <2>4, <2>5 DEF Rest, n
<1> HIDE DEF td
<1>6. b = After(script, View(script, r), Data(Len(calls[r])))
  BY <1>4, ViewStays
<1>7. MasterOf("next", calls[r], td, m)
  BY MasterIs DEF WordPcs
<1> QED
  BY <1>1, <1>5, <1>6, <1>7, OutcomeOf DEF td

-----------------------------------------------------------------------------
(* The forms that the actions have. *)
NewMsgr(r, g) == (msgr' = msgr /\ g = msgr[r]) \/ msgr' = [msgr EXCEPT ![r] = g]
NewModelOf(r, m) == (model' = model /\ m = model[r]) \/ Set(r, m)

LEMMA PutsOthers ==
  ASSUME Domains, NEW r \in Rank, NEW p, Goto(r, p), NEW g, NewMsgr(r, g), NEW m, NewModelOf(r, m)
  PROVE  Put(pc, pc', r, p) /\ Put(msgr, msgr', r, g) /\ Put(model, model', r, m)
<1>1. Put(pc, pc', r, p)
  BY PutExcept DEF Domains, Goto
<1>2. Put(msgr, msgr', r, g)
  BY PutExcept DEF Domains, NewMsgr
<1>3. Put(model, model', r, m)
  BY PutExcept DEF Domains, NewModelOf, Set
<1> QED
  BY <1>1, <1>2, <1>3

(* The outcome of an action that enters a collective, *)
LEMMA DoEnter ==
  ASSUME NEW script \in Scripts, NEW r \in Rank, Ready(script, r), Returned(r), pc[r] # "exited",
         LeftOf(r, todo[r]) > 0,
         NEW op, NEW count, NEW data, NEW p, p \notin {"configured", "exited"}, NEW g, NEW m,
         Goto(r, p), NewMsgr(r, g), NewModelOf(r, m), Enter(r, op, count, data),
         todo' = todo, mode' = mode, next' = next,
         After(script, View(script, r), Data(Len(calls[r]))) =
           V(p, Append(OpsOf(calls[r]), <<op, count>>), LeftOf(r, todo[r]), g, m),
         r = 0 => SentAt(p, LeftOf(r, todo[r]), data),
         r = 0 /\ p \in WordPcs => MasterOf(p, Append(calls[r], Entry(op, count, data)), todo[r], m)
  PROVE  Outcome(script, r)
<1>1. Domains
  BY DEF Ready
<1>2. Put(pc, pc', r, p) /\ Put(msgr, msgr', r, g) /\ Put(model, model', r, m)
  BY <1>1, PutsOthers
<1>3. Put(calls, calls', r, Append(calls[r], Entry(op, count, data)))
  BY <1>1, PutExcept DEF Domains, Enter, Entry
<1>4. Put(todo, todo', r, todo[r])
  BY <1>1, PutExcept DEF Domains
<1>5. Moves(r, p, Append(calls[r], Entry(op, count, data)), todo[r], g, m)
  BY <1>2, <1>3, <1>4 DEF Moves
<1> QED
  BY <1>5, Enters

(* of one that does not, *)
LEMMA DoStay ==
  ASSUME NEW script \in Scripts, NEW r \in Rank, Ready(script, r), Returned(r), pc[r] # "exited",
         LeftOf(r, todo[r]) > 0,
         NEW p, p \notin {"configured", "exited"} \cup WordPcs, NEW g, NEW m,
         Goto(r, p), NewMsgr(r, g), NewModelOf(r, m), calls' = calls,
         todo' = todo, mode' = mode, next' = next,
         After(script, View(script, r), Data(Len(calls[r]))) = V(p, OpsOf(calls[r]), LeftOf(r, todo[r]), g, m)
  PROVE  Outcome(script, r)
<1>1. Domains
  BY DEF Ready
<1>2. Put(pc, pc', r, p) /\ Put(msgr, msgr', r, g) /\ Put(model, model', r, m)
  BY <1>1, PutsOthers
<1>3. Put(calls, calls', r, calls[r]) /\ Put(todo, todo', r, todo[r])
  BY <1>1, PutExcept DEF Domains
<1>4. Moves(r, p, calls[r], todo[r], g, m)
  BY <1>2, <1>3 DEF Moves
<1> QED
  BY <1>4, GoesOn

(* and of one that returns. *)
LEMMA DoReturn ==
  ASSUME NEW script \in Scripts, NEW r \in Rank, Ready(script, r), Returned(r), pc[r] # "exited",
         LeftOf(r, todo[r]) > 0, NEW m, NewModelOf(r, m), Return(r), UNCHANGED commVars, next' = next,
         After(script, View(script, r), Data(Len(calls[r]))) =
           V("next", OpsOf(calls[r]), LeftOf(r, todo[r]) - 1, msgr[r], m)
  PROVE  Outcome(script, r)
<1>1. Domains /\ Goto(r, "next") /\ msgr' = msgr /\ calls' = calls /\ mode' = mode
      /\ todo' = [todo EXCEPT ![r] = Tail(todo[r])]
  BY DEF Ready, Return, commVars
<1>2. Put(pc, pc', r, "next") /\ Put(msgr, msgr', r, msgr[r]) /\ Put(model, model', r, m)
  BY <1>1, PutsOthers DEF NewMsgr
<1>3. Put(calls, calls', r, calls[r]) /\ Put(todo, todo', r, Tail(todo[r]))
  BY <1>1, PutExcept DEF Domains
<1>4. Moves(r, "next", calls[r], Tail(todo[r]), msgr[r], m)
  BY <1>1, <1>2, <1>3 DEF Moves
<1> QED
  BY <1>4, CallReturns

(* The view of a rank in the middle of a call. *)
Here(a, r, label) ==
  /\ a.pc = label /\ a.ops = OpsOf(calls[r]) /\ a.left = LeftOf(r, todo[r])
  /\ a.msgr = msgr[r] /\ a.model = model[r]
(* An action in the middle of a call sees what rank 0 has sent. *)
LEMMA InCall ==
  ASSUME NEW script \in Scripts, NEW r \in Rank, Ready(script, r), NEW label, At(r, label),
         label \notin {"next", "exited", "configured", "dim"}
  PROVE  /\ pc[r] = label /\ pc[r] # "exited" /\ Returned(r) /\ LeftOf(r, todo[r]) > 0
         /\ Here(View(script, r), r, label)
         /\ Weight(label) = 0 => Received(r) = Data(Len(calls[r]))
<1>1. pc[r] = label /\ Returned(r)
  BY DEF At
<1>2. LeftOf(r, todo[r]) > 0 /\ LeftOf(r, todo[r]) # 0 /\ (Weight(label) = 0 => Len(calls[r]) > 0)
  BY <1>1, HereIs
<1>3. Here(View(script, r), r, label)
  BY <1>1, <1>2, HereIs DEF Here
<1>4. Weight(label) = 0 => Received(r) = Data(Len(calls[r]))
  BY <1>1, <1>2, LengthsAre
<1> QED
  BY <1>1, <1>2, <1>3, <1>4

LEMMA ModelsAre ==
  ASSUME NEW script \in Scripts, NEW r \in Rank, Ready(script, r), NEW label, At(r, label),
         label \notin {"next", "exited", "configured", "dim"}
  PROVE  DOMAIN model[r] = DOMAIN NewModel /\ Name(script, LeftOf(r, todo[r])) \in Names
<1>1. View(script, r).model = model[r] /\ View(script, r).left = LeftOf(r, todo[r])
  BY InCall DEF Here
<1>2. Sound(script, View(script, r))
  BY DEF Ready
<1> QED
  BY <1>1, <1>2, ModelSame, PlaceIs, NameIs

-----------------------------------------------------------------------------
(* The actions that take place in the middle of a call. *)

LEMMA NoStopWordsStep ==
  ASSUME NEW script \in Scripts, NEW r \in Rank, Ready(script, r), NoStopWords(r), next' = next
  PROVE  Outcome(script, r)
<1> DEFINE a == View(script, r)
           v == Data(Len(calls[r]))
<1>1. /\ At(r, "listSize") /\ Received(r) = 0 /\ Goto(r, "input") /\ NewMsgr(r, msgr[r]) /\ NewModelOf(r, model[r])
      /\ calls' = calls /\ mode' = mode /\ todo' = todo
  BY DEF NoStopWords, commVars, NewMsgr, NewModelOf
<1>2. /\ Here(a, r, "listSize") /\ v = Received(r)
      /\ Returned(r) /\ pc[r] # "exited" /\ LeftOf(r, todo[r]) > 0
  BY <1>1, InCall DEF Weight
<1> HIDE DEF a, v
<1>3. After(script, a, v) = V("input", OpsOf(calls[r]), LeftOf(r, todo[r]), msgr[r], model[r])
  BY <1>1, <1>2 DEF Here, After, ConfigPcs, FromConfig, Then
<1> QED
  BY <1>1, <1>2, <1>3, DoStay DEF a, v, WordPcs

LEMMA InputDimsStep ==
  ASSUME NEW script \in Scripts, NEW r \in Rank, Ready(script, r), InputDims(r), next' = next
  PROVE  Outcome(script, r)
<1> DEFINE a == View(script, r)
           v == Data(Len(calls[r]))
           m == [model[r] EXCEPT !.isNewInput = TRUE]
           data == IF r = 0 THEN <<1, Len(Arg(r).ids)>> ELSE None
<1>1. /\ At(r, "input") /\ Goto(r, "dims") /\ NewMsgr(r, msgr[r]) /\ NewModelOf(r, m)
      /\ Enter(r, "broadcast", 2, data) /\ mode' = mode /\ todo' = todo
  BY DEF InputDims, Broadcast, NewMsgr, NewModelOf
<1>2. /\ Here(a, r, "input")
      /\ Returned(r) /\ pc[r] # "exited" /\ LeftOf(r, todo[r]) > 0
  BY <1>1, InCall DEF Weight
<1> HIDE DEF a, v
<1>3. After(script, a, v) = V("dims", Append(OpsOf(calls[r]), <<"broadcast", 2>>), LeftOf(r, todo[r]), msgr[r], m)
  BY <1>1, <1>2 DEF Here, After, ConfigPcs, FromConfig, Calls
<1>4. r = 0 => SentAt("dims", LeftOf(r, todo[r]), data)
  BY DEF SentAt
<1> QED
  BY <1>1, <1>2, <1>3, <1>4, DoEnter DEF a, v, WordPcs

LEMMA SetInputStep ==
  ASSUME NEW script \in Scripts, NEW r \in Rank, Ready(script, r), SetInput(r), next' = next
  PROVE  Outcome(script, r)
<1> DEFINE a == View(script, r)
           v == Data(Len(calls[r]))
           m == [model[r] EXCEPT !.inputIds = Received(r)]
<1>1. /\ At(r, "ids") /\ Goto(r, "loop") /\ NewMsgr(r, msgr[r]) /\ NewModelOf(r, m)
      /\ calls' = calls /\ mode' = mode /\ todo' = todo
  BY DEF SetInput, commVars, NewMsgr, NewModelOf
<1>2. /\ Here(a, r, "ids") /\ v = Received(r)
      /\ Returned(r) /\ pc[r] # "exited" /\ LeftOf(r, todo[r]) > 0
  BY <1>1, InCall DEF Weight
<1> HIDE DEF a, v
<1>3. After(script, a, v) = V("loop", OpsOf(calls[r]), LeftOf(r, todo[r]), msgr[r], m)
  BY <1>1, <1>2 DEF Here, After, ConfigPcs, FromConfig, ThenWith
<1> QED
  BY <1>1, <1>2, <1>3, DoStay DEF a, v, WordPcs

LEMMA GenerateStep ==
  ASSUME NEW script \in Scripts, NEW r \in Rank, Ready(script, r), Generate(r), next' = next
  PROVE  Outcome(script, r)
<1> DEFINE a == View(script, r)
           v == Data(Len(calls[r]))
<1>1. /\ At(r, "loop") /\ ~IsDone(model[r]) /\ Goto(r, "reduceAdd") /\ NewMsgr(r, Begun(msgr[r], 2 * Layers, Rows(model[r]), "search")) /\ NewModelOf(r, Fed(model[r]))
      /\ calls' = calls /\ mode' = mode /\ todo' = todo
  BY DEF Generate, commVars, NewMsgr, NewModelOf, BeginReduce
<1>2. /\ Here(a, r, "loop")
      /\ Returned(r) /\ pc[r] # "exited" /\ LeftOf(r, todo[r]) > 0
  BY <1>1, InCall DEF Weight
<1> HIDE DEF a, v
<1>3. After(script, a, v) = V("reduceAdd", OpsOf(calls[r]), LeftOf(r, todo[r]), Begun(msgr[r], 2 * Layers, Rows(model[r]), "search"), Fed(model[r]))
  BY <1>1, <1>2 DEF Here, After, ConfigPcs, LoopPcs, FromLoop, Reduces
<1> QED
  BY <1>1, <1>2, <1>3, DoStay DEF a, v, WordPcs

LEMMA SampleStep ==
  ASSUME NEW script \in Scripts, NEW r \in Rank, Ready(script, r), Sample(r), next' = next
  PROVE  Outcome(script, r)
<1> DEFINE a == View(script, r)
           v == Data(Len(calls[r]))
<1>0. PICK data \in Drawn : Enter(r, "broadcast", 1, data)
  BY DEF Sample, Broadcast
<1>1. /\ At(r, "sample") /\ Goto(r, "drawn") /\ NewMsgr(r, msgr[r]) /\ NewModelOf(r, model[r])
      /\ Enter(r, "broadcast", 1, data) /\ mode' = mode /\ todo' = todo
  BY <1>0 DEF Sample, NewMsgr, NewModelOf
<1>2. /\ Here(a, r, "sample") /\ v = Received(r)
      /\ Returned(r) /\ pc[r] # "exited" /\ LeftOf(r, todo[r]) > 0
  BY <1>1, InCall DEF Weight
<1> HIDE DEF a, v
<1>3. After(script, a, v) = V("drawn", Append(OpsOf(calls[r]), <<"broadcast", 1>>), LeftOf(r, todo[r]), msgr[r], model[r])
  BY <1>1, <1>2 DEF Here, After, ConfigPcs, LoopPcs, FromLoop, Casts, Calls
<1>4. r = 0 => SentAt("drawn", LeftOf(r, todo[r]), data)
  BY DEF SentAt
<1> QED
  BY <1>1, <1>2, <1>3, <1>4, DoEnter DEF a, v, WordPcs

LEMMA FinalizeStep ==
  ASSUME NEW script \in Scripts, NEW r \in Rank, Ready(script, r), Finalize(r), next' = next
  PROVE  Outcome(script, r)
<1> DEFINE a == View(script, r)
           v == Data(Len(calls[r]))
<1>1. At(r, "loop") /\ IsDone(model[r]) /\ Return(r) /\ UNCHANGED commVars /\ NewModelOf(r, model[r])
  BY DEF Finalize, commVars, NewModelOf
<1>2. /\ Here(a, r, "loop")
      /\ Returned(r) /\ pc[r] # "exited" /\ LeftOf(r, todo[r]) > 0
  BY <1>1, InCall DEF Weight
<1> HIDE DEF a, v
<1>3. After(script, a, v) = V("next", OpsOf(calls[r]), LeftOf(r, todo[r]) - 1, msgr[r], model[r])
  BY <1>1, <1>2 DEF Here, After, ConfigPcs, LoopPcs, FromLoop, Returns
<1> QED
  BY <1>1, <1>2, <1>3, DoReturn DEF a, v

LEMMA SetPrefixStep ==
  ASSUME NEW script \in Scripts, NEW r \in Rank, Ready(script, r), SetPrefix(r), next' = next
  PROVE  Outcome(script, r)
<1> DEFINE a == View(script, r)
           v == Data(Len(calls[r]))
           m == [model[r] EXCEPT !.prefix = Received(r)]
<1>1. /\ At(r, "prefixIds") /\ Goto(r, "reduceAdd") /\ NewMsgr(r, Begun(msgr[r], 2 * Layers, Len(Received(r)), "return")) /\ NewModelOf(r, m)
      /\ calls' = calls /\ mode' = mode /\ todo' = todo
  BY DEF SetPrefix, commVars, NewMsgr, NewModelOf, BeginReduce
<1>2. /\ Here(a, r, "prefixIds") /\ v = Received(r)
      /\ Returned(r) /\ pc[r] # "exited" /\ LeftOf(r, todo[r]) > 0
  BY <1>1, InCall DEF Weight
<1> HIDE DEF a, v
<1>3. After(script, a, v) = V("reduceAdd", OpsOf(calls[r]), LeftOf(r, todo[r]), Begun(msgr[r], 2 * Layers, Len(Received(r)), "return"), m)
  BY <1>1, <1>2 DEF Here, After, ConfigPcs, LoopPcs, PartPcs, BatchPcs, FromBatch, Reduces
<1> QED
  BY <1>1, <1>2, <1>3, DoStay DEF a, v, WordPcs

LEMMA ForwardReturnsStep ==
  ASSUME NEW script \in Scripts, NEW r \in Rank, Ready(script, r), ForwardReturns(r), next' = next
  PROVE  Outcome(script, r)
<1> DEFINE a == View(script, r)
           v == Data(Len(calls[r]))
<1>1. At(r, "return") /\ Return(r) /\ UNCHANGED commVars /\ NewModelOf(r, model[r])
  BY DEF ForwardReturns, commVars, NewModelOf
<1>2. /\ Here(a, r, "return") /\ v = Received(r)
      /\ Returned(r) /\ pc[r] # "exited" /\ LeftOf(r, todo[r]) > 0
  BY <1>1, InCall DEF Weight
<1> HIDE DEF a, v
<1>3. After(script, a, v) = V("next", OpsOf(calls[r]), LeftOf(r, todo[r]) - 1, msgr[r], model[r])
  BY <1>1, <1>2 DEF Here, After, ConfigPcs, LoopPcs, PartPcs, BatchPcs, FromBatch, Returns
<1> QED
  BY <1>1, <1>2, <1>3, DoReturn DEF a, v

LEMMA GroupStep ==
  ASSUME NEW script \in Scripts, NEW r \in Rank, Ready(script, r), Group(r), next' = next
  PROVE  Outcome(script, r)
<1> DEFINE a == View(script, r)
           v == Data(Len(calls[r]))
<1>1. At(r, "group") /\ ~Mismatch(model[r]) /\ Return(r) /\ UNCHANGED commVars /\ NewModelOf(r, Grouped(model[r]))
  BY DEF Group, commVars, NewModelOf
<1>2. /\ Here(a, r, "group")
      /\ Returned(r) /\ pc[r] # "exited" /\ LeftOf(r, todo[r]) > 0
  BY <1>1, InCall DEF Weight
<1> HIDE DEF a, v
<1>3. After(script, a, v) = V("next", OpsOf(calls[r]), LeftOf(r, todo[r]) - 1, msgr[r], Grouped(model[r]))
  BY <1>1, <1>2 DEF Here, After, ConfigPcs, LoopPcs, PartPcs, BatchPcs, FromBatch, Returns
<1> QED
  BY <1>1, <1>2, <1>3, DoReturn DEF a, v

LEMMA GroupFailsStep ==
  ASSUME NEW script \in Scripts, NEW r \in Rank, Ready(script, r), GroupFails(r), next' = next
  PROVE  Outcome(script, r)
<1> DEFINE a == View(script, r)
           v == Data(Len(calls[r]))
<1>1. /\ At(r, "group") /\ Mismatch(model[r]) /\ Goto(r, "failed") /\ NewMsgr(r, msgr[r]) /\ NewModelOf(r, model[r])
      /\ calls' = calls /\ mode' = mode /\ todo' = todo
  BY DEF GroupFails, commVars, NewMsgr, NewModelOf
<1>2. /\ Here(a, r, "group")
      /\ Returned(r) /\ pc[r] # "exited" /\ LeftOf(r, todo[r]) > 0
  BY <1>1, InCall DEF Weight
<1> HIDE DEF a, v
<1>3. After(script, a, v) = V("failed", OpsOf(calls[r]), LeftOf(r, todo[r]), msgr[r], model[r])
  BY <1>1, <1>2 DEF Here, After, ConfigPcs, LoopPcs, PartPcs, BatchPcs, FromBatch, Then
<1> QED
  BY <1>1, <1>2, <1>3, DoStay DEF a, v, WordPcs

LEMMA GatherLogitsStep ==
  ASSUME NEW script \in Scripts, NEW r \in Rank, Ready(script, r), GatherLogits(r), next' = next
  PROVE  Outcome(script, r)
<1> DEFINE a == View(script, r)
           v == Data(Len(calls[r]))
<1>1. /\ At(r, "gather") /\ Goto(r, "return") /\ NewMsgr(r, msgr[r]) /\ NewModelOf(r, model[r])
      /\ Enter(r, "allgatherv", Len(model[r].workingGroup), None) /\ mode' = mode /\ todo' = todo
  BY DEF GatherLogits, Broadcast, NewMsgr, NewModelOf
<1>2. /\ Here(a, r, "gather") /\ v = Received(r)
      /\ Returned(r) /\ pc[r] # "exited" /\ LeftOf(r, todo[r]) > 0
  BY <1>1, InCall DEF Weight
<1> HIDE DEF a, v
<1>3. After(script, a, v) = V("return", Append(OpsOf(calls[r]), <<"allgatherv", Len(model[r].workingGroup)>>), LeftOf(r, todo[r]), msgr[r], model[r])
  BY <1>1, <1>2 DEF Here, After, ConfigPcs, LoopPcs, PartPcs, BatchPcs, FromBatch, Calls
<1>4. r = 0 => SentAt("return", LeftOf(r, todo[r]), None)
  BY DEF SentAt
<1> QED
  BY <1>1, <1>2, <1>3, <1>4, DoEnter DEF a, v, WordPcs

LEMMA FreeSeqsStep ==
  ASSUME NEW script \in Scripts, NEW r \in Rank, Ready(script, r), FreeSeqs(r), next' = next
  PROVE  Outcome(script, r)
<1> DEFINE a == View(script, r)
           v == Data(Len(calls[r]))
           m == [model[r] EXCEPT !.pool = Freed(model[r].pool, Received(r))]
<1>1. At(r, "freeIDs") /\ Return(r) /\ UNCHANGED commVars /\ NewModelOf(r, m)
  BY DEF FreeSeqs, commVars, NewModelOf
<1>2. /\ Here(a, r, "freeIDs") /\ v = Received(r)
      /\ Returned(r) /\ pc[r] # "exited" /\ LeftOf(r, todo[r]) > 0
  BY <1>1, InCall DEF Weight
<1> HIDE DEF a, v
<1>3. After(script, a, v) = V("next", OpsOf(calls[r]), LeftOf(r, todo[r]) - 1, msgr[r], m)
  BY <1>1, <1>2 DEF Here, After, ConfigPcs, LoopPcs, PartPcs, BatchPcs, FromBatch, Returns
<1> QED
  BY <1>1, <1>2, <1>3, DoReturn DEF a, v

-----------------------------------------------------------------------------
(* The arguments of rank 0, and where it sends them. *)
LEMMA ArgIs ==
  ASSUME NEW script \in Scripts, Ready(script, 0), todo[0] # <<>>, NEW name, name = Name(script, LeftOf(0, todo[0]))
  PROVE  /\ name \in {"generate", "setPrefix", "setInput"} => Arg(0).ids \in Seq(Int)
         /\ name = "generate" => /\ Arg(0).config \in Configuration /\ Arg(0).config.numBeams # 0
                                 /\ Arg(0).stopWords \in Seq(Seq(Int))
<1> DEFINE i == Len(script) - LeftOf(0, todo[0]) + 1
<1>1. i \in 1 .. Len(script) /\ Arg(0) = script[i] /\ Arg(0).call = name
  BY CallIs, RanksAre DEF Arg
<1> HIDE DEF i
<1>2. i \in DOMAIN script
  BY <1>1, ScriptIs
<1>3. /\ script[i].call \in {"generate", "setPrefix", "setInput"} => script[i].ids \in Seq(Int)
      /\ script[i].call = "generate" =>
           /\ script[i].config \in [maxLen : Nat, numBeams : Nat \ {0}, doSample : BOOLEAN]
           /\ script[i].stopWords \in Seq(Seq(Int))
  BY <1>2, ScriptAssumption
<1>4. ASSUME NEW c, c \in [maxLen : Nat, numBeams : Nat \ {0}, doSample : BOOLEAN]
      PROVE  c \in Configuration /\ c.numBeams # 0
  BY <1>4 DEF Configuration
<1> QED
  BY <1>1, <1>3, <1>4

(* The call that a place belongs to. *)
LEMMA NameHere ==
  ASSUME NEW script \in Scripts, NEW r \in Rank, Ready(script, r), pc[r] # "exited"
  PROVE  /\ pc[r] \in ConfigPcs => Name(script, LeftOf(r, todo[r])) = "generate"
         /\ pc[r] = "dim" => Name(script, LeftOf(r, todo[r])) = "setInput"
         /\ pc[r] = "prefixLen" => Name(script, LeftOf(r, todo[r])) = "setPrefix"
<1>1. View(script, r).pc = pc[r] /\ View(script, r).left = LeftOf(r, todo[r]) /\ Sound(script, View(script, r))
  BY HereIs DEF Ready
<1> QED
  BY <1>1, PlaceIs

(* The last collective is the one entered. *)
LEMMA LastEntry ==
  ASSUME NEW c, IsSeq(c), NEW op, NEW count, NEW data, NEW d, d = Append(c, Entry(op, count, data))
  PROVE  d[Len(d)].data = data
<1>1. d[Len(d)] = Entry(op, count, data)
  BY AppendIs
<1> QED
  BY <1>1 DEF Entry

Words == Removed(Arg(0).stopWords)
Sizes(words) == [i \in 1 .. Len(words) |-> Len(words[i])]
(* What rank 0 has sent of the stop words, *)
LEMMA MasterHas ==
  ASSUME NEW script \in Scripts, Ready(script, 0)
  PROVE  /\ pc[0] = "listSize" => Received(0) = Len(Words)
         /\ pc[0] = "wordsSize" => Received(0) = Sizes(Words)
         /\ pc[0] = "wordsData" => Received(0) = FlattenSeq(Words) /\ model[0].wordsSize = Sizes(Words)
<1>1. MasterOf(pc[0], calls[0], todo[0], model[0])
  BY DEF Ready, Master
<1> QED
  BY <1>1 DEF MasterOf, Words, Sizes, Received, Arg

(* and what it will have. *)
LEMMA MasterKnows ==
  ASSUME NEW script \in Scripts, Ready(script, 0), todo[0] # <<>>, NEW p, NEW m, NEW count, NEW data,
         p = "listSize" => data = Len(Words),
         p = "wordsSize" => data = Sizes(Words),
         p = "wordsData" => data = FlattenSeq(Words) /\ m.wordsSize = Sizes(Words),
         p \in WordPcs
  PROVE  MasterOf(p, Append(calls[0], Entry("broadcast", count, data)), todo[0], m)
<1> DEFINE c == Append(calls[0], Entry("broadcast", count, data))
<1>1. IsSeq(calls[0])
  BY RanksAre DEF Ready, Orderly
<1>0. c = Append(calls[0], Entry("broadcast", count, data))
  OBVIOUS
<1> HIDE DEF c
<1>2. c[Len(c)].data = data
  BY <1>0, <1>1, LastEntry
<1>3. MasterOf(p, c, todo[0], m)
  BY <1>2 DEF MasterOf, Words, Sizes, Arg, WordPcs
<1> QED
  BY <1>3 DEF c

LEMMA InputIdsStep ==
  ASSUME NEW script \in Scripts, NEW r \in Rank, Ready(script, r), InputIds(r), next' = next
  PROVE  Outcome(script, r)
<1> DEFINE a == View(script, r)
           v == Data(Len(calls[r]))
           data == IF r = 0 THEN Arg(r).ids ELSE None
<1>1. /\ At(r, "dims") /\ Goto(r, "ids") /\ NewMsgr(r, msgr[r]) /\ NewModelOf(r, model[r])
      /\ Enter(r, "broadcast", Received(r)[2], data) /\ mode' = mode /\ todo' = todo
  BY DEF InputIds, Broadcast, NewMsgr, NewModelOf
<1>2. /\ Here(a, r, "dims") /\ v = Received(r)
      /\ Returned(r) /\ pc[r] # "exited" /\ LeftOf(r, todo[r]) > 0
  BY <1>1, InCall DEF Weight
<1> HIDE DEF a, v
<1>3. After(script, a, v) = V("ids", Append(OpsOf(calls[r]), <<"broadcast", Received(r)[2]>>), LeftOf(r, todo[r]), msgr[r], model[r])
  BY <1>1, <1>2 DEF Here, After, ConfigPcs, FromConfig, Casts, Calls
<1>4. r = 0 => SentAt("ids", LeftOf(r, todo[r]), data)
  <2>1. pc[r] \in ConfigPcs /\ todo[r] # <<>> /\ Name(script, LeftOf(r, todo[r])) = "generate"
    BY <1>1, <1>2, HereIs, NameHere DEF At, ConfigPcs
  <2>2. r = 0 => Arg(r).ids \in Seq(Int)
    BY <2>1, ArgIs
  <2> QED
    BY <2>2 DEF SentAt
<1> QED
  BY <1>1, <1>2, <1>3, <1>4, DoEnter DEF a, v, WordPcs

LEMMA PrefixIdsStep ==
  ASSUME NEW script \in Scripts, NEW r \in Rank, Ready(script, r), PrefixIds(r), next' = next
  PROVE  Outcome(script, r)
<1> DEFINE a == View(script, r)
           v == Data(Len(calls[r]))
           data == IF r = 0 THEN Arg(r).ids ELSE None
<1>1. /\ At(r, "prefixLen") /\ Goto(r, "prefixIds") /\ NewMsgr(r, msgr[r]) /\ NewModelOf(r, model[r])
      /\ Enter(r, "broadcast", Received(r), data) /\ mode' = mode /\ todo' = todo
  BY DEF PrefixIds, Broadcast, NewMsgr, NewModelOf
<1>2. /\ Here(a, r, "prefixLen") /\ v = Received(r)
      /\ Returned(r) /\ pc[r] # "exited" /\ LeftOf(r, todo[r]) > 0
  BY <1>1, InCall DEF Weight
<1> HIDE DEF a, v
<1>3. After(script, a, v) = V("prefixIds", Append(OpsOf(calls[r]), <<"broadcast", Received(r)>>), LeftOf(r, todo[r]), msgr[r], model[r])
  BY <1>1, <1>2 DEF Here, After, ConfigPcs, LoopPcs, PartPcs, BatchPcs, FromBatch, Casts, Calls
<1>4. r = 0 => SentAt("prefixIds", LeftOf(r, todo[r]), data)
  <2>1. pc[r] = "prefixLen" /\ todo[r] # <<>> /\ Name(script, LeftOf(r, todo[r])) = "setPrefix"
    BY <1>1, <1>2, HereIs, NameHere DEF At
  <2>2. r = 0 => Arg(r).ids \in Seq(Int)
    BY <2>1, ArgIs
  <2> QED
    BY <2>2 DEF SentAt
<1> QED
  BY <1>1, <1>2, <1>3, <1>4, DoEnter DEF a, v, WordPcs

LEMMA StopWordsSizeStep ==
  ASSUME NEW script \in Scripts, NEW r \in Rank, Ready(script, r), StopWordsSize(r), next' = next
  PROVE  Outcome(script, r)
<1> DEFINE a == View(script, r)
           v == Data(Len(calls[r]))
           data == IF r = 0 THEN [i \in 1 .. Received(r) |-> Len(Removed(Arg(r).stopWords)[i])] ELSE None
<1>1. /\ At(r, "listSize") /\ Received(r) # 0 /\ Goto(r, "wordsSize") /\ NewMsgr(r, msgr[r]) /\ NewModelOf(r, model[r])
      /\ Enter(r, "broadcast", Received(r), data) /\ mode' = mode /\ todo' = todo
  BY DEF StopWordsSize, Broadcast, NewMsgr, NewModelOf
<1>2. /\ Here(a, r, "listSize") /\ v = Received(r)
      /\ Returned(r) /\ pc[r] # "exited" /\ LeftOf(r, todo[r]) > 0
  BY <1>1, InCall DEF Weight
<1> HIDE DEF a, v
<1>3. After(script, a, v) = V("wordsSize", Append(OpsOf(calls[r]), <<"broadcast", Received(r)>>), LeftOf(r, todo[r]), msgr[r], model[r])
  BY <1>1, <1>2 DEF Here, After, ConfigPcs, FromConfig, Casts, Calls
<1>4. r = 0 => SentAt("wordsSize", LeftOf(r, todo[r]), data)
  BY DEF SentAt
<1>5. r = 0 => MasterOf("wordsSize", Append(calls[r], Entry("broadcast", Received(r), data)), todo[r], model[r])
  <2> SUFFICES ASSUME r = 0
               PROVE  MasterOf("wordsSize", Append(calls[0], Entry("broadcast", Received(0), data)), todo[0], model[0])
    OBVIOUS
  <2>1. todo[0] # <<>> /\ Received(0) = Len(Words)
    BY <1>1, <1>2, HereIs, MasterHas DEF At
  <2>2. data = Sizes(Words)
    BY <2>1 DEF Sizes, Words
  <2> HIDE DEF data
  <2> QED
    BY <2>1, <2>2, MasterKnows DEF WordPcs
<1> QED
  BY <1>1, <1>2, <1>3, <1>4, <1>5, DoEnter DEF a, v, WordPcs

LEMMA StopWordsDataStep ==
  ASSUME NEW script \in Scripts, NEW r \in Rank, Ready(script, r), StopWordsData(r), next' = next
  PROVE  Outcome(script, r)
<1> DEFINE a == View(script, r)
           v == Data(Len(calls[r]))
           data == IF r = 0 THEN FlattenSeq(Removed(Arg(r).stopWords)) ELSE None
           count == SumTo(Received(r), Len(Received(r)))
           m == [model[r] EXCEPT !.wordsSize = Received(r)]
<1>1. /\ At(r, "wordsSize") /\ Goto(r, "wordsData") /\ NewMsgr(r, msgr[r]) /\ NewModelOf(r, m)
      /\ Enter(r, "broadcast", count, data) /\ mode' = mode /\ todo' = todo
  BY DEF StopWordsData, Broadcast, NewMsgr, NewModelOf
<1>2. /\ Here(a, r, "wordsSize") /\ v = Received(r)
      /\ Returned(r) /\ pc[r] # "exited" /\ LeftOf(r, todo[r]) > 0
  BY <1>1, InCall DEF Weight
<1> HIDE DEF a, v
<1>3. After(script, a, v) = V("wordsData", Append(OpsOf(calls[r]), <<"broadcast", count>>), LeftOf(r, todo[r]), msgr[r], m)
  BY <1>1, <1>2 DEF Here, After, ConfigPcs, FromConfig, Calls
<1>4. r = 0 => SentAt("wordsData", LeftOf(r, todo[r]), data)
  BY DEF SentAt
<1>5. r = 0 => MasterOf("wordsData", Append(calls[r], Entry("broadcast", count, data)), todo[r], m)
  <2> SUFFICES ASSUME r = 0
               PROVE  MasterOf("wordsData", Append(calls[0], Entry("broadcast", count, data)), todo[0], m)
    OBVIOUS
  <2>1. todo[0] # <<>> /\ Received(0) = Sizes(Words)
    BY <1>1, <1>2, HereIs, MasterHas DEF At
  <2>2. data = FlattenSeq(Words)
    BY DEF Words
  <2>3. DOMAIN model[r] = DOMAIN NewModel
    BY <1>1, ModelsAre
  <2>4. m.wordsSize = Received(r)
    BY <2>3, ModelFields
  <2> HIDE DEF data, count, m
  <2> QED
    BY <2>1, <2>2, <2>4, MasterKnows DEF WordPcs
<1> QED
  BY <1>1, <1>2, <1>3, <1>4, <1>5, DoEnter DEF a, v, WordPcs

-----------------------------------------------------------------------------
(* The actions that begin a call. *)
LEMMA AtNext ==
  ASSUME NEW script \in Scripts, NEW r \in Rank, Ready(script, r), NEW name, Call(r, name)
  PROVE  /\ pc[r] = "next" /\ pc[r] # "exited" /\ Returned(r) /\ todo[r] # <<>>
         /\ Here(View(script, r), r, "next") /\ Name(script, LeftOf(r, todo[r])) = name
         /\ r = 0 \/ name \notin {"generate", "setInput"} => LeftOf(r, todo[r]) > 0
         /\ LeftOf(r, todo[r]) \in Nat
<1>1. pc[r] = "next" /\ Returned(r) /\ todo[r] # <<>> /\ Head(todo[r]).call = name
  BY DEF Call, At, Arg
<1>2. Here(View(script, r), r, "next") /\ LeftOf(r, todo[r]) \in Nat
  BY <1>1, HereIs DEF Here
<1>3. /\ Name(script, LeftOf(r, todo[r])) = name /\ LeftOf(r, todo[r]) \in 0 .. Len(script)
      /\ r = 0 => LeftOf(r, todo[r]) > 0
  BY <1>1, CallIs
<1>4. LeftOf(r, todo[r]) = 0 => name \in {"generate", "setInput"}
  BY <1>3, NameIs, AgainIs
<1> QED
  BY <1>1, <1>2, <1>3, <1>4

LEMMA PrefixLenStep ==
  ASSUME NEW script \in Scripts, NEW r \in Rank, Ready(script, r), PrefixLen(r), next' = next
  PROVE  Outcome(script, r)
<1> DEFINE a == View(script, r)
           v == Data(Len(calls[r]))
           data == IF r = 0 THEN Len(Arg(r).ids) ELSE 0
<1>1. /\ Call(r, "setPrefix") /\ Goto(r, "prefixLen") /\ NewMsgr(r, msgr[r]) /\ NewModelOf(r, model[r])
      /\ Enter(r, "broadcast", 1, data) /\ mode' = mode /\ todo' = todo
  BY DEF PrefixLen, Broadcast, NewMsgr, NewModelOf
<1>2. /\ Here(a, r, "next") /\ Name(script, LeftOf(r, todo[r])) = "setPrefix"
      /\ Returned(r) /\ pc[r] # "exited" /\ LeftOf(r, todo[r]) > 0
  BY <1>1, AtNext
<1> HIDE DEF a, v
<1>3. After(script, a, v) = V("prefixLen", Append(OpsOf(calls[r]), <<"broadcast", 1>>), LeftOf(r, todo[r]), msgr[r], model[r])
  BY <1>1, <1>2 DEF Here, After, FromNext, Casts, Calls
<1>4. r = 0 => SentAt("prefixLen", LeftOf(r, todo[r]), data)
  BY DEF SentAt
<1> QED
  BY <1>1, <1>2, <1>3, <1>4, DoEnter DEF a, v, WordPcs

LEMMA FreeSizeStep ==
  ASSUME NEW script \in Scripts, NEW r \in Rank, Ready(script, r), FreeSize(r), next' = next
  PROVE  Outcome(script, r)
<1> DEFINE a == View(script, r)
           v == Data(Len(calls[r]))
           data == IF r = 0 THEN Len(Arg(r).seqIDs) ELSE 0
<1>1. /\ Call(r, "freeSeqs") /\ Goto(r, "freeSize") /\ NewMsgr(r, msgr[r]) /\ NewModelOf(r, model[r])
      /\ Enter(r, "broadcast", 1, data) /\ mode' = mode /\ todo' = todo
  BY DEF FreeSize, Broadcast, NewMsgr, NewModelOf
<1>2. /\ Here(a, r, "next") /\ Name(script, LeftOf(r, todo[r])) = "freeSeqs"
      /\ Returned(r) /\ pc[r] # "exited" /\ LeftOf(r, todo[r]) > 0
  BY <1>1, AtNext
<1> HIDE DEF a, v
<1>3. After(script, a, v) = V("freeSize", Append(OpsOf(calls[r]), <<"broadcast", 1>>), LeftOf(r, todo[r]), msgr[r], model[r])
  BY <1>1, <1>2 DEF Here, After, FromNext, Casts, Calls
<1>4. r = 0 => SentAt("freeSize", LeftOf(r, todo[r]), data)
  BY DEF SentAt
<1> QED
  BY <1>1, <1>2, <1>3, <1>4, DoEnter DEF a, v, WordPcs

LEMMA UnsetPrefixStep ==
  ASSUME NEW script \in Scripts, NEW r \in Rank, Ready(script, r), UnsetPrefix(r), next' = next
  PROVE  Outcome(script, r)
<1> DEFINE a == View(script, r)
           v == Data(Len(calls[r]))
           m == [model[r] EXCEPT !.prefix = <<>>]
<1>1. Call(r, "unsetPrefix") /\ Return(r) /\ UNCHANGED commVars /\ NewModelOf(r, m)
  BY DEF UnsetPrefix, commVars, NewModelOf
<1>2. /\ Here(a, r, "next") /\ Name(script, LeftOf(r, todo[r])) = "unsetPrefix"
      /\ Returned(r) /\ pc[r] # "exited" /\ LeftOf(r, todo[r]) > 0
  BY <1>1, AtNext
<1> HIDE DEF a, v
<1>3. After(script, a, v) = V("next", OpsOf(calls[r]), LeftOf(r, todo[r]) - 1, msgr[r], m)
  BY <1>1, <1>2 DEF Here, After, FromNext, Returns
<1> QED
  BY <1>1, <1>2, <1>3, DoReturn DEF a, v

LEMMA ForwardStep ==
  ASSUME NEW script \in Scripts, NEW r \in Rank, Ready(script, r), Forward(r), next' = next
  PROVE  Outcome(script, r)
<1> DEFINE a == View(script, r)
           v == Data(Len(calls[r]))
<1>1. /\ Call(r, "forward") /\ Goto(r, "reduceAdd") /\ NewMsgr(r, Begun(msgr[r], 2 * Layers, Len(model[r].inputIds), "gather")) /\ NewModelOf(r, model[r])
      /\ calls' = calls /\ mode' = mode /\ todo' = todo
  BY DEF Forward, commVars, NewMsgr, NewModelOf, BeginReduce
<1>2. /\ Here(a, r, "next") /\ Name(script, LeftOf(r, todo[r])) = "forward"
      /\ Returned(r) /\ pc[r] # "exited" /\ LeftOf(r, todo[r]) > 0
  BY <1>1, AtNext
<1> HIDE DEF a, v
<1>3. After(script, a, v) = V("reduceAdd", OpsOf(calls[r]), LeftOf(r, todo[r]), Begun(msgr[r], 2 * Layers, Len(model[r].inputIds), "gather"), model[r])
  BY <1>1, <1>2 DEF Here, After, FromNext, Reduces
<1> QED
  BY <1>1, <1>2, <1>3, DoStay DEF a, v, WordPcs

LEMMA FreeIDsStep ==
  ASSUME NEW script \in Scripts, NEW r \in Rank, Ready(script, r), FreeIDs(r), next' = next
  PROVE  Outcome(script, r)
<1> DEFINE a == View(script, r)
           v == Data(Len(calls[r]))
           data == IF r = 0 THEN Arg(r).seqIDs ELSE None
<1>1. /\ At(r, "freeSize") /\ mode' = mode /\ NewMsgr(r, msgr[r]) /\ NewModelOf(r, model[r])
      /\ IF Received(r) = 0 THEN Return(r) /\ calls' = calls
         ELSE Enter(r, "broadcast", Received(r), data) /\ Goto(r, "freeIDs") /\ todo' = todo
      /\ msgr' = msgr /\ lost' = lost
  BY DEF FreeIDs, Broadcast, NewMsgr, NewModelOf
<1>2. /\ Here(a, r, "freeSize") /\ v = Received(r)
      /\ Returned(r) /\ pc[r] # "exited" /\ LeftOf(r, todo[r]) > 0
  BY <1>1, InCall DEF Weight
<1> HIDE DEF a, v
<1>3. CASE Received(r) = 0
  <2>1. After(script, a, v) = V("next", OpsOf(calls[r]), LeftOf(r, todo[r]) - 1, msgr[r], model[r])
    BY <1>2, <1>3 DEF Here, After, ConfigPcs, LoopPcs, PartPcs, BatchPcs, FromBatch, Returns
  <2> QED
    BY <1>1, <1>2, <1>3, <2>1, DoReturn DEF a, v, commVars
<1>4. CASE Received(r) # 0
  <2>1. After(script, a, v) =
          V("freeIDs", Append(OpsOf(calls[r]), <<"broadcast", Received(r)>>), LeftOf(r, todo[r]), msgr[r], model[r])
    BY <1>2, <1>4 DEF Here, After, ConfigPcs, LoopPcs, PartPcs, BatchPcs, FromBatch, Casts, Calls
  <2>2. SentAt("freeIDs", LeftOf(r, todo[r]), data)
    BY DEF SentAt
  <2> HIDE DEF data
  <2> QED
    BY <1>1, <1>2, <1>4, <2>1, <2>2, DoEnter DEF a, v, WordPcs
<1> QED
  BY <1>3, <1>4

LEMMA SearchStep ==
  ASSUME NEW script \in Scripts, NEW r \in Rank, Ready(script, r), Search(r), next' = next
  PROVE  Outcome(script, r)
<1> DEFINE a == View(script, r)
           v == Data(Len(calls[r]))
           count == 2 * model[r].configuration.numBeams
           p == SearchPc(model[r])
           m == SearchModel(model[r])
<1>1. At(r, "search") /\ mode' = mode /\ todo' = todo /\ Enter(r, "allgatherv", count, None) /\ NewMsgr(r, msgr[r])
  BY DEF Search, NewMsgr
<1>2. Goto(r, p) /\ NewModelOf(r, m)
  BY DEF Search, SearchPc, SearchModel, NewModelOf
<1>3. /\ Here(a, r, "search")
      /\ Returned(r) /\ pc[r] # "exited" /\ LeftOf(r, todo[r]) > 0
  BY <1>1, InCall
<1>4. p \in {"search", "sample", "picked"}
  BY DEF SearchPc
<1> HIDE DEF a, v
<1>5. After(script, a, v) = V(p, Append(OpsOf(calls[r]), <<"allgatherv", count>>), LeftOf(r, todo[r]), msgr[r], m)
  BY <1>3 DEF Here, After, ConfigPcs, LoopPcs, FromLoop, Calls
<1> HIDE DEF count, p, m
<1>6. SentAt(p, LeftOf(r, todo[r]), None) /\ p \notin {"configured", "exited"} /\ p \notin WordPcs
  BY <1>4 DEF SentAt, WordPcs
<1> QED
  BY <1>1, <1>2, <1>3, <1>5, <1>6, DoEnter DEF a, v

LEMMA PickedStep ==
  ASSUME NEW script \in Scripts, NEW r \in Rank, Ready(script, r), Picked(r), next' = next
  PROVE  Outcome(script, r)
<1> DEFINE a == View(script, r)
           v == Data(Len(calls[r]))
           token == NextToken(r)
           m == Stepped(model[r], token)
<1>1. /\ Goto(r, "loop") /\ NewMsgr(r, msgr[r]) /\ NewModelOf(r, m)
      /\ calls' = calls /\ mode' = mode /\ todo' = todo
  BY DEF Picked, commVars, NewMsgr, NewModelOf
<1>2. PICK label \in {"picked", "drawn"} : At(r, label)
  BY DEF Picked
<1>3. /\ Here(a, r, label) /\ v = Received(r) /\ pc[r] = label
      /\ Returned(r) /\ pc[r] # "exited" /\ LeftOf(r, todo[r]) > 0
  BY <1>2, InCall DEF Weight
<1> HIDE DEF a, v
<1>4. token = IF label = "drawn" THEN v ELSE Largest(model[r])
  BY <1>3 DEF NextToken
<1> HIDE DEF token
<1>5. After(script, a, v) = V("loop", OpsOf(calls[r]), LeftOf(r, todo[r]), msgr[r], m)
  BY <1>2, <1>3, <1>4 DEF Here, After, ConfigPcs, LoopPcs, FromLoop, ThenWith
<1> HIDE DEF m
<1> QED
  BY <1>1, <1>3, <1>5, DoStay DEF a, v, WordPcs

LEMMA SetInputPartStep ==
  ASSUME NEW script \in Scripts, NEW r \in Rank, Ready(script, r), SetInputPart(r), next' = next
  PROVE  Outcome(script, r)
<1> DEFINE a == View(script, r)
           v == Data(Len(calls[r]))
<1>1. PICK p \in 1 .. 4 :
        /\ At(r, Parts[p])
        /\ Set(r, Taken(model[r], Parts[p], Received(r)))
        /\ LET q == NextPart(model[r], p) IN
             IF q = 0 THEN Goto(r, "group") /\ UNCHANGED calls
             ELSE /\ Broadcast(r, IF r = 0 THEN Arg(r)[Parts[q]] ELSE None, model[r].dims[q])
                  /\ Goto(r, Parts[q])
        /\ UNCHANGED <<mode, msgr, todo>>
  BY DEF SetInputPart
<1> DEFINE label == Parts[p]
           q == NextPart(model[r], p)
           m == Taken(model[r], label, Received(r))
           data == IF r = 0 THEN Arg(r)[Parts[q]] ELSE None
<1>2. label \in PartPcs /\ PartOf(label) = p
  BY PartsAre DEF PartPcs, PartOf
<1>3. At(r, label) /\ NewModelOf(r, m) /\ NewMsgr(r, msgr[r]) /\ mode' = mode /\ todo' = todo
  BY <1>1 DEF NewModelOf, NewMsgr
<1>4. /\ q = 0 => Goto(r, "group") /\ calls' = calls
      /\ q # 0 => Enter(r, "broadcast", model[r].dims[q], data) /\ Goto(r, Parts[q])
  BY <1>1 DEF Broadcast
<1>5. q \in {0, 2, 3, 4}
  BY NextPartIs
<1> HIDE DEF a, v, label, q, m, data
<1>6. /\ Here(a, r, label) /\ v = Received(r)
      /\ Returned(r) /\ pc[r] # "exited" /\ LeftOf(r, todo[r]) > 0
  <2>1. label \notin {"next", "exited", "configured", "dim"} /\ Weight(label) = 0
    BY <1>2 DEF PartPcs, Weight
  <2> QED
    BY <1>3, <2>1, InCall DEF a, v
<1>7. After(script, a, v) = FromPart(a, v)
  BY <1>2, <1>6 DEF Here, After, ConfigPcs, LoopPcs, PartPcs
<1>8. FromPart(a, v) = IF q = 0 THEN ThenWith(a, "group", m)
                       ELSE Calls(a, "broadcast", model[r].dims[q], Parts[q], m)
  BY <1>2, <1>6 DEF FromPart, Here, q, m
<1>9. CASE q = 0
  <2>1. After(script, a, v) = V("group", OpsOf(calls[r]), LeftOf(r, todo[r]), msgr[r], m)
    BY <1>6, <1>7, <1>8, <1>9 DEF Here, ThenWith
  <2> QED
    BY <1>3, <1>4, <1>6, <1>9, <2>1, DoStay DEF a, v, WordPcs
<1>10. CASE q # 0
  <2> DEFINE to == Parts[q]
             count == model[r].dims[q]
  <2>1. to \in {"seqLens", "seqIDs", "maxLen"}
    BY <1>5, <1>10, PartsAre
  <2>2. After(script, a, v) = V(to, Append(OpsOf(calls[r]), <<"broadcast", count>>), LeftOf(r, todo[r]), msgr[r], m)
    BY <1>6, <1>7, <1>8, <1>10 DEF Here, Calls
  <2>3. Enter(r, "broadcast", count, data) /\ Goto(r, to)
    BY <1>4, <1>10
  <2> HIDE DEF to, count
  <2>4. SentAt(to, LeftOf(r, todo[r]), data) /\ to \notin {"configured", "exited"} /\ to \notin WordPcs
    BY <2>1 DEF SentAt, WordPcs
  <2> QED
    BY <1>3, <1>6, <2>2, <2>3, <2>4, DoEnter DEF a, v
<1> QED
  BY <1>9, <1>10

-----------------------------------------------------------------------------
(* Messenger::reduceAdd. *)
LEMMA ReduceIs ==
  ASSUME NEW a, a.pc \in ReducePcs, NEW script, NEW v
  PROVE  After(script, a, v) = FromReduce(a, v)
BY DEF After, ConfigPcs, LoopPcs, PartPcs, BatchPcs, ReducePcs

LEMMA MsgrIs ==
  ASSUME NEW script, NEW r, Ready(script, r), NEW label, Here(View(script, r), r, label)
  PROVE  msgr[r].shmSize \in Int /\ msgr[r].count \in Int
<1>1. SoundMessengerOf(label, OpsOf(calls[r]), msgr[r])
  BY DEF Ready, Sound, SoundMessenger, Here
<1> QED
  BY <1>1 DEF SoundMessengerOf

LEMMA ResizeStep ==
  ASSUME NEW script \in Scripts, NEW r \in Rank, Ready(script, r), Resize(r), UNCHANGED <<todo, model, next>>
  PROVE  Outcome(script, r)
<1> DEFINE a == View(script, r)
           v == Data(Len(calls[r]))
           g == [msgr[r] EXCEPT !.shmSize = msgr[r].count]
<1>1. /\ At(r, "reduceAdd") /\ Tuning /\ msgr[r].count > msgr[r].shmSize /\ Goto(r, "resized") /\ NewMsgr(r, g) /\ NewModelOf(r, model[r])
      /\ calls' = calls /\ mode' = mode /\ todo' = todo
  BY DEF Resize, Resizing, NewMsgr, NewModelOf
<1>2. /\ Here(a, r, "reduceAdd")
      /\ Returned(r) /\ pc[r] # "exited" /\ LeftOf(r, todo[r]) > 0
  BY <1>1, InCall DEF Weight
<1> HIDE DEF a, v
<1>3. After(script, a, v) = V("resized", OpsOf(calls[r]), LeftOf(r, todo[r]), g, model[r])
  BY <1>1, <1>2 DEF Here, After, ConfigPcs, LoopPcs, PartPcs, BatchPcs, FromReduce, Resizes
<1> QED
  BY <1>1, <1>2, <1>3, DoStay DEF a, v, WordPcs

LEMMA TimedStep ==
  ASSUME NEW script \in Scripts, NEW r \in Rank, Ready(script, r), Timed(r), UNCHANGED <<todo, model, next>>
  PROVE  Outcome(script, r)
<1> DEFINE a == View(script, r)
           v == Data(Len(calls[r]))
<1>0. PICK data \in CommTypes(r) : Enter(r, "broadcast", 1, data)
  BY DEF Timed, Broadcast
<1>1. /\ At(r, "timed") /\ Goto(r, "typed") /\ NewMsgr(r, msgr[r]) /\ NewModelOf(r, model[r])
      /\ Enter(r, "broadcast", 1, data) /\ mode' = mode /\ todo' = todo
  BY <1>0 DEF Timed, NewMsgr, NewModelOf
<1>2. /\ Here(a, r, "timed") /\ v = Received(r)
      /\ Returned(r) /\ pc[r] # "exited" /\ LeftOf(r, todo[r]) > 0
  BY <1>1, InCall DEF Weight
<1> HIDE DEF a, v
<1>3. After(script, a, v) = V("typed", Append(OpsOf(calls[r]), <<"broadcast", 1>>), LeftOf(r, todo[r]), msgr[r], model[r])
  BY <1>1, <1>2 DEF Here, After, ConfigPcs, LoopPcs, PartPcs, BatchPcs, FromReduce, Casts, Calls
<1>4. r = 0 => SentAt("typed", LeftOf(r, todo[r]), data)
  BY DEF SentAt
<1> QED
  BY <1>1, <1>2, <1>3, <1>4, DoEnter DEF a, v, WordPcs

LEMMA TypedStep ==
  ASSUME NEW script \in Scripts, NEW r \in Rank, Ready(script, r), Typed(r), UNCHANGED <<todo, model, next>>
  PROVE  Outcome(script, r)
<1> DEFINE a == View(script, r)
           v == Data(Len(calls[r]))
<1>1. /\ At(r, "typed") /\ Goto(r, "tuned") /\ NewMsgr(r, Learnt(msgr[r], Received(r))) /\ NewModelOf(r, model[r])
      /\ calls' = calls /\ mode' = mode /\ todo' = todo
  BY DEF Typed, commVars, NewMsgr, NewModelOf, CommType, Learnt
<1>2. /\ Here(a, r, "typed") /\ v = Received(r)
      /\ Returned(r) /\ pc[r] # "exited" /\ LeftOf(r, todo[r]) > 0
  BY <1>1, InCall DEF Weight
<1> HIDE DEF a, v
<1>3. After(script, a, v) = V("tuned", OpsOf(calls[r]), LeftOf(r, todo[r]), Learnt(msgr[r], Received(r)), model[r])
  BY <1>1, <1>2 DEF Here, After, ConfigPcs, LoopPcs, PartPcs, BatchPcs, FromReduce
<1> QED
  BY <1>1, <1>2, <1>3, DoStay DEF a, v, WordPcs

LEMMA TuneStep ==
  ASSUME NEW script \in Scripts, NEW r \in Rank, Ready(script, r), Tune(r), UNCHANGED <<todo, model, next>>
  PROVE  Outcome(script, r)
<1> DEFINE a == View(script, r)
           v == Data(Len(calls[r]))
           k == msgr[r]
           g == [k EXCEPT !.run = k.run + 1]
           p == IF k.run + 1 < TuneSteps(k) THEN "tune" ELSE "timed"
           op == IF k.run < TuneRuns THEN "shm" ELSE "allreduce"
<1>1. /\ Goto(r, p) /\ NewMsgr(r, g) /\ NewModelOf(r, model[r]) /\ mode' = mode /\ todo' = todo
      /\ Enter(r, op, k.count, "commBuf") /\ k.count \notin DOMAIN k.tuned /\ next' = next
  BY DEF Tune, TuneSteps, NewMsgr, NewModelOf
<1>2. PICK label \in {"reduceAdd", "resized", "tune"} :
        At(r, label) /\ (label # "tune" => Tuning /\ (label = "reduceAdd" => k.count <= k.shmSize))
  BY DEF Tune, Fits, At
<1>3. /\ Here(a, r, label)
      /\ Returned(r) /\ pc[r] # "exited" /\ LeftOf(r, todo[r]) > 0
  BY <1>2, InCall
<1>4. k.count \in Int /\ k.shmSize \in Int
  BY <1>3, MsgrIs
<1>5. p \in {"tune", "timed"}
  OBVIOUS
<1> HIDE DEF a, v
<1>6. a.pc = label /\ a.msgr = k /\ a.ops = OpsOf(calls[r]) /\ a.left = LeftOf(r, todo[r]) /\ a.model = model[r]
  BY <1>3 DEF Here
<1> HIDE DEF k
<1>7. ~Resizes(a)
  BY <1>2, <1>4, <1>6 DEF Resizes
<1>8. Tunes(a)
  BY <1>1, <1>2, <1>6 DEF Tunes
<1>9. After(script, a, v) = FromReduce(a, v)
  BY <1>2, <1>6, ReduceIs DEF ReducePcs
<1>10. FromReduce(a, v) = V(p, Append(OpsOf(calls[r]), <<op, k.count>>), LeftOf(r, todo[r]), g, model[r])
  BY <1>2, <1>6, <1>7, <1>8 DEF FromReduce
<1> HIDE DEF p, g, op
<1>11. SentAt(p, LeftOf(r, todo[r]), "commBuf") /\ p \notin {"configured", "exited"} /\ p \notin WordPcs
  BY <1>5 DEF SentAt, WordPcs
<1> QED
  BY <1>1, <1>3, <1>9, <1>10, <1>11, DoEnter DEF a, v

LEMMA ReduceStep ==
  ASSUME NEW script \in Scripts, NEW r \in Rank, Ready(script, r), Reduce(r), UNCHANGED <<todo, model, next>>
  PROVE  Outcome(script, r)
<1> DEFINE a == View(script, r)
           v == Data(Len(calls[r]))
           k == msgr[r]
           g == [k EXCEPT !.left = k.left - 1, !.run = 0]
           p == IF k.left = 1 THEN k.ret ELSE "reduceAdd"
           op == UserOp(k)
<1>1. Goto(r, p) /\ NewMsgr(r, g) /\ NewModelOf(r, model[r]) /\ mode' = mode /\ todo' = todo /\ next' = next
  BY DEF Reduce, NewMsgr, NewModelOf
<1>2. PICK label \in {"reduceAdd", "resized", "tuned"} :
        /\ At(r, label) /\ Enter(r, op, k.count, "user")
        /\ \/ Tuning /\ k.count \in DOMAIN k.tuned /\ (label = "reduceAdd" => k.count <= k.shmSize)
           \/ ~Tuning /\ label = "reduceAdd"
  BY DEF Reduce, Fits, At, UserOp, BaseOp
<1>3. /\ Here(a, r, label)
      /\ Returned(r) /\ pc[r] # "exited" /\ LeftOf(r, todo[r]) > 0
  BY <1>2, InCall
<1>4. k.count \in Int /\ k.shmSize \in Int /\ k.ret \in {"search", "return", "gather"}
  <2>1. SoundMessengerOf(label, OpsOf(calls[r]), k)
    BY <1>3 DEF Ready, Sound, SoundMessenger, Here
  <2>2. label \in ReducePcs
    BY DEF ReducePcs
  <2> QED
    BY <2>1, <2>2 DEF SoundMessengerOf
<1>5. p \in {"search", "return", "gather", "reduceAdd"}
  BY <1>4
<1> HIDE DEF a, v
<1>6. a.pc = label /\ a.msgr = k /\ a.ops = OpsOf(calls[r]) /\ a.left = LeftOf(r, todo[r]) /\ a.model = model[r]
  BY <1>3 DEF Here
<1> HIDE DEF k
<1>7. ~Resizes(a)
  BY <1>2, <1>4, <1>6 DEF Resizes
<1>8. ~Tunes(a)
  BY <1>2, <1>6 DEF Tunes
<1>9. After(script, a, v) = FromReduce(a, v)
  BY <1>2, <1>6, ReduceIs DEF ReducePcs
<1>10. FromReduce(a, v) = V(p, Append(OpsOf(calls[r]), <<op, k.count>>), LeftOf(r, todo[r]), g, model[r])
  BY <1>2, <1>6, <1>7, <1>8 DEF FromReduce
<1> HIDE DEF p, g, op
<1>11. SentAt(p, LeftOf(r, todo[r]), "user") /\ p \notin {"configured", "exited"} /\ p \notin WordPcs
  BY <1>5 DEF SentAt, WordPcs
<1> QED
  BY <1>1, <1>2, <1>3, <1>9, <1>10, <1>11, DoEnter DEF a, v

-----------------------------------------------------------------------------
(* The steps in which the ranks learn whether there is one more call.      *)
LEMMA OutcomeEnters ==
  ASSUME NEW script \in Scripts, NEW r \in Rank, Ready(script, r), Returned(r),
         NEW op, NEW count, NEW data, NEW p, NEW m,
         Goto(r, p), NewModelOf(r, m), Enter(r, op, count, data),
         UNCHANGED <<todo, msgr, mode, next>>,
         V(PcOf(script, r, p), Append(OpsOf(calls[r]), <<op, count>>), LeftOf(r, todo[r]), msgr[r],
           ModelOf(LeftOf(r, todo[r]), p, m)) = After(script, View(script, r), Data(Len(calls[r]))),
         r = 0 => SentAt(PcOf(script, r, p), LeftOf(r, todo[r]), data),
         p \notin WordPcs, todo[r] # <<>> \/ p = "exited"
  PROVE  Outcome(script, r)
<1> DEFINE e == Entry(op, count, data)
           c == Append(calls[r], e)
           b == ViewOf(script, r, p, c, todo[r], msgr[r], m)
<1>1. IsSeq(calls[r]) /\ Len(calls[r]) <= Len(calls[0]) /\ Domains /\ Rest(Full(script, r), todo[r])
  BY LengthsAre DEF Ready, Orderly
<1>2. Put(pc, pc', r, p) /\ Put(msgr, msgr', r, msgr[r]) /\ Put(model, model', r, m)
  BY <1>1, PutsOthers DEF NewMsgr
<1>3. Put(calls, calls', r, c)
  BY <1>1, PutExcept DEF Domains, Enter, Entry
<1>4. Put(todo, todo', r, todo[r])
  BY <1>1, PutExcept DEF Domains
<1>5. Moves(r, p, c, todo[r], msgr[r], m)
  BY <1>2, <1>3, <1>4 DEF Moves
<1>6. b = V(PcOf(script, r, p), Append(OpsOf(calls[r]), <<op, count>>), LeftOf(r, todo[r]), msgr[r],
            ModelOf(LeftOf(r, todo[r]), p, m))
  BY <1>1, OpsAppend DEF ViewOf
<1>7. b.pc = PcOf(script, r, p) /\ b.left = LeftOf(r, todo[r]) /\ e.data = data
  BY <1>6 DEF V, Entry
<1>8. IsSeq(c)
  BY <1>1, AppendIs
<1>9. MasterOf(p, c, todo[r], m)
  BY MasterIs
<1>10. r = 0 => Sent(b, e.data)
  BY <1>7 DEF Sent
<1> HIDE DEF b, e
<1>11. r = 0 => \E x : c = Append(calls[0], x) /\ Sent(b, x.data)
  BY <1>10
<1>12. b = After(script, View(script, r), Data(Len(calls[r])))
  BY <1>6
<1> HIDE DEF c
<1> QED
  BY <1>1, <1>5, <1>8, <1>9, <1>11, <1>12, OutcomeOf DEF b

LEMMA ConfigStep ==
  ASSUME NEW script \in Scripts, NEW r \in Rank, Ready(script, r), Config(r), next' = next
  PROVE  Outcome(script, r)
<1> DEFINE a == View(script, r)
           v == Data(Len(calls[r]))
           l == LeftOf(r, todo[r])
           conf == IF r = 0 THEN Arg(r).config ELSE model[r].configuration
           m == [model[r] EXCEPT !.isNewInput = TRUE, !.configuration = conf]
           data == model'[r].configuration
<1>1. /\ Call(r, "generate") /\ Set(r, m) /\ Enter(r, "broadcast", ConfigInts, data) /\ Goto(r, "configured")
      /\ UNCHANGED <<todo, msgr, mode, next>>
  BY DEF Config, Broadcast
<1>2. /\ pc[r] = "next" /\ Here(a, r, "next") /\ Name(script, l) = "generate" /\ Returned(r) /\ todo[r] # <<>>
      /\ l \in Nat /\ (r = 0 => l > 0 /\ l # 0)
  BY <1>1, AtNext
<1>3. Sound(script, a)
  BY DEF Ready
<1>4. DOMAIN model[r] = DOMAIN NewModel
  BY <1>2, <1>3, ModelSame DEF Here
<1>5. r = 0 => data = conf /\ conf \in Configuration /\ conf.numBeams # 0
  <2> SUFFICES ASSUME r = 0 PROVE data = conf /\ conf \in Configuration /\ conf.numBeams # 0
    OBVIOUS
  <2>1. conf \in Configuration /\ conf.numBeams # 0
    BY <1>2, ArgIs
  <2> HIDE DEF conf
  <2>2. model'[r] = m
    <3>1. DOMAIN model = Rank
      BY DEF Ready, Domains
    <3> QED
      BY <1>1, <3>1 DEF Set
  <2>3. m.configuration = conf
    BY <1>4, ModelFields
  <2> QED
    BY <2>1, <2>2, <2>3
<1>6. Pending(m) = [model[r] EXCEPT !.isNewInput = TRUE, !.configuration = None]
  <2> HIDE DEF conf
  <2> QED
    BY <1>4, ModelFields DEF Pending
<1> DEFINE w == IF l = 0 THEN NewModel ELSE [model[r] EXCEPT !.isNewInput = TRUE, !.configuration = None]
<1>7. ModelOf(l, "configured", m) = w
  BY <1>6 DEF ModelOf
<1> HIDE DEF a, v, m, data, l
<1>8. After(script, a, v) = V("configured", Append(OpsOf(calls[r]), <<"broadcast", ConfigInts>>), l, msgr[r], w)
  BY <1>2 DEF Here, After, FromNext, Calls, l
<1>9. PcOf(script, r, "configured") = "configured"
  BY DEF PcOf
<1>10. r = 0 => SentAt("configured", l, data)
  BY <1>2, <1>5 DEF SentAt
<1> HIDE DEF w
<1>11. V(PcOf(script, r, "configured"), Append(OpsOf(calls[r]), <<"broadcast", ConfigInts>>), l, msgr[r],
         ModelOf(l, "configured", m)) = After(script, a, v)
  BY <1>7, <1>8, <1>9
<1> QED
  BY <1>1, <1>2, <1>9, <1>10, <1>11, OutcomeEnters DEF a, v, l, NewModelOf, WordPcs

LEMMA SetInputDimStep ==
  ASSUME NEW script \in Scripts, NEW r \in Rank, Ready(script, r), SetInputDim(r), next' = next
  PROVE  Outcome(script, r)
<1> DEFINE a == View(script, r)
           v == Data(Len(calls[r]))
           l == LeftOf(r, todo[r])
           data == IF r = 0
                   THEN <<Len(Arg(r).ids), Len(Arg(r).seqLens), Len(Arg(r).seqIDs), Len(Arg(r).maxLen)>>
                   ELSE <<0, 0, 0, 0>>
           w == IF l = 0 THEN NewModel ELSE model[r]
<1>1. /\ Call(r, "setInput") /\ NewModelOf(r, model[r]) /\ Enter(r, "broadcast", 4, data) /\ Goto(r, "dim")
      /\ UNCHANGED <<todo, msgr, mode, next>>
  BY DEF SetInputDim, Broadcast, NewModelOf
<1>2. /\ pc[r] = "next" /\ Here(a, r, "next") /\ Name(script, l) = "setInput" /\ Returned(r) /\ todo[r] # <<>>
      /\ l \in Nat /\ (r = 0 => l > 0 /\ l # 0)
  BY <1>1, AtNext
<1>3. r = 0 => data[1] \in Int /\ data[1] >= 0
  <2>1. r = 0 => Arg(r).ids \in Seq(Int)
    BY <1>2, ArgIs
  <2>2. r = 0 => data[1] = Len(Arg(r).ids)
    OBVIOUS
  <2> HIDE DEF data
  <2> QED
    BY <2>1, <2>2
<1> HIDE DEF a, v, data, l
<1>4. After(script, a, v) = V("dim", Append(OpsOf(calls[r]), <<"broadcast", 4>>), l, msgr[r], w)
  BY <1>2 DEF Here, After, FromNext, Calls, l
<1>5. PcOf(script, r, "dim") = "dim" /\ ModelOf(l, "dim", model[r]) = w
  BY DEF PcOf, ModelOf
<1>6. r = 0 => SentAt("dim", l, data)
  BY <1>2, <1>3 DEF SentAt
<1> HIDE DEF w
<1>7. V(PcOf(script, r, "dim"), Append(OpsOf(calls[r]), <<"broadcast", 4>>), l, msgr[r],
        ModelOf(l, "dim", model[r])) = After(script, a, v)
  BY <1>4, <1>5
<1> QED
  BY <1>1, <1>2, <1>5, <1>6, <1>7, OutcomeEnters DEF a, v, l, WordPcs

LEMMA ExitSlavesStep ==
  ASSUME NEW script \in Scripts, NEW r \in Rank, Ready(script, r), ExitSlaves(r), next' = next
  PROVE  Outcome(script, r)
<1> DEFINE a == View(script, r)
           v == Data(Len(calls[r]))
           l == LeftOf(r, todo[r])
           data == IF model[r].searcher THEN [model[r].configuration EXCEPT !.numBeams = 0] ELSE <<-1, -1, -1, -1>>
           count == IF model[r].searcher THEN ConfigInts ELSE 4
<1>1. /\ At(r, "next") /\ todo[r] = <<>> /\ r = 0 /\ NewModelOf(r, model[r])
      /\ Enter(r, "broadcast", count, data) /\ Goto(r, "exited")
      /\ UNCHANGED <<todo, msgr, mode, next>>
  BY DEF ExitSlaves, Broadcast, NewModelOf
<1>2. l = 0
  BY <1>1 DEF LeftOf
<1>3. Returned(r) /\ Here(a, r, "next")
  BY <1>1, HereIs DEF Here, At
<1>4. SoundModelOf(script, "next", l, model[r])
  BY <1>3 DEF Ready, Sound, SoundModel, Here
<1>5. model[r].searcher <=> Generates(script)
  <2>1. Len(script) \in Nat /\ DOMAIN script = 1 .. Len(script)
    BY ScriptIs
  <2>2. Len(script) - l = Len(script)
    BY <1>2, <2>1
  <2>3. \A i \in 1 .. Len(script) : script[i].call = "generate" => model[r].searcher
    BY <1>4, <2>2 DEF SoundModelOf
  <2>4. model[r].searcher => Generates(script)
    BY <1>4 DEF SoundModelOf
  <2> QED
    BY <2>1, <2>3, <2>4 DEF Generates
<1>6. model[r].configuration \in Configuration
  BY <1>4 DEF SoundModelOf
<1> DEFINE p == LoopLabel(script)
<1>7. /\ p = IF model[r].searcher THEN "configured" ELSE "dim"
      /\ Name(script, l) = IF model[r].searcher THEN "generate" ELSE "setInput"
  BY <1>2, <1>5, AgainIs DEF Name
<1>8. PcOf(script, r, "exited") = p /\ ModelOf(l, "exited", model[r]) = NewModel
  BY <1>1, <1>2 DEF PcOf, ModelOf
<1>9. SentAt(p, l, data)
  <2>1. CASE model[r].searcher
    <3>1. data = [model[r].configuration EXCEPT !.numBeams = 0] /\ p = "configured"
      BY <1>7, <2>1
    <3>2. data.numBeams = 0
      BY <1>6, <3>1 DEF Configuration
    <3> HIDE DEF data, p
    <3> QED
      BY <1>2, <3>1, <3>2 DEF SentAt
  <2>2. CASE ~model[r].searcher
    <3>1. data = <<-1, -1, -1, -1>> /\ p = "dim"
      BY <1>7, <2>2
    <3>2. data[1] \in Int /\ data[1] < 0
      BY <3>1
    <3> HIDE DEF data, p
    <3> QED
      BY <1>2, <3>1, <3>2 DEF SentAt
  <2> QED
    BY <2>1, <2>2
<1> HIDE DEF a, v, data, l, p, NewModel
<1>10. After(script, a, v) = V(p, Append(OpsOf(calls[r]), <<"broadcast", count>>), l, msgr[r], NewModel)
  <2>1. After(script, a, v) = FromNext(script, a) /\ a.left = l /\ a.ops = OpsOf(calls[r]) /\ a.msgr = msgr[r]
    BY <1>3 DEF Here, After, l
  <2>2. CASE model[r].searcher
    BY <1>2, <1>7, <2>1, <2>2 DEF FromNext, Calls
  <2>3. CASE ~model[r].searcher
    BY <1>2, <1>7, <2>1, <2>3 DEF FromNext, Calls
  <2> QED
    BY <2>2, <2>3
<1> HIDE DEF count
<1> QED
  BY <1>1, <1>3, <1>8, <1>9, <1>10, OutcomeEnters DEF a, v, l, WordPcs

(* A rank that is told to exit. *)
LEMMA OutcomeExits ==
  ASSUME NEW script \in Scripts, NEW r \in Rank, Ready(script, r), NEW label \in {"configured", "dim"},
         At(r, label), r # 0, LeftOf(r, todo[r]) = 0, Goto(r, "exited"), UNCHANGED <<commVars, todo, model, next>>
  PROVE  Outcome(script, r)
<1> DEFINE a == View(script, r)
           v == Data(Len(calls[r]))
           b == ViewOf(script, r, "exited", calls[r], todo[r], msgr[r], model[r])
<1>1. /\ IsSeq(calls[r]) /\ Len(calls[r]) <= Len(calls[0]) /\ Domains /\ Rest(Full(script, r), todo[r])
      /\ pc[r] = label
  BY LengthsAre DEF Ready, Orderly, At
<1>2. Put(pc, pc', r, "exited")
  BY <1>1, PutExcept DEF Domains, Goto
<1>3. /\ Put(calls, calls', r, calls[r]) /\ Put(todo, todo', r, todo[r])
      /\ Put(msgr, msgr', r, msgr[r]) /\ Put(model, model', r, model[r])
  BY <1>1, PutExcept DEF Domains, commVars
<1>4. Moves(r, "exited", calls[r], todo[r], msgr[r], model[r])
  BY <1>2, <1>3 DEF Moves, commVars
<1>5. /\ a.pc = label /\ a.ops = OpsOf(calls[r]) /\ a.left = 0 /\ a.msgr = msgr[r] /\ a.model = NewModel
  BY <1>1, ViewIs DEF PcOf, ModelOf
<1>6. b = V("exited", OpsOf(calls[r]), 0, msgr[r], NewModel)
  BY DEF ViewOf, PcOf, ModelOf
<1> HIDE DEF a, v, b, NewModel
<1>7. After(script, a, v) = Then(a, "exited")
  BY <1>5 DEF After, ConfigPcs, LoopPcs, PartPcs, BatchPcs, FromConfig, FromConfigured, FromBatch, FromDim
<1>8. b = After(script, a, v)
  BY <1>5, <1>6, <1>7 DEF Then
<1> QED
  BY <1>1, <1>4, <1>8, OutcomeOf DEF a, v, b

LEMMA SlaveExitsStep ==
  ASSUME NEW script \in Scripts, NEW r \in Rank, Ready(script, r), SlaveExits(r), next' = next
  PROVE  Outcome(script, r)
<1>1. /\ At(r, "configured") /\ r # 0 /\ Received(r).numBeams = 0 /\ Goto(r, "exited")
      /\ UNCHANGED <<commVars, todo, model, next>>
  BY RanksAre DEF SlaveExits
<1>2. pc[r] = "configured" /\ Returned(r)
  BY <1>1 DEF At
<1>3. View(script, r).pc = "configured" /\ View(script, r).left = LeftOf(r, todo[r]) /\ Len(calls[r]) > 0
  BY <1>2, HereIs DEF Weight
<1>4. Sent(View(script, r), Received(r))
  BY <1>2, <1>3, LengthsAre
<1>5. LeftOf(r, todo[r]) = 0
  BY <1>1, <1>3, <1>4 DEF Sent, SentAt
<1> QED
  BY <1>1, <1>5, OutcomeExits

LEMMA SlaveExitsBatchingStep ==
  ASSUME NEW script \in Scripts, NEW r \in Rank, Ready(script, r), SlaveExitsBatching(r), next' = next
  PROVE  Outcome(script, r)
<1>1. /\ At(r, "dim") /\ r # 0 /\ Received(r)[1] < 0 /\ Goto(r, "exited")
      /\ UNCHANGED <<commVars, todo, model, next>>
  BY RanksAre DEF SlaveExitsBatching
<1>2. pc[r] = "dim" /\ Returned(r)
  BY <1>1 DEF At
<1>3. View(script, r).pc = "dim" /\ View(script, r).left = LeftOf(r, todo[r]) /\ Len(calls[r]) > 0
  BY <1>2, HereIs DEF Weight
<1>4. Sent(View(script, r), Received(r))
  BY <1>2, <1>3, LengthsAre
<1>5. LeftOf(r, todo[r]) = 0
  BY <1>1, <1>3, <1>4 DEF Sent, SentAt
<1> QED
  BY <1>1, <1>5, OutcomeExits

LEMMA SetInputIdsStep ==
  ASSUME NEW script \in Scripts, NEW r \in Rank, Ready(script, r), SetInputIds(r), next' = next
  PROVE  Outcome(script, r)
<1> DEFINE a == View(script, r)
           v == Data(Len(calls[r]))
           l == LeftOf(r, todo[r])
           m == [model[r] EXCEPT !.dims = Received(r), !.seqLens = <<>>, !.seqIDs = <<>>, !.maxLen = <<>>]
           data == IF r = 0 THEN Arg(r).ids ELSE None
           count == Received(r)[1]
<1>1. /\ At(r, "dim") /\ count >= 0 /\ NewModelOf(r, m) /\ NewMsgr(r, msgr[r])
      /\ Enter(r, "broadcast", count, data) /\ Goto(r, "tokens")
      /\ todo' = todo /\ mode' = mode /\ next' = next
  BY DEF SetInputIds, Broadcast, NewModelOf, NewMsgr
<1>2. pc[r] = "dim" /\ pc[r] # "exited" /\ Returned(r)
  BY <1>1 DEF At
<1>3. a.pc = "dim" /\ a.left = l /\ a.ops = OpsOf(calls[r]) /\ a.msgr = msgr[r] /\ Len(calls[r]) > 0 /\ l \in Nat
  BY <1>2, HereIs DEF Weight
<1>4. Sent(a, v) /\ v = Received(r)
  BY <1>2, <1>3, LengthsAre
<1> HIDE DEF l
<1>5. l > 0 /\ l # 0
  <2>1. v[1] >= 0
    BY <1>1, <1>4
  <2> HIDE DEF v, a
  <2> QED
    BY <1>3, <1>4, <2>1 DEF Sent, SentAt
<1>6. a.model = model[r] /\ todo[r] # <<>> /\ Name(script, l) = "setInput"
  BY <1>2, <1>5, HereIs, NameHere DEF l
<1>7. r = 0 => SentAt("tokens", l, data)
  <2>1. r = 0 => Arg(r).ids \in Seq(Int)
    BY <1>6, ArgIs DEF l
  <2> QED
    BY <2>1 DEF SentAt
<1> HIDE DEF a, v
<1>8. After(script, a, v) = V("tokens", Append(OpsOf(calls[r]), <<"broadcast", count>>), l, msgr[r], m)
  BY <1>3, <1>4, <1>5, <1>6 DEF After, ConfigPcs, LoopPcs, PartPcs, BatchPcs, FromBatch, FromDim, Calls
<1> HIDE DEF m, data, count
<1> QED
  BY <1>1, <1>2, <1>5, <1>7, <1>8, DoEnter DEF a, v, l, WordPcs

LEMMA CreateSearcherStep ==
  ASSUME NEW script \in Scripts, NEW r \in Rank, Ready(script, r), CreateSearcher(r), next' = next
  PROVE  Outcome(script, r)
<1> DEFINE a == View(script, r)
           v == Data(Len(calls[r]))
           l == LeftOf(r, todo[r])
           m == [model[r] EXCEPT !.configuration = Received(r), !.searcher = TRUE, !.stopWordsList = <<>>]
           data == IF r = 0 THEN Len(Removed(Arg(r).stopWords)) ELSE 0
<1>1. /\ At(r, "configured") /\ (r = 0 \/ Received(r).numBeams # 0) /\ NewModelOf(r, m) /\ NewMsgr(r, msgr[r])
      /\ Enter(r, "broadcast", 1, data) /\ Goto(r, "listSize")
      /\ todo' = todo /\ mode' = mode /\ next' = next
  BY DEF CreateSearcher, Broadcast, NewModelOf, NewMsgr
<1>2. pc[r] = "configured" /\ pc[r] # "exited" /\ Returned(r)
  BY <1>1 DEF At
<1>3. a.pc = "configured" /\ a.left = l /\ a.ops = OpsOf(calls[r]) /\ a.msgr = msgr[r] /\ Len(calls[r]) > 0 /\ l \in Nat
  BY <1>2, HereIs DEF Weight
<1>4. Sent(a, v) /\ v = Received(r)
  BY <1>2, <1>3, LengthsAre
<1>5. l > 0 /\ l # 0
  <2>1. CASE r = 0
    BY <1>2, <2>1, HereIs
  <2>2. CASE r # 0
    <3>1. v.numBeams # 0
      BY <1>1, <1>4, <2>2
    <3> HIDE DEF v, a, l
    <3> QED
      BY <1>3, <1>4, <3>1 DEF Sent, SentAt
  <2> QED
    BY <2>1, <2>2
<1>6. a.model = Pending(model[r]) /\ todo[r] # <<>>
  <2>1. IsSeq(calls[r])
    BY <1>2, LengthsAre
  <2>2. a.model = ModelOf(l, "configured", model[r])
    BY <1>2, <2>1, ViewIs
  <2> QED
    BY <1>2, <1>5, <2>2, HereIs DEF ModelOf
<1>7. DOMAIN model[r] = DOMAIN NewModel
  <2>1. DOMAIN a.model = DOMAIN NewModel
    BY ModelSame DEF Ready
  <2> HIDE DEF a, NewModel
  <2> QED
    BY <1>6, <2>1 DEF Pending
<1> HIDE DEF l, a
<1>8. [a.model EXCEPT !.configuration = v, !.searcher = TRUE, !.stopWordsList = <<>>] = m
  <2> HIDE DEF v
  <2> QED
    BY <1>4, <1>6, <1>7, ModelFields DEF Pending
<1>9. SentAt("listSize", l, data)
  BY DEF SentAt
<1> HIDE DEF v, m
<1>10. After(script, a, v) = V("listSize", Append(OpsOf(calls[r]), <<"broadcast", 1>>), l, msgr[r], m)
  BY <1>3, <1>5, <1>8 DEF After, ConfigPcs, FromConfig, FromConfigured, Calls
<1>11. r = 0 => MasterOf("listSize", Append(calls[r], Entry("broadcast", 1, data)), todo[r], m)
  <2>1. r = 0 => data = Len(Words)
    BY DEF Words
  <2> HIDE DEF data
  <2> QED
    BY <1>6, <2>1, MasterKnows DEF WordPcs
<1> HIDE DEF data
<1> QED
  BY <1>1, <1>2, <1>5, <1>9, <1>10, <1>11, DoEnter DEF a, v, l, WordPcs

-----------------------------------------------------------------------------
(* The stop words are sent in two pieces, their lengths and all of them    *)
(* one after the other.  First, recursive functions.                       *)
Iterated(f, a, m, n, step) == [i \in m .. n |-> IF i = m THEN a ELSE step[<<i, f[i-1]>>]]
HasIterate(D, a, m, n, step) == \E f \in [m .. n -> D] : f = Iterated(f, a, m, n, step)
(* A function that is defined by recursion exists. *)
LEMMA Recursion ==
  ASSUME NEW D, NEW a \in D, NEW m \in Nat, NEW n \in Nat, m <= n,
         NEW I, I = m+1 .. n, NEW step \in [I \X D -> D]
  PROVE  HasIterate(D, a, m, n, step)
<1> DEFINE Good(f, k) == f[m] = a /\ \A i \in m+1 .. m+k : f[i] = step[<<i, f[i-1]>>]
           T == {k \in Nat : m + k <= n => \E f \in [m .. m+k -> D] : Good(f, k)}
<1>1. 0 \in T
  <2> DEFINE f == [i \in m .. m+0 |-> a]
  <2>1. f \in [m .. m+0 -> D] /\ Good(f, 0)
    OBVIOUS
  <2> QED
    BY <2>1
<1>2. ASSUME NEW k \in Nat, k \in T PROVE k + 1 \in T
  <2> SUFFICES ASSUME m + (k + 1) <= n PROVE \E f \in [m .. m+(k+1) -> D] : Good(f, k + 1)
    OBVIOUS
  <2>1. PICK f \in [m .. m+k -> D] : Good(f, k)
    BY <1>2
  <2> DEFINE c == step[<<m + (k + 1), f[m + k]>>]
             g == [i \in m .. m+(k+1) |-> IF i = m + (k + 1) THEN c ELSE f[i]]
  <2>2. c \in D
    <3>1. m + k \in m .. m+k /\ m + (k + 1) \in m+1 .. n
      OBVIOUS
    <3> QED
      BY <3>1
  <2>3. \A i \in m .. m+(k+1) : i # m + (k + 1) => i \in m .. m+k
    OBVIOUS
  <2>4. g \in [m .. m+(k+1) -> D]
    BY <2>2, <2>3
  <2>5. g[m] = a
    BY <2>1
  <2>6. ASSUME NEW i \in m+1 .. m+(k+1) PROVE g[i] = step[<<i, g[i-1]>>]
    <3>1. i \in m .. m+(k+1) /\ i - 1 \in m .. m+(k+1) /\ i - 1 # m + (k + 1) /\ i - 1 \in m .. m+k
      OBVIOUS
    <3>2. g[i-1] = f[i-1]
      BY <3>1
    <3>3. CASE i = m + (k + 1)
      <4>1. i - 1 = m + k
        BY <3>3
      <4>2. g[i] = c
        BY <3>1, <3>3
      <4> QED
        BY <3>2, <3>3, <4>1, <4>2
    <3>4. CASE i # m + (k + 1)
      <4>1. i \in m+1 .. m+k /\ g[i] = f[i]
        BY <3>1, <3>4
      <4> HIDE DEF g
      <4> QED
        BY <2>1, <3>2, <4>1
    <3> QED
      BY <3>3, <3>4
  <2> HIDE DEF g
  <2> QED
    BY <2>4, <2>5, <2>6
<1> HIDE DEF T
<1>3. n - m \in T
  <2>1. Nat \subseteq T
    BY <1>1, <1>2, InductionOnNat
  <2>2. n - m \in Nat
    OBVIOUS
  <2> QED
    BY <2>1, <2>2
<1>4. m + (n - m) = n
  OBVIOUS
<1>5. PICK f \in [m .. n -> D] : Good(f, n - m)
  BY <1>3, <1>4 DEF T
<1>6. \A i \in m .. n : f[i] = IF i = m THEN a ELSE step[<<i, f[i-1]>>]
  <2> TAKE i \in m .. n
  <2>1. i # m => i \in m+1 .. m+(n-m)
    BY <1>4
  <2> QED
    BY <1>5, <2>1
<1>7. f = [i \in m .. n |-> f[i]]
  OBVIOUS
<1> QED
  BY <1>6, <1>7 DEF Iterated, HasIterate

(* Words that are removed leave words. *)
LEMMA RemovedType ==
  ASSUME NEW words \in Seq(Seq(Int))
  PROVE  Removed(words) \in Seq(Seq(Int))
<1> DEFINE D == Seq(Seq(Int))
           n == Len(words)
           Good(k) == words[k] # <<>> /\ \A i \in DOMAIN words[k] : words[k][i] > 0
           body(f) == [k \in 0 .. n |-> IF k = 0 THEN <<>>
                                        ELSE IF Good(k) THEN Append(f[k-1], words[k]) ELSE f[k-1]]
           p == CHOOSE f : f = body(f)
           step == [q \in (1 .. n) \X D |-> IF Good(q[1]) THEN Append(q[2], words[q[1]]) ELSE q[2]]
<1>1. Removed(words) = p[n]
  BY DEF Removed
<1>2. n \in Nat /\ <<>> \in D /\ \A k \in 1 .. n : words[k] \in Seq(Int)
  OBVIOUS
<1> HIDE DEF n, Good
<1>3. \A k \in 1 .. n : \A s \in D : Append(s, words[k]) \in D
  BY <1>2
<1> HIDE DEF D
<1>4. /\ step \in [(1 .. n) \X D -> D]
      /\ \A k \in 1 .. n : \A s \in D : step[<<k, s>>] = IF Good(k) THEN Append(s, words[k]) ELSE s
  BY <1>3
<1> HIDE DEF step
<1>5. PICK f \in [0 .. n -> D] : f = Iterated(f, <<>>, 0, n, step)
  <2> DEFINE I == 1 .. n
             e == <<>>
  <2>1. 0 \in Nat /\ 0 <= n /\ I = 0+1 .. n /\ step \in [I \X D -> D] /\ e \in D /\ n \in Nat
    BY <1>2, <1>4
  <2> HIDE DEF I, body, p, e
  <2>2. HasIterate(D, e, 0, n, step)
    BY <2>1, Recursion, Zenon
  <2> QED
    BY <2>2 DEF HasIterate, e
<1>6. f = body(f)
  <2>1. \A i \in 0 .. n : i # 0 => i \in 1 .. n /\ i - 1 \in 0 .. n
    BY <1>2
  <2>2. \A i \in 0 .. n : i # 0 => step[<<i, f[i-1]>>] = IF Good(i) THEN Append(f[i-1], words[i]) ELSE f[i-1]
    BY <1>4, <2>1
  <2> QED
    BY <1>5, <2>2 DEF Iterated
<1>7. p = body(p)
  <2> HIDE DEF body
  <2> QED
    BY <1>6
<1> HIDE DEF p
<1> DEFINE T == {i \in Nat : i <= n => p[i] \in D}
<1>8. 0 \in T
  BY <1>2, <1>7
<1>9. ASSUME NEW i \in Nat, i \in T PROVE i + 1 \in T
  <2> SUFFICES ASSUME i + 1 <= n PROVE p[i + 1] \in D
    OBVIOUS
  <2>1. i + 1 \in 0 .. n /\ i + 1 \in 1 .. n /\ (i + 1) - 1 = i /\ i <= n /\ i + 1 # 0
    BY <1>2
  <2>2. p[i + 1] = IF Good(i + 1) THEN Append(p[i], words[i + 1]) ELSE p[i]
    BY <1>7, <2>1
  <2> QED
    BY <1>3, <1>9, <2>1, <2>2
<1> HIDE DEF T
<1>10. n \in T
  BY <1>2, <1>8, <1>9, InductionOnNat
<1> QED
  BY <1>1, <1>2, <1>10 DEF T, D

(* The sum of the first sizes, one by one. *)
LEMMA SumToIs ==
  ASSUME NEW sizes \in Seq(Nat)
  PROVE  /\ \A i \in 0 .. Len(sizes) : SumTo(sizes, i) \in Nat
         /\ SumTo(sizes, 0) = 0
         /\ \A i \in 1 .. Len(sizes) : SumTo(sizes, i) = SumTo(sizes, i - 1) + sizes[i]
<1> DEFINE n == Len(sizes)
           body(f) == [k \in 0 .. n |-> IF k = 0 THEN 0 ELSE f[k-1] + sizes[k]]
           p == CHOOSE f : f = body(f)
           step == [q \in (1 .. n) \X Nat |-> q[2] + sizes[q[1]]]
<1>1. \A i : SumTo(sizes, i) = p[i]
  BY DEF SumTo
<1>2. n \in Nat /\ \A k \in 1 .. n : sizes[k] \in Nat
  OBVIOUS
<1> HIDE DEF n
<1>4. /\ step \in [(1 .. n) \X Nat -> Nat]
      /\ \A k \in 1 .. n : \A s \in Nat : step[<<k, s>>] = s + sizes[k]
  BY <1>2
<1> HIDE DEF step
<1>5. PICK f \in [0 .. n -> Nat] : f = Iterated(f, 0, 0, n, step)
  <2> DEFINE I == 1 .. n
  <2>1. 0 \in Nat /\ 0 <= n /\ I = 0+1 .. n /\ step \in [I \X Nat -> Nat] /\ n \in Nat
    BY <1>2, <1>4
  <2> HIDE DEF I, body, p
  <2>2. HasIterate(Nat, 0, 0, n, step)
    BY <2>1, Recursion, Zenon
  <2> QED
    BY <2>2 DEF HasIterate
<1>6. f = body(f)
  <2>1. \A i \in 0 .. n : i # 0 => i \in 1 .. n /\ i - 1 \in 0 .. n
    BY <1>2
  <2>2. \A i \in 0 .. n : i # 0 => step[<<i, f[i-1]>>] = f[i-1] + sizes[i]
    BY <1>4, <2>1
  <2> QED
    BY <1>5, <2>2 DEF Iterated
<1>7. p = body(p)
  <2> HIDE DEF body
  <2> QED
    BY <1>6
<1> HIDE DEF p
<1>8. p[0] = 0 /\ \A i \in 1 .. n : p[i] = p[i-1] + sizes[i]
  BY <1>2, <1>7
<1> DEFINE T == {i \in Nat : i <= n => p[i] \in Nat}
<1>9. 0 \in T
  BY <1>8
<1>10. ASSUME NEW i \in Nat, i \in T PROVE i + 1 \in T
  <2> SUFFICES ASSUME i + 1 <= n PROVE p[i + 1] \in Nat
    OBVIOUS
  <2>1. i + 1 \in 1 .. n /\ (i + 1) - 1 = i /\ i <= n
    BY <1>2
  <2>2. p[i + 1] = p[i] + sizes[i + 1] /\ sizes[i + 1] \in Nat
    BY <1>2, <1>8, <2>1
  <2>3. p[i] \in Nat
    BY <1>10, <2>1
  <2> QED
    BY <2>2, <2>3
<1> HIDE DEF T
<1>11. Nat \subseteq T
  BY <1>9, <1>10, InductionOnNat
<1>12. \A i \in 0 .. n : p[i] \in Nat
  BY <1>2, <1>11 DEF T
<1> QED
  BY <1>1, <1>8, <1>12 DEF n

(* The words one after the other. *)
Flat(f, words, n) ==
  /\ f[1] = words[1]
  /\ \A i \in 2 .. n : f[i] = f[i-1] \o words[i]
  /\ \A i \in 1 .. n : f[i] \in Seq(Int)
(* What FlattenSeq computes, *)
LEMMA FlattenIs ==
  ASSUME NEW words \in Seq(Seq(Int)), words # <<>>
  PROVE  \E f : Flat(f, words, Len(words)) /\ FlattenSeq(words) = f[Len(words)]
<1> DEFINE D == Seq(Int)
           n == Len(words)
           body(f) == [k \in 1 .. n |-> IF k = 1 THEN words[k] ELSE f[k-1] \o words[k]]
           p == CHOOSE f : f = body(f)
           step == [q \in (2 .. n) \X D |-> q[2] \o words[q[1]]]
<1>1. FlattenSeq(words) = p[n]
  BY DEF FlattenSeq
<1>2. n \in Nat /\ n >= 1 /\ \A k \in 1 .. n : words[k] \in D
  OBVIOUS
<1> HIDE DEF n
<1>3. \A k \in 1 .. n : \A s \in D : s \o words[k] \in D
  BY <1>2
<1> HIDE DEF D
<1>4. /\ step \in [(2 .. n) \X D -> D]
      /\ \A k \in 2 .. n : \A s \in D : step[<<k, s>>] = s \o words[k]
  <2> DEFINE cat(s, k) == s \o words[k]
             J == 2 .. n
  <2>1. \A k \in J : \A s \in D : cat(s, k) \in D
    BY <1>2, <1>3
  <2>2. step = [q \in J \X D |-> cat(q[2], q[1])]
    OBVIOUS
  <2> HIDE DEF cat, J, step
  <2>3. step \in [J \X D -> D] /\ \A k \in J : \A s \in D : step[<<k, s>>] = cat(s, k)
    BY <2>1, <2>2
  <2> QED
    BY <2>3 DEF cat, J
<1> HIDE DEF step
<1>5. PICK f \in [1 .. n -> D] : f = Iterated(f, words[1], 1, n, step)
  <2> DEFINE I == 2 .. n
             e == words[1]
  <2>1. 1 \in Nat /\ 1 <= n /\ I = 1+1 .. n /\ step \in [I \X D -> D] /\ n \in Nat /\ e \in D
    BY <1>2, <1>4
  <2> HIDE DEF I, body, p, e
  <2>2. HasIterate(D, e, 1, n, step)
    BY <2>1, Recursion, Zenon
  <2> QED
    BY <2>2 DEF HasIterate, e
<1>6. f = body(f)
  <2>1. \A i \in 1 .. n : i # 1 => i \in 2 .. n /\ i - 1 \in 1 .. n
    BY <1>2
  <2>2. \A i \in 1 .. n : i # 1 => step[<<i, f[i-1]>>] = f[i-1] \o words[i]
    BY <1>4, <2>1
  <2> QED
    BY <1>5, <2>2 DEF Iterated
<1>7. p = body(p)
  <2> HIDE DEF body
  <2> QED
    BY <1>6
<1> HIDE DEF p
<1>8. p[1] = words[1] /\ \A i \in 2 .. n : p[i] = p[i-1] \o words[i]
  <2>1. 1 \in 1 .. n /\ \A i \in 2 .. n : i \in 1 .. n /\ i # 1
    BY <1>2
  <2>2. \A i \in 1 .. n : p[i] = IF i = 1 THEN words[i] ELSE p[i-1] \o words[i]
    BY <1>7
  <2> QED
    BY <2>1, <2>2
<1> DEFINE T == {i \in Nat : i + 1 <= n => p[i + 1] \in D}
<1>9. 0 \in T
  BY <1>2, <1>8
<1>10. ASSUME NEW i \in Nat, i \in T PROVE i + 1 \in T
  <2> SUFFICES ASSUME (i + 1) + 1 <= n PROVE p[(i + 1) + 1] \in D
    OBVIOUS
  <2>1. /\ (i + 1) + 1 \in 2 .. n /\ (i + 1) + 1 \in 1 .. n
        /\ ((i + 1) + 1) - 1 = i + 1 /\ i + 1 <= n
    BY <1>2
  <2>2. p[(i + 1) + 1] = p[i + 1] \o words[(i + 1) + 1] /\ p[i + 1] \in D
    BY <1>8, <1>10, <2>1
  <2> QED
    BY <1>3, <2>1, <2>2
<1> HIDE DEF T
<1>11. Nat \subseteq T
  BY <1>9, <1>10, InductionOnNat
<1>12. ASSUME NEW i \in 1 .. n PROVE p[i] \in D
  <2>1. i - 1 \in T /\ (i - 1) + 1 = i /\ i <= n
    BY <1>2, <1>11
  <2> QED
    BY <2>1 DEF T
<1>13. Flat(p, words, n)
  BY <1>8, <1>12 DEF Flat, D
<1> QED
  BY <1>1, <1>13 DEF n

(* The word in its place. *)
Placing(d, words, i) ==
  LET sum(j) == SumTo(Sizes(words), j) IN
  /\ Len(d) = sum(i)
  /\ \A j \in 1 .. i : /\ sum(j - 1) + Len(words[j]) <= sum(i)
                       /\ \A x \in 1 .. Len(words[j]) : d[sum(j - 1) + x] = words[j][x]
(* and where it puts each word. *)
LEMMA FlattenPlaces ==
  ASSUME NEW words \in Seq(Seq(Int)), NEW f, Flat(f, words, Len(words)), words # <<>>
  PROVE  \A i \in 1 .. Len(words) : Placing(f[i], words, i)
<1> DEFINE n == Len(words)
           sum(i) == SumTo(Sizes(words), i)
           T == {k \in Nat : k + 1 <= n => Placing(f[k + 1], words, k + 1)}
<1>1. n \in Nat /\ n >= 1 /\ \A k \in 1 .. n : words[k] \in Seq(Int) /\ Len(words[k]) \in Nat
  OBVIOUS
<1>2. Sizes(words) \in Seq(Nat) /\ Len(Sizes(words)) = n /\ \A k \in 1 .. n : Sizes(words)[k] = Len(words[k])
  BY <1>1 DEF Sizes
<1>3. /\ sum(0) = 0 /\ \A i \in 0 .. n : sum(i) \in Nat
      /\ \A i \in 1 .. n : sum(i) = sum(i - 1) + Len(words[i])
  BY <1>2, SumToIs
<1>4. /\ f[1] = words[1] /\ \A i \in 2 .. n : f[i] = f[i-1] \o words[i]
      /\ \A i \in 1 .. n : f[i] \in Seq(Int)
  BY DEF Flat
<1>5. \A i : \A d : Placing(d, words, i) <=>
        /\ Len(d) = sum(i)
        /\ \A j \in 1 .. i : /\ sum(j - 1) + Len(words[j]) <= sum(i)
                             /\ \A x \in 1 .. Len(words[j]) : d[sum(j - 1) + x] = words[j][x]
  BY DEF Placing
<1> HIDE DEF n, sum
<1>6. 0 \in T
  <2>1. sum(1) = Len(words[1]) /\ words[1] \in Seq(Int) /\ f[1] = words[1] /\ Len(words[1]) \in Nat
    <3>1. 1 \in 1 .. n /\ 1 - 1 = 0
      BY <1>1
    <3> QED
      BY <1>1, <1>3, <1>4, <3>1
  <2>2. ASSUME NEW j \in 1 .. 1
        PROVE  /\ sum(j - 1) + Len(words[j]) <= sum(1)
               /\ \A x \in 1 .. Len(words[j]) : words[1][sum(j - 1) + x] = words[j][x]
    <3>1. j = 1 /\ j - 1 = 0
      OBVIOUS
    <3>2. \A x \in 1 .. Len(words[1]) : 0 + x = x
      BY <2>1
    <3> QED
      BY <1>3, <2>1, <3>1, <3>2
  <2>3. Placing(f[1], words, 1)
    BY <1>5, <2>1, <2>2
  <2>4. 0 + 1 = 1
    OBVIOUS
  <2> QED
    BY <2>3, <2>4
<1>7. ASSUME NEW k \in Nat, k \in T PROVE k + 1 \in T
  <2> SUFFICES ASSUME (k + 1) + 1 <= n PROVE Placing(f[(k + 1) + 1], words, (k + 1) + 1)
    OBVIOUS
  <2> DEFINE i == k + 1
             h == i + 1
             w == words[h]
             e == f[i]
             d == f[h]
  <2>1. i \in 1 .. n /\ i \in 0 .. n /\ h \in 1 .. n /\ h \in 2 .. n /\ h \in 0 .. n /\ h - 1 = i /\ i + 1 = h /\ i \in Nat
    BY <1>1
  <2>2. Placing(e, words, i)
    BY <1>7, <2>1
  <2> HIDE DEF i, h
  <2>3. d = e \o w /\ d \in Seq(Int) /\ e \in Seq(Int) /\ w \in Seq(Int)
    BY <1>1, <1>4, <2>1
  <2>4. sum(h) = sum(i) + Len(w) /\ sum(i) \in Nat /\ Len(w) \in Nat /\ sum(h) \in Nat
    BY <1>1, <1>3, <2>1
  <2>5. /\ Len(e) = sum(i)
        /\ \A j \in 1 .. i : /\ sum(j - 1) + Len(words[j]) <= sum(i)
                             /\ \A x \in 1 .. Len(words[j]) : e[sum(j - 1) + x] = words[j][x]
    BY <1>5, <2>2
  <2> HIDE DEF d, e, w
  <2>6. /\ Len(d) = sum(h)
        /\ \A y \in 1 .. sum(i) : d[y] = e[y]
        /\ \A x \in 1 .. Len(w) : d[sum(i) + x] = w[x]
    <3>1. /\ Len(e \o w) = Len(e) + Len(w)
          /\ \A y \in 1 .. Len(e) : (e \o w)[y] = e[y]
          /\ \A y \in 1 .. Len(w) : (e \o w)[Len(e) + y] = w[y]
      BY <2>3
    <3> QED
      BY <2>3, <2>4, <2>5, <3>1
  <2>7. ASSUME NEW j \in 1 .. h
        PROVE  /\ sum(j - 1) + Len(words[j]) <= sum(h)
               /\ \A x \in 1 .. Len(words[j]) : d[sum(j - 1) + x] = words[j][x]
    <3>1. CASE j = h
      <4>1. j - 1 = i /\ words[j] = w
        BY <2>1, <3>1 DEF w
      <4> QED
        BY <2>4, <2>6, <4>1
    <3>2. CASE j # h
      <4>1. j \in 1 .. i /\ j \in 1 .. n /\ j - 1 \in 0 .. n
        BY <1>1, <2>1, <3>2
      <4> DEFINE s == sum(j - 1)
                 l == Len(words[j])
      <4>2. s \in Nat /\ l \in Nat /\ s + l <= sum(i) /\ \A x \in 1 .. l : e[s + x] = words[j][x]
        BY <1>1, <1>3, <2>5, <4>1
      <4> HIDE DEF s, l
      <4>3. s + l <= sum(h)
        BY <2>4, <4>2
      <4>4. ASSUME NEW x \in 1 .. l PROVE d[s + x] = words[j][x]
        <5>1. s + x \in 1 .. sum(i)
          BY <2>4, <4>2
        <5> QED
          BY <2>6, <4>2, <5>1
      <4> QED
        BY <4>3, <4>4 DEF s, l
    <3> QED
      BY <3>1, <3>2
  <2>8. Placing(d, words, h)
    BY <1>5, <2>6, <2>7
  <2> QED
    BY <2>8 DEF d, h, i
<1> HIDE DEF T
<1>8. Nat \subseteq T
  BY <1>6, <1>7, InductionOnNat
<1>9. ASSUME NEW i \in 1 .. n PROVE Placing(f[i], words, i)
  <2>1. i - 1 \in T /\ (i - 1) + 1 = i /\ i <= n
    BY <1>1, <1>8
  <2> QED
    BY <2>1 DEF T
<1> QED
  BY <1>9 DEF n

(* The list that Model::setStopWords puts together from the lengths of the *)
(* words and all words one after the other is the list they were taken     *)
(* from, empty words and an empty list included.                           *)
THEOREM StopWordsRestored ==
  ASSUME NEW words \in Seq(Seq(Int))
  PROVE  Restore(Sizes(words), FlattenSeq(words)) = words
<1> DEFINE n == Len(words)
           data == FlattenSeq(words)
           sum(i) == SumTo(Sizes(words), i)
           R == Restore(Sizes(words), data)
<1>1. n \in Nat /\ \A k \in 1 .. n : words[k] \in Seq(Int) /\ Len(words[k]) \in Nat
  OBVIOUS
<1>2. /\ Sizes(words) \in Seq(Nat) /\ Len(Sizes(words)) = n /\ DOMAIN Sizes(words) = 1 .. n
      /\ \A k \in 1 .. n : Sizes(words)[k] = Len(words[k])
  BY <1>1 DEF Sizes
<1>3. \A i \in 0 .. n : sum(i) \in Nat
  BY <1>2, SumToIs
<1>4. R = [i \in 1 .. n |-> SubSeq(data, sum(i - 1) + 1, sum(i - 1) + Len(words[i]))]
  BY <1>2 DEF Restore
<1>5. words = [i \in 1 .. n |-> words[i]]
  OBVIOUS
<1>6. ASSUME NEW i \in 1 .. n
      PROVE  SubSeq(data, sum(i - 1) + 1, sum(i - 1) + Len(words[i])) = words[i]
  <2>1. words # <<>>
    BY <1>1
  <2>2. PICK f : Flat(f, words, n) /\ data = f[n]
    BY <2>1, FlattenIs
  <2>3. Placing(data, words, n) /\ data \in Seq(Int)
    <3>1. n \in 1 .. n
      BY <1>1
    <3> QED
      BY <2>1, <2>2, <3>1, FlattenPlaces DEF Flat
  <2> DEFINE s == sum(i - 1)
             w == words[i]
             l == Len(w)
  <2>4. s \in Nat /\ l \in Nat /\ w \in Seq(Int)
    BY <1>1, <1>3
  <2>5. Len(data) = sum(n) /\ s + l <= sum(n) /\ \A x \in 1 .. l : data[s + x] = w[x]
    BY <2>3 DEF Placing
  <2> HIDE DEF data, n, R, s, sum
  <2>6. /\ \A j \in s+1 .. s+l : data[j] \in Int
        /\ SubSeq(data, s + 1, s + l) = [x \in 1 .. l |-> data[(s + 1) + x - 1]]
    <3>1. \A j \in s+1 .. s+l : j \in 1 .. Len(data)
      BY <2>4, <2>5
    <3>2. \A j \in s+1 .. s+l : data[j] \in Int
      BY <2>3, <3>1
    <3>3. SubSeq(data, s + 1, s + l) = [x \in 1 .. (1 + (s + l) - (s + 1)) |-> data[(s + 1) + x - 1]]
      BY <2>3, <2>4
    <3>4. 1 + (s + l) - (s + 1) = l
      BY <2>4
    <3> HIDE DEF l
    <3> QED
      BY <3>2, <3>3, <3>4
  <2>7. \A x \in 1 .. l : (s + 1) + x - 1 = s + x
    BY <2>4
  <2>8. w = [x \in 1 .. l |-> w[x]]
    BY <2>4
  <2>9. \A x \in 1 .. l : data[(s + 1) + x - 1] = w[x]
    BY <2>5, <2>7
  <2>10. [x \in 1 .. l |-> data[(s + 1) + x - 1]] = [x \in 1 .. l |-> w[x]]
    BY <2>9
  <2>11. SubSeq(data, s + 1, s + l) = w
    BY <2>6, <2>8, <2>10, Zenon
  <2> QED
    BY <2>11 DEF s
<1>7. [i \in 1 .. n |-> SubSeq(data, sum(i - 1) + 1, sum(i - 1) + Len(words[i]))] = [i \in 1 .. n |-> words[i]]
  BY <1>6
<1>8. R = words
  BY <1>4, <1>5, <1>7, Zenon
<1> QED
  BY <1>8

LEMMA SetStopWordsStep ==
  ASSUME NEW script \in Scripts, NEW r \in Rank, Ready(script, r), SetStopWords(r), next' = next
  PROVE  Outcome(script, r)
<1> DEFINE a == View(script, r)
           v == Data(Len(calls[r]))
           words == IF r = 0 THEN Removed(Arg(r).stopWords) ELSE Restore(model[r].wordsSize, Received(r))
           m == [model[r] EXCEPT !.stopWordsList = NotEos(words)]
<1>1. /\ At(r, "wordsData") /\ Goto(r, "input") /\ NewMsgr(r, msgr[r]) /\ NewModelOf(r, m)
      /\ calls' = calls /\ mode' = mode /\ todo' = todo
  BY DEF SetStopWords, commVars, NewMsgr, NewModelOf
<1>2. /\ Here(a, r, "wordsData") /\ v = Received(r)
      /\ Returned(r) /\ pc[r] # "exited" /\ LeftOf(r, todo[r]) > 0
  BY <1>1, InCall DEF Weight
<1>3. words = Restore(model[r].wordsSize, Received(r))
  <2>1. CASE r # 0
    BY <2>1
  <2>2. CASE r = 0
    <3>1. pc[r] \in ConfigPcs /\ todo[r] # <<>> /\ Name(script, LeftOf(r, todo[r])) = "generate"
      BY <1>1, <1>2, HereIs, NameHere DEF At, ConfigPcs
    <3>2. Arg(0).stopWords \in Seq(Seq(Int))
      BY <2>2, <3>1, ArgIs
    <3>3. Words \in Seq(Seq(Int))
      BY <3>2, RemovedType DEF Words
    <3>4. Received(0) = FlattenSeq(Words) /\ model[0].wordsSize = Sizes(Words)
      BY <1>1, <2>2, MasterHas DEF At
    <3>5. Restore(Sizes(Words), FlattenSeq(Words)) = Words
      BY <3>3, StopWordsRestored
    <3>6. words = Words
      BY <2>2 DEF Words
    <3> HIDE DEF words
    <3> QED
      BY <2>2, <3>4, <3>5, <3>6
  <2> QED
    BY <2>1, <2>2
<1> HIDE DEF a, v, words
<1>4. After(script, a, v) = V("input", OpsOf(calls[r]), LeftOf(r, todo[r]), msgr[r], m)
  BY <1>1, <1>2, <1>3 DEF Here, After, ConfigPcs, FromConfig, ThenWith
<1> QED
  BY <1>1, <1>2, <1>4, DoStay DEF a, v, WordPcs

-----------------------------------------------------------------------------
(* Every step, and the rank that takes it has not exited. *)
LEMMA StepOutcome ==
  ASSUME NEW script \in Scripts, NEW r \in Rank, Ready(script, r), Step(r), next' = next
  PROVE  Outcome(script, r)
<1>1. CASE ReduceAdd(r) /\ UNCHANGED <<todo, model>>
  <2>1. UNCHANGED <<todo, model, next>>
    BY <1>1
  <2> QED
    BY <1>1, <2>1, ResizeStep, TuneStep, TimedStep, TypedStep, ReduceStep DEF ReduceAdd
<1>2. CASE Config(r)
  BY <1>2, ConfigStep
<1>3. CASE SlaveExits(r)
  BY <1>3, SlaveExitsStep
<1>4. CASE CreateSearcher(r)
  BY <1>4, CreateSearcherStep
<1>5. CASE NoStopWords(r)
  BY <1>5, NoStopWordsStep
<1>6. CASE StopWordsSize(r)
  BY <1>6, StopWordsSizeStep
<1>7. CASE StopWordsData(r)
  BY <1>7, StopWordsDataStep
<1>8. CASE SetStopWords(r)
  BY <1>8, SetStopWordsStep
<1>9. CASE InputDims(r)
  BY <1>9, InputDimsStep
<1>10. CASE InputIds(r)
  BY <1>10, InputIdsStep
<1>11. CASE SetInput(r)
  BY <1>11, SetInputStep
<1>12. CASE Generate(r)
  BY <1>12, GenerateStep
<1>13. CASE Search(r)
  BY <1>13, SearchStep
<1>14. CASE Sample(r)
  BY <1>14, SampleStep
<1>15. CASE Picked(r)
  BY <1>15, PickedStep
<1>16. CASE Finalize(r)
  BY <1>16, FinalizeStep
<1>17. CASE PrefixLen(r)
  BY <1>17, PrefixLenStep
<1>18. CASE PrefixIds(r)
  BY <1>18, PrefixIdsStep
<1>19. CASE SetPrefix(r)
  BY <1>19, SetPrefixStep
<1>20. CASE UnsetPrefix(r)
  BY <1>20, UnsetPrefixStep
<1>21. CASE ForwardReturns(r)
  BY <1>21, ForwardReturnsStep
<1>22. CASE SetInputDim(r)
  BY <1>22, SetInputDimStep
<1>23. CASE SlaveExitsBatching(r)
  BY <1>23, SlaveExitsBatchingStep
<1>24. CASE SetInputIds(r)
  BY <1>24, SetInputIdsStep
<1>25. CASE SetInputPart(r)
  BY <1>25, SetInputPartStep
<1>26. CASE Group(r)
  BY <1>26, GroupStep
<1>27. CASE Forward(r)
  BY <1>27, ForwardStep
<1>28. CASE GatherLogits(r)
  BY <1>28, GatherLogitsStep
<1>29. CASE FreeSize(r)
  BY <1>29, FreeSizeStep
<1>30. CASE FreeIDs(r)
  BY <1>30, FreeIDsStep
<1>31. CASE FreeSeqs(r)
  BY <1>31, FreeSeqsStep
<1>32. CASE ExitSlaves(r)
  BY <1>32, ExitSlavesStep
<1>33. CASE GroupFails(r)
  BY <1>33, GroupFailsStep
<1> QED
  BY <1>1, <1>2, <1>3, <1>4, <1>5, <1>6, <1>7, <1>8, <1>9, <1>10, <1>11, <1>12, <1>13, <1>14, <1>15, <1>16, <1>17, <1>18, <1>19, <1>20, <1>21, <1>22, <1>23, <1>24, <1>25, <1>26, <1>27, <1>28, <1>29, <1>30, <1>31, <1>32, <1>33 DEF Step

(* A rank that has exited, or failed, takes no step. *)
LEMMA StepIsNotOver ==
  ASSUME NEW r \in Rank, Step(r)
  PROVE  pc[r] \notin {"exited", "failed"}
<1>1. CASE ReduceAdd(r)
  BY <1>1 DEF ReduceAdd, Resize, Resizing, Tune, Timed, Typed, Reduce, Fits, At
<1>2. CASE SetInputPart(r)
  <2>1. PICK p \in 1 .. 4 : At(r, Parts[p])
    BY <1>2 DEF SetInputPart
  <2>2. Parts[p] \in PartPcs
    BY PartsAre DEF PartPcs
  <2> QED
    BY <2>1, <2>2 DEF At, PartPcs
<1>3. ASSUME ~ReduceAdd(r), ~SetInputPart(r) PROVE pc[r] \notin {"exited", "failed"}
  BY <1>3 DEF Step, At, Call, Config, SlaveExits, CreateSearcher, NoStopWords, StopWordsSize, StopWordsData, SetStopWords, InputDims, InputIds, SetInput, Generate, Search, Sample, Picked, Finalize, PrefixLen, PrefixIds, SetPrefix, UnsetPrefix, ForwardReturns, SetInputDim, SlaveExitsBatching, SetInputIds, Group, GroupFails, Forward, GatherLogits, FreeSize, FreeIDs, FreeSeqs, ExitSlaves
<1> QED
  BY <1>1, <1>2, <1>3

-----------------------------------------------------------------------------
(* The history. *)
LEMMA TracedReady ==
  ASSUME NEW script \in Scripts, NEW t, NEW N, NEW pos, Traced(script, t, N, pos), NEW r \in Rank,
         Domains, Master, \A s \in Rank : Orderly(script, s)
  PROVE  Ready(script, r)
<1>1. pos[r] \in 0 .. N /\ View(script, r) = t[pos[r]]
  BY DEF Traced
<1>2. Sound(script, View(script, r))
  BY <1>1 DEF Traced
<1>3. Len(View(script, r).ops) = Len(calls[r])
  BY ViewIs DEF Orderly
<1>4. Len(calls[r]) <= Len(calls[0]) => Sent(View(script, r), Data(Len(calls[r])))
  <2>1. Len(t[pos[r]].ops) <= Len(calls[0]) => Sent(t[pos[r]], Data(Len(t[pos[r]].ops)))
    BY <1>1 DEF Traced
  <2> QED
    BY <1>1, <1>3, <2>1
<1> QED
  BY <1>2, <1>4 DEF Ready

(* A step of a rank: the history grows if the rank was in front. *)
LEMMA HistoryStep ==
  ASSUME OneHistory, NEW r \in Rank, Step(r), next' = next
  PROVE  OneHistory'
<1>1. PICK script \in Scripts : /\ Domains /\ Master
                                /\ \A s \in Rank : Orderly(script, s)
                                /\ \E t, N, pos : Traced(script, t, N, pos)
  BY DEF OneHistory
<1>2. PICK t, N, pos : Traced(script, t, N, pos)
  BY <1>1
<1>3. Ready(script, r)
  BY <1>1, <1>2, TracedReady
<1>4. Outcome(script, r)
  BY <1>3, StepOutcome
<1>5. N \in Nat /\ pos \in [Rank -> 0 .. N] /\ View(script, r) = t[pos[r]] /\ 0 \in Rank
  BY <1>2, RanksAre DEF Traced
<1>6. /\ Len(View(script, r).ops) = Len(calls[r]) /\ View(script, r).pc \notin {"exited", "failed"}
  <2>1. Len(View(script, r).ops) = Len(calls[r]) /\ View(script, r).pc = PcOf(script, r, pc[r])
    BY <1>1, ViewIs DEF Orderly
  <2>2. pc[r] \notin {"exited", "failed"}
    BY StepIsNotOver
  <2> QED
    BY <2>1, <2>2 DEF PcOf
<1>7. Domains' /\ Master' /\ \A s \in Rank : Orderly(script, s)'
  <2>1. Local(r) /\ Orderly(script, r)' /\ (r = 0 => Master')
    BY <1>4 DEF Outcome
  <2>2. ASSUME NEW s \in Rank, s # r PROVE Orderly(script, s)'
    <3>1. calls'[s] = calls[s] /\ todo'[s] = todo[s] /\ Orderly(script, s)
      BY <1>1, <2>1, <2>2 DEF Local
    <3> QED
      BY <3>1 DEF Orderly
  <2>3. ASSUME r # 0 PROVE Master'
    <3>1. pc'[0] = pc[0] /\ calls'[0] = calls[0] /\ todo'[0] = todo[0] /\ model'[0] = model[0]
      BY <1>5, <2>1, <2>3 DEF Local
    <3> QED
      BY <1>1, <3>1 DEF Master
  <2> QED
    BY <2>1, <2>2, <2>3 DEF Local
<1>8. \E u, M, q : Traced(script, u, M, q)'
  <2>1. CASE pos[r] < N
    <3>1. Traced(script, t, N, [pos EXCEPT ![r] = pos[r] + 1])'
      BY <1>1, <1>2, <1>4, <2>1, Move
    <3> QED
      BY <3>1
  <2>2. CASE ~(pos[r] < N)
    <3>1. pos[r] = N
      BY <1>5, <2>2
    <3> DEFINE b == After(script, t[N], Data(Len(t[N].ops)))
    <3>2. Len(t[N].ops) <= Len(calls[0]) /\ t[N].pc \notin {"exited", "failed"}
      BY <1>4, <1>5, <1>6, <3>1 DEF Outcome
    <3>3. PICK u : Traced(script, u, N + 1, pos)
      <4>1. Traced(script, Longer(t, N, b), N + 1, pos)
        BY <1>1, <1>2, <3>2, Extend
      <4> QED
        BY <4>1
    <3>4. pos[r] < N + 1
      BY <1>5, <3>1
    <3>5. Traced(script, u, N + 1, [pos EXCEPT ![r] = pos[r] + 1])'
      BY <1>1, <1>4, <3>3, <3>4, Move
    <3> QED
      BY <3>5
  <2> QED
    BY <2>1, <2>2
<1> QED
  BY <1>7, <1>8 DEF OneHistory

LEMMA HistoryStays ==
  ASSUME OneHistory, UNCHANGED vars
  PROVE  OneHistory'
<1>1. /\ mode' = mode /\ pc' = pc /\ calls' = calls /\ msgr' = msgr /\ todo' = todo
      /\ model' = model /\ next' = next
  BY DEF vars
<1>2. PICK script \in Scripts : /\ Domains /\ Master
                                /\ \A s \in Rank : Orderly(script, s)
                                /\ \E t, N, pos : Traced(script, t, N, pos)
  BY DEF OneHistory
<1>3. PICK t, N, pos : Traced(script, t, N, pos)
  BY <1>2
<1>4. Domains' /\ Master'
  BY <1>1, <1>2 DEF Domains, Master
<1>5. ASSUME NEW r \in Rank PROVE Orderly(script, r)' /\ View(script, r)' = View(script, r)
  BY <1>1, <1>2 DEF Orderly, View
<1>6. ASSUME NEW n
      PROVE  /\ Data(Len(t[n].ops))' = Data(Len(t[n].ops))
             /\ After(script, t[n], Data(Len(t[n].ops)))' = After(script, t[n], Data(Len(t[n].ops)))
             /\ Sent(t[n], Data(Len(t[n].ops)))' <=> Sent(t[n], Data(Len(t[n].ops)))
  <2> DEFINE v == Data(Len(t[n].ops))
  <2>1. v' = v
    BY <1>1 DEF Data
  <2> HIDE DEF v
  <2>2. FromLoop(t[n], v)' = FromLoop(t[n], v)
    BY <1>1, <2>1 DEF FromLoop, Largest
  <2>3. FromReduce(t[n], v)' = FromReduce(t[n], v)
    BY <1>1, <2>1 DEF FromReduce, Resizes, Tunes, UserOp, Tuning
  <2>4. FromConfig(t[n], v)' = FromConfig(t[n], v) /\ FromPart(t[n], v)' = FromPart(t[n], v)
    BY <2>1 DEF FromConfig, FromPart
  <2>5. FromBatch(t[n], v)' = FromBatch(t[n], v)
    BY <2>1 DEF FromBatch
  <2>6. After(script, t[n], v)' = After(script, t[n], v)
    BY <2>2, <2>3, <2>4, <2>5 DEF After
  <2>7. Sent(t[n], v)' <=> Sent(t[n], v)
    BY <2>1 DEF Sent
  <2> QED
    BY <2>1, <2>6, <2>7 DEF v
<1>7. Traced(script, t, N, pos)'
  <2>1. /\ N \in Nat /\ pos \in [Rank -> 0 .. N]
        /\ \A r \in Rank : View(script, r)' = t[pos[r]]
        /\ \A n \in 0 .. N : Sound(script, t[n])
        /\ \A n \in 0 .. N-1 : /\ Len(t[n].ops) <= Len(calls'[0])
                               /\ t[n + 1] = After(script, t[n], Data(Len(t[n].ops)))'
        /\ \A i, j \in 0 .. N : i < j => Later(t[i], t[j])
        /\ \A n \in 0 .. N : Len(t[n].ops) <= Len(calls'[0]) => Sent(t[n], Data(Len(t[n].ops)))'
    BY <1>1, <1>3, <1>5, <1>6 DEF Traced
  <2> QED
    BY <2>1 DEF Traced
<1> QED
  BY <1>4, <1>5, <1>7 DEF OneHistory

(* The view that all ranks begin with. *)
LEMMA FirstView ==
  ASSUME NEW script \in Scripts, NEW a, a = V("next", OpsOf(<<>>), Len(script), NewMessenger, NewModel)
  PROVE  Sound(script, a)
<1>1. /\ a.pc = "next" /\ a.ops = OpsOf(<<>>) /\ a.left = Len(script)
      /\ a.msgr = NewMessenger /\ a.model = NewModel
  BY DEF V
<1>2. IsSeq(OpsOf(<<>>)) /\ Len(OpsOf(<<>>)) = 0
  <2>1. IsSeq(<<>>) /\ Len(<<>>) = 0
    BY DEF IsSeq
  <2> QED
    BY <2>1, OpsAre
<1>3. Weight("next") = 1
  BY DEF Weight
<1>4. SoundPlace(script, a)
  <2> DEFINE N == Len(script)
  <2>1. N \in Nat
    BY ScriptIs
  <2>2. SoundPlaceOf(script, "next", OpsOf(<<>>), N)
    <3>1. N \in 0 .. Len(script)
      <4>1. N = Len(script)
        OBVIOUS
      <4> HIDE DEF N
      <4> QED
        BY <2>1, <4>1
    <3> QED
      BY <1>2, <1>3, <3>1 DEF SoundPlaceOf, Pcs, ConfigPcs
  <2> QED
    BY <1>1, <2>2 DEF SoundPlace
<1>5. SoundMessenger(a)
  <2>1. NewMessenger.shmSize \in Int /\ NewMessenger.count \in Int
    BY MessengerAssumption DEF NewMessenger
  <2>2. SoundMessengerOf("next", OpsOf(<<>>), NewMessenger)
    BY <1>2, <2>1 DEF SoundMessengerOf, ReducePcs
  <2> QED
    BY <1>1, <2>2 DEF SoundMessenger
<1>6. SoundModel(script, a)
  BY <1>1, FirstModelIs DEF SoundModel
<1> QED
  BY <1>4, <1>5, <1>6 DEF Sound

LEMMA HistoryBegins ==
  ASSUME Init
  PROVE  OneHistory
<1>1. PICK script \in Scripts : todo = [r \in Rank |-> IF r = 0 THEN script ELSE Append(script, Again(script))]
  BY DEF Init
<1>2. \A r \in Rank : todo[r] = Full(script, r)
  BY <1>1 DEF Full
<1>3. /\ DOMAIN pc = Rank /\ DOMAIN calls = Rank /\ DOMAIN msgr = Rank /\ DOMAIN todo = Rank /\ DOMAIN model = Rank
      /\ \A r \in Rank : /\ pc[r] = "next" /\ calls[r] = <<>>
                         /\ msgr[r] = NewMessenger /\ model[r] = NewModel
  BY <1>1 DEF Init, MessengerInit
<1>4. Domains
  BY <1>3 DEF Domains
<1>5. Master
  BY <1>3, RanksAre, MasterIs DEF Master, WordPcs
<1>6. ASSUME NEW r \in Rank PROVE Orderly(script, r) /\ LeftOf(r, todo[r]) = Len(script)
  <2> DEFINE F == Full(script, r)
             n == Len(F)
  <2>1. IsSeq(F) /\ n = Len(script) + (IF r = 0 THEN 0 ELSE 1) /\ Len(script) \in Nat
    BY FullIs, ScriptIs
  <2>2. LeftOf(r, todo[r]) = n - (IF r = 0 THEN 0 ELSE 1)
    BY <1>2 DEF LeftOf
  <2>3. IsSeq(<<>>)
    BY DEF IsSeq
  <2>4. Rest(F, F)
    <3>1. n \in Nat
      BY <2>1 DEF IsSeq
    <3>2. \A i \in 1 .. n : n - n + i = i
      <4> HIDE DEF n
      <4> QED
        BY <3>1
    <3>3. \A i \in 1 .. n : F[i] = F[n - n + i]
      <4> HIDE DEF n, F
      <4> QED
        BY <3>2
    <3>4. n <= n
      <4> HIDE DEF n
      <4> QED
        BY <3>1
    <3> HIDE DEF F
    <3> QED
      BY <2>1, <3>3, <3>4 DEF Rest
  <2>5. Orderly(script, r)
    BY <1>2, <1>3, <2>3, <2>4 DEF Orderly
  <2>6. LeftOf(r, todo[r]) = Len(script)
    <3> HIDE DEF n
    <3> QED
      BY <2>1, <2>2
  <2> QED
    BY <2>5, <2>6
<1> DEFINE a == V("next", OpsOf(<<>>), Len(script), NewMessenger, NewModel)
           t == [n \in 0 .. 0 |-> a]
           pos == [r \in Rank |-> 0]
<1>7. ASSUME NEW r \in Rank PROVE View(script, r) = a
  <2>1. View(script, r) = V(PcOf(script, r, "next"), OpsOf(<<>>), LeftOf(r, todo[r]), NewMessenger,
                            ModelOf(LeftOf(r, todo[r]), "next", NewModel))
    BY <1>3 DEF View, ViewOf
  <2>2. PcOf(script, r, "next") = "next"
    BY DEF PcOf
  <2>3. \A l : ModelOf(l, "next", NewModel) = NewModel
    <3> HIDE DEF NewModel
    <3> QED
      BY DEF ModelOf
  <2> QED
    BY <1>6, <2>1, <2>2, <2>3
<1>8. Sound(script, a)
  BY FirstView
<1>9. a.pc = "next" /\ Weight("next") = 1
  BY DEF V, Weight
<1> HIDE DEF a
<1>10. Sent(a, Data(Len(a.ops)))
  BY <1>9, QuietSent
<1>11. t[0] = a /\ pos \in [Rank -> 0 .. 0] /\ \A r \in Rank : pos[r] = 0
  OBVIOUS
<1>12. Traced(script, t, 0, pos)
  <2>1. \A n \in 0 .. 0 : n = 0
    OBVIOUS
  <2>2. \A n \in 0 .. 0-1 : FALSE
    OBVIOUS
  <2>3. \A i, j \in 0 .. 0 : ~(i < j)
    OBVIOUS
  <2> HIDE DEF t, pos
  <2> QED
    BY <1>7, <1>8, <1>10, <1>11, <2>1, <2>2, <2>3 DEF Traced
<1> QED
  BY <1>4, <1>5, <1>6, <1>12 DEF OneHistory

-----------------------------------------------------------------------------
(* What the history says of two ranks. *)
LEMMA SamePrefix ==
  ASSUME NEW script \in Scripts, NEW t, NEW N, NEW pos, Traced(script, t, N, pos),
         \A s \in Rank : Orderly(script, s),
         NEW r \in Rank, NEW s \in Rank, NEW k \in 1 .. Len(calls[r]), k \in 1 .. Len(calls[s])
  PROVE  calls[r][k].op = calls[s][k].op /\ calls[r][k].count = calls[s][k].count
<1> DEFINE i == pos[r]
           j == pos[s]
<1>1. N \in Nat /\ i \in 0 .. N /\ j \in 0 .. N /\ View(script, r) = t[i] /\ View(script, s) = t[j]
  BY DEF Traced
<1>2. IsSeq(calls[r]) /\ IsSeq(calls[s])
  BY DEF Orderly
<1>3. /\ t[i].ops = OpsOf(calls[r]) /\ Len(t[i].ops) = Len(calls[r])
      /\ t[j].ops = OpsOf(calls[s]) /\ Len(t[j].ops) = Len(calls[s])
  BY <1>1, <1>2, ViewIs
<1>4. t[i].ops[k] = <<calls[r][k].op, calls[r][k].count>> /\ t[j].ops[k] = <<calls[s][k].op, calls[s][k].count>>
  BY <1>2, <1>3, OpsAre
<1> HIDE DEF i, j
<1>5. i < j \/ i = j \/ j < i
  BY <1>1
<1>6. t[i].ops[k] = t[j].ops[k]
  <2>1. CASE i < j
    <3>1. Later(t[i], t[j])
      BY <1>1, <2>1 DEF Traced
    <3> QED
      BY <1>3, <3>1 DEF Later
  <2>2. CASE j < i
    <3>1. Later(t[j], t[i])
      BY <1>1, <2>2 DEF Traced
    <3> QED
      BY <1>3, <3>1 DEF Later
  <2> QED
    BY <1>5, <2>1, <2>2
<1> QED
  BY <1>4, <1>6

LEMMA HistoryMatches ==
  ASSUME OneHistory
  PROVE  CollectivesMatch
<1>1. PICK script \in Scripts : /\ \A s \in Rank : Orderly(script, s)
                                /\ \E t, N, pos : Traced(script, t, N, pos)
  BY DEF OneHistory
<1>2. PICK t, N, pos : Traced(script, t, N, pos)
  BY <1>1
<1>3. \A r \in Rank : DOMAIN calls[r] = 1 .. Len(calls[r])
  BY <1>1, SeqIs DEF Orderly
<1> QED
  BY <1>1, <1>2, <1>3, SamePrefix DEF CollectivesMatch

LEMMA HistoryFits ==
  ASSUME OneHistory
  PROVE  ShmMappedAlike
<1>1. PICK script \in Scripts : /\ \A s \in Rank : Orderly(script, s)
                                /\ \E t, N, pos : Traced(script, t, N, pos)
  BY DEF OneHistory
<1>2. PICK t, N, pos : Traced(script, t, N, pos)
  BY <1>1
<1> SUFFICES ASSUME NEW r \in Rank, NEW s \in Rank, Len(calls[r]) = Len(calls[s]), calls[r] # <<>>,
                    Last(calls[r]).op = "shm", pc[r] # "resized", pc[s] # "resized"
             PROVE  msgr[r].shmSize = msgr[s].shmSize /\ Last(calls[r]).count <= msgr[r].shmSize
  BY DEF ShmMappedAlike
<1> DEFINE i == pos[r]
           j == pos[s]
           n == Len(calls[r])
<1>3. N \in Nat /\ i \in 0 .. N /\ j \in 0 .. N /\ View(script, r) = t[i] /\ View(script, s) = t[j]
  BY <1>2 DEF Traced
<1>4. IsSeq(calls[r]) /\ IsSeq(calls[s]) /\ n \in Nat \ {0} /\ Len(calls[s]) = n
  <2>1. IsSeq(calls[r]) /\ IsSeq(calls[s])
    BY <1>1 DEF Orderly
  <2> QED
    BY <2>1, EmptyIs DEF IsSeq
<1>5. ASSUME NEW q \in Rank, pc[q] # "resized" PROVE PcOf(script, q, pc[q]) # "resized"
  BY <1>5 DEF PcOf, LoopLabel
<1>6. /\ t[i].ops = OpsOf(calls[r]) /\ Len(t[i].ops) = n /\ t[i].msgr = msgr[r] /\ t[i].pc # "resized"
      /\ Len(t[j].ops) = n /\ t[j].msgr = msgr[s] /\ t[j].pc # "resized"
  BY <1>3, <1>4, <1>5, ViewIs
<1>7. t[i].ops[n] = <<"shm", Last(calls[r]).count>>
  <2>1. Last(calls[r]) = calls[r][n]
    BY DEF Last
  <2>2. n \in 1 .. Len(calls[r])
    BY <1>4
  <2> HIDE DEF n
  <2> QED
    BY <1>4, <1>6, <2>1, <2>2, OpsAre
<1> HIDE DEF i, j, n
<1>8. msgr[r].shmSize = msgr[s].shmSize
  <2>1. CASE i < j
    BY <1>2, <1>3, <1>6, <2>1 DEF Traced, Later
  <2>2. CASE j < i
    BY <1>2, <1>3, <1>6, <2>2 DEF Traced, Later
  <2>3. CASE i = j
    BY <1>6, <2>3
  <2> QED
    BY <1>3, <2>1, <2>2, <2>3
<1>9. Last(calls[r]).count <= msgr[r].shmSize
  <2> DEFINE o == t[i].ops
  <2>1. Len(o) > 0 /\ o[Len(o)][1] = "shm" => o[Len(o)][2] <= msgr[r].shmSize
    BY <1>2, <1>3, <1>6 DEF Traced, Sound, SoundMessenger, SoundMessengerOf
  <2> HIDE DEF o
  <2>2. Len(o) = n /\ o[n] = <<"shm", Last(calls[r]).count>>
    BY <1>6, <1>7 DEF o
  <2> QED
    BY <1>4, <2>1, <2>2
<1> QED
  BY <1>8, <1>9

(* A rank enters a collective when the one before has returned: it has     *)
(* left no collective that needs everyone before everyone has entered it.  *)
Met ==
  \A r, s \in Rank : \A k \in 1 .. Len(calls[r]) - 1 : calls[r][k].op # "broadcast" => Len(calls[s]) >= k

Entering(r) == Returned(r) /\ \E x : calls' = [calls EXCEPT ![r] = Append(calls[r], x)]

LEMMA StepEnters ==
  ASSUME NEW r \in Rank, Step(r)
  PROVE  calls' = calls \/ Entering(r)
<1>1. ASSUME Returned(r), NEW op, NEW count, NEW data, Enter(r, op, count, data) PROVE Entering(r)
  BY <1>1 DEF Enter, Entering
<1>2. CASE ReduceAdd(r)
  <2>1. CASE Resize(r) \/ Typed(r)
    BY <2>1 DEF Resize, Typed
  <2>2. CASE Tune(r)
    BY <1>1, <2>2 DEF Tune
  <2>3. CASE Timed(r)
    BY <1>1, <2>3 DEF Timed, At, Broadcast
  <2>4. CASE Reduce(r)
    BY <1>1, <2>4 DEF Reduce
  <2> QED
    BY <1>2, <2>1, <2>2, <2>3, <2>4 DEF ReduceAdd
<1>3. CASE \/ SlaveExits(r) \/ NoStopWords(r) \/ SetStopWords(r) \/ SetInput(r) \/ Generate(r) \/ Picked(r)
           \/ Finalize(r) \/ SetPrefix(r) \/ UnsetPrefix(r) \/ ForwardReturns(r) \/ SlaveExitsBatching(r)
           \/ Group(r) \/ GroupFails(r) \/ Forward(r) \/ FreeSeqs(r)
  BY <1>3 DEF SlaveExits, NoStopWords, SetStopWords, SetInput, Generate, Picked, Finalize, SetPrefix, UnsetPrefix,
              ForwardReturns, SlaveExitsBatching, Group, GroupFails, Forward, FreeSeqs, commVars
<1>4. CASE Config(r) \/ CreateSearcher(r) \/ StopWordsSize(r) \/ StopWordsData(r) \/ InputDims(r) \/ InputIds(r)
  BY <1>1, <1>4 DEF Config, CreateSearcher, StopWordsSize, StopWordsData, InputDims, InputIds, Call, At, Broadcast
<1>5. CASE Search(r) \/ Sample(r) \/ PrefixLen(r) \/ PrefixIds(r) \/ SetInputDim(r) \/ SetInputIds(r)
  BY <1>1, <1>5 DEF Search, Sample, PrefixLen, PrefixIds, SetInputDim, SetInputIds, Call, At, Broadcast
<1>6. CASE GatherLogits(r) \/ FreeSize(r) \/ FreeIDs(r) \/ ExitSlaves(r)
  BY <1>1, <1>6 DEF GatherLogits, FreeSize, FreeIDs, ExitSlaves, Call, At, Broadcast
<1>7. CASE SetInputPart(r)
  <2>1. PICK p \in 1 .. 4 :
          /\ At(r, Parts[p])
          /\ LET q == NextPart(model[r], p) IN
               IF q = 0 THEN Goto(r, "group") /\ UNCHANGED calls
               ELSE /\ Broadcast(r, IF r = 0 THEN Arg(r)[Parts[q]] ELSE None, model[r].dims[q])
                    /\ Goto(r, Parts[q])
    BY <1>7 DEF SetInputPart
  <2> QED
    BY <1>1, <2>1 DEF At, Broadcast
<1> QED
  BY <1>2, <1>3, <1>4, <1>5, <1>6, <1>7 DEF Step

LEMMA HistoryLengths ==
  ASSUME OneHistory
  PROVE  DOMAIN calls = Rank /\ \A r \in Rank : IsSeq(calls[r]) /\ Len(calls[r]) \in Nat
BY DEF OneHistory, Domains, Orderly, IsSeq

LEMMA StepMeets ==
  ASSUME OneHistory, Met, NEW r \in Rank, Step(r)
  PROVE  Met'
<1>1. CASE calls' = calls
  BY <1>1 DEF Met
<1>2. CASE Entering(r)
  <2>1. PICK x : calls' = [calls EXCEPT ![r] = Append(calls[r], x)]
    BY <1>2 DEF Entering
  <2>2. DOMAIN calls = Rank /\ \A s \in Rank : IsSeq(calls[s]) /\ Len(calls[s]) \in Nat
    BY HistoryLengths
  <2> DEFINE n == Len(calls[r])
  <2>3. /\ calls'[r] = Append(calls[r], x) /\ \A s \in Rank \ {r} : calls'[s] = calls[s]
        /\ Len(calls'[r]) = n + 1 /\ \A k \in 1 .. n : calls'[r][k] = calls[r][k]
    BY <2>1, <2>2, AppendIs
  <2>4. \A s \in Rank : Len(calls'[s]) \in Nat /\ Len(calls'[s]) >= Len(calls[s])
    BY <2>2, <2>3
  <2>5. n > 0 /\ calls[r][n].op # "broadcast" => \A s \in Rank : Len(calls[s]) >= n
    BY <1>2, <2>2 DEF Entering, Returned
  <2>6. ASSUME NEW q \in Rank, NEW s \in Rank, NEW k \in 1 .. Len(calls'[q]) - 1, calls'[q][k].op # "broadcast"
        PROVE  Len(calls'[s]) >= k
    <3>1. CASE q # r
      <4>1. k \in 1 .. Len(calls[q]) - 1 /\ calls[q][k].op # "broadcast"
        BY <2>3, <2>6, <3>1
      <4>2. Len(calls[s]) >= k
        BY <4>1 DEF Met
      <4> QED
        BY <2>2, <2>4, <4>2
    <3>2. CASE q = r
      <4>1. k \in 1 .. n /\ calls[r][k].op # "broadcast"
        BY <2>2, <2>3, <2>6, <3>2
      <4>2. CASE k = n
        BY <2>2, <2>4, <2>5, <4>1, <4>2
      <4>3. CASE k # n
        <5>1. k \in 1 .. n - 1
          BY <2>2, <4>1, <4>3
        <5>2. Len(calls[s]) >= k
          BY <4>1, <5>1 DEF Met
        <5> QED
          BY <2>2, <2>4, <5>2
      <4> QED
        BY <4>2, <4>3
    <3> QED
      BY <3>1, <3>2
  <2> QED
    BY <2>6 DEF Met
<1> QED
  BY <1>1, <1>2, StepEnters

(* A rank that waits for the logits enters an allgatherv next. *)
LEMMA AfterSearch ==
  ASSUME NEW script, NEW a, NEW v, IsSeq(a.ops), a.pc \in {"search", "gather"},
         NEW b, b = After(script, a, v)
  PROVE  Len(b.ops) = Len(a.ops) + 1 /\ b.ops[Len(a.ops) + 1][1] = "allgatherv"
<1>1. \E count : b.ops = Append(a.ops, <<"allgatherv", count>>)
  BY DEF After, ConfigPcs, LoopPcs, PartPcs, BatchPcs, FromLoop, FromBatch, Calls, V
<1>2. PICK count : b.ops = Append(a.ops, <<"allgatherv", count>>)
  BY <1>1
<1> DEFINE x == <<"allgatherv", count>>
<1>3. x[1] = "allgatherv" /\ b.ops = Append(a.ops, x)
  BY <1>2
<1> HIDE DEF x
<1>4. Len(b.ops) = Len(a.ops) + 1 /\ b.ops[Len(a.ops) + 1] = x
  BY <1>3, AppendIs
<1> QED
  BY <1>3, <1>4

LEMMA HistoryWipes ==
  ASSUME OneHistory, Met
  PROVE  WipedOnlyInPrefix
<1>1. PICK script \in Scripts : /\ \A s \in Rank : Orderly(script, s)
                                /\ \E t, N, pos : Traced(script, t, N, pos)
  BY DEF OneHistory
<1>2. PICK t, N, pos : Traced(script, t, N, pos)
  BY <1>1
<1> SUFFICES ASSUME Resizing(0), NEW s \in Lingering, msgr[s].ret # "return"
             PROVE  FALSE
  BY DEF WipedOnlyInPrefix
<1> DEFINE i == pos[s]
           j == pos[0]
           n == Len(calls[s])
           k == Len(calls[0])
<1>3. /\ s \in Rank /\ s # 0 /\ 0 \in Rank /\ calls[s] # <<>> /\ Last(calls[s]).op = "shm"
      /\ n <= k /\ pc[s] = msgr[s].ret
  BY RanksAre DEF Lingering
<1>4. /\ N \in Nat /\ i \in 0 .. N /\ j \in 0 .. N /\ View(script, s) = t[i] /\ View(script, 0) = t[j]
      /\ \A m \in 0 .. N : Sound(script, t[m]) /\ Len(t[m].ops) \in Nat /\ IsSeq(t[m].ops)
  BY <1>2, <1>3, TracedPlaced DEF Traced, Placed
<1>5. IsSeq(calls[s]) /\ IsSeq(calls[0]) /\ n \in Nat \ {0} /\ k \in Nat
  <2>1. IsSeq(calls[s]) /\ IsSeq(calls[0])
    BY <1>1, <1>3 DEF Orderly
  <2> QED
    BY <1>3, <2>1, EmptyIs DEF IsSeq
<1>6. pc[0] = "reduceAdd" /\ Returned(0) /\ Tuning /\ msgr[0].count > msgr[0].shmSize
  BY DEF Resizing, At
<1>7. /\ t[i].ops = OpsOf(calls[s]) /\ Len(t[i].ops) = n /\ t[i].msgr = msgr[s] /\ t[i].pc = pc[s]
      /\ t[j].ops = OpsOf(calls[0]) /\ Len(t[j].ops) = k /\ t[j].msgr = msgr[0] /\ t[j].pc = "reduceAdd"
  BY <1>3, <1>4, <1>5, <1>6, ViewIs DEF PcOf
<1>8. pc[s] \in {"search", "gather"}
  <2>1. t[i].ops[n] = <<"shm", Last(calls[s]).count>>
    <3>1. Last(calls[s]) = calls[s][n]
      BY DEF Last
    <3>2. n \in 1 .. Len(calls[s])
      BY <1>5
    <3> HIDE DEF n
    <3> QED
      BY <1>3, <1>5, <1>7, <3>1, <3>2, OpsAre
  <2> DEFINE o == t[i].ops
  <2>2. Len(o) > 0 /\ o[Len(o)][1] = "shm" => msgr[s].ret \in {"search", "return", "gather"}
    BY <1>4, <1>7 DEF Sound, SoundMessenger, SoundMessengerOf
  <2> HIDE DEF o, i, n
  <2>3. Len(o) = n /\ o[n] = <<"shm", Last(calls[s]).count>>
    BY <1>7, <2>1 DEF o
  <2> QED
    BY <1>3, <1>5, <2>2, <2>3
<1> HIDE DEF i, j, n, k
<1>9. CASE i < j
  <2>1. i \in 0 .. N-1 /\ i + 1 \in 0 .. N /\ i + 1 <= j
    BY <1>4, <1>9
  <2>2. t[i + 1] = After(script, t[i], Data(Len(t[i].ops)))
    BY <1>2, <2>1 DEF Traced
  <2>3. Len(t[i + 1].ops) = n + 1 /\ t[i + 1].ops[n + 1][1] = "allgatherv"
    <3>1. IsSeq(t[i].ops) /\ t[i].pc \in {"search", "gather"} /\ Len(t[i].ops) = n
      BY <1>4, <1>7, <1>8
    <3>2. /\ Len(t[i + 1].ops) = Len(t[i].ops) + 1
          /\ t[i + 1].ops[Len(t[i].ops) + 1][1] = "allgatherv"
      BY <2>2, <3>1, AfterSearch
    <3> QED
      BY <3>1, <3>2
  <2>4. i + 1 = j \/ Later(t[i + 1], t[j])
    <3>1. CASE i + 1 = j
      BY <3>1
    <3>2. CASE i + 1 # j
      <4>1. i + 1 < j
        BY <1>4, <2>1, <3>2
      <4> QED
        BY <1>2, <1>4, <2>1, <4>1 DEF Traced
    <3> QED
      BY <3>1, <3>2
  <2>5. n + 1 <= k /\ t[j].ops[n + 1][1] = "allgatherv"
    <3>1. CASE i + 1 = j
      BY <1>5, <1>7, <2>3, <3>1
    <3>2. CASE Later(t[i + 1], t[j])
      <4>1. n + 1 \in 1 .. Len(t[i + 1].ops)
        BY <1>5, <2>3
      <4> QED
        BY <1>7, <2>3, <3>2, <4>1 DEF Later
    <3> QED
      BY <2>4, <3>1, <3>2
  <2>6. n + 1 \in 1 .. k
    BY <1>5, <2>5
  <2>7. calls[0][n + 1].op = "allgatherv"
    <3>1. t[j].ops[n + 1] = <<calls[0][n + 1].op, calls[0][n + 1].count>>
      BY <1>5, <1>7, <2>6, OpsAre DEF k
    <3> QED
      BY <2>5, <3>1
  <2>8. Len(calls[s]) >= n + 1
    <3>1. CASE n + 1 = k
      <4>1. Len(calls[0]) = n + 1 /\ n + 1 # 0
        BY <1>5, <3>1 DEF k
      <4> QED
        BY <1>3, <1>6, <2>7, <4>1 DEF Returned
    <3>2. CASE n + 1 # k
      <4>1. n + 1 \in 1 .. Len(calls[0]) - 1
        BY <1>5, <2>6, <3>2 DEF k
      <4> QED
        BY <1>3, <2>7, <4>1 DEF Met
    <3> QED
      BY <3>1, <3>2
  <2> QED
    BY <1>5, <2>8 DEF n
<1>10. CASE j < i
  <2>1. j \in 0 .. N-1 /\ j + 1 \in 0 .. N /\ j + 1 <= i
    BY <1>4, <1>10
  <2>2. t[j + 1] = After(script, t[j], Data(Len(t[j].ops)))
    BY <1>2, <2>1 DEF Traced
  <2>3. t[j + 1].pc = "resized" /\ Len(t[j + 1].ops) = k
    <3>1. Resizes(t[j]) /\ t[j].pc \in ReducePcs
      BY <1>6, <1>7 DEF Resizes, ReducePcs
    <3>2. t[j + 1] = FromReduce(t[j], Data(Len(t[j].ops)))
      BY <2>2, <3>1, ReduceIs
    <3>3. t[j + 1].pc = "resized" /\ t[j + 1].ops = t[j].ops
      BY <1>7, <3>1, <3>2 DEF FromReduce, V
    <3> QED
      BY <1>7, <3>3
  <2>4. j + 1 # i
    BY <1>7, <1>8, <2>3
  <2>5. j + 1 < i
    BY <1>4, <2>1, <2>4
  <2>6. Later(t[j + 1], t[i])
    BY <1>2, <1>4, <2>1, <2>5 DEF Traced
  <2>7. k < n
    BY <1>7, <2>3, <2>6 DEF Later
  <2> QED
    BY <1>3, <1>5, <2>7 DEF n, k
<1>11. i # j
  BY <1>7, <1>8
<1> QED
  BY <1>4, <1>9, <1>10, <1>11

LEMMA HistoryAgrees ==
  ASSUME OneHistory
  PROVE  RanksAgree
<1>1. PICK script \in Scripts : /\ \A s \in Rank : Orderly(script, s)
                                /\ \E t, N, pos : Traced(script, t, N, pos)
  BY DEF OneHistory
<1>2. PICK t, N, pos : Traced(script, t, N, pos)
  BY <1>1
<1>3. ASSUME NEW r \in Rank, NEW s \in Rank, pc[r] = pc[s], pc[r] \in {"loop", "next"},
             Len(calls[r]) = Len(calls[s]), Left(r) = Left(s)
      PROVE  model[r] = model[s]
  <2> DEFINE i == pos[r]
             j == pos[s]
  <2>1. N \in Nat /\ i \in 0 .. N /\ j \in 0 .. N /\ View(script, r) = t[i] /\ View(script, s) = t[j]
    BY <1>2 DEF Traced
  <2>2. IsSeq(calls[r]) /\ IsSeq(calls[s])
    BY <1>1 DEF Orderly
  <2>3. ASSUME NEW q \in Rank, pc[q] \in {"loop", "next"}
        PROVE  PcOf(script, q, pc[q]) = pc[q] /\ ModelOf(LeftOf(q, todo[q]), pc[q], model[q]) = model[q]
    BY <2>3 DEF PcOf, ModelOf
  <2>4. /\ Len(t[i].ops) = Len(calls[r]) /\ t[i].left = Left(r) /\ t[i].pc = pc[r] /\ t[i].model = model[r]
        /\ Len(t[j].ops) = Len(calls[s]) /\ t[j].left = Left(s) /\ t[j].pc = pc[s] /\ t[j].model = model[s]
    <3>1. LeftOf(r, todo[r]) = Left(r) /\ LeftOf(s, todo[s]) = Left(s)
      BY DEF LeftOf, Left
    <3> QED
      BY <1>3, <2>1, <2>2, <2>3, <3>1, ViewIs
  <2> HIDE DEF i, j
  <2>5. /\ Sound(script, t[i]) /\ Sound(script, t[j])
    BY <1>2, <2>1 DEF Traced
  <2>6. Len(t[i].ops) \in Nat /\ Len(t[j].ops) \in Nat /\ t[i].left \in Nat /\ t[j].left \in Nat
    BY <2>5, PlaceIs DEF IsSeq
  <2>7. Weight(pc[r]) \in Int
    BY WeightType
  <2>8. ~Later(t[i], t[j]) /\ ~Later(t[j], t[i])
    BY <1>3, <2>4, <2>6, <2>7 DEF Later
  <2>9. i = j
    <3>1. ~(i < j) /\ ~(j < i)
      BY <1>2, <2>1, <2>8 DEF Traced
    <3> QED
      BY <2>1, <3>1
  <2> QED
    BY <2>4, <2>9
<1> QED
  BY <1>3, Zenon DEF RanksAgree

-----------------------------------------------------------------------------
LEMMA NextKeeps ==
  ASSUME OneHistory, [Next]_vars
  PROVE  OneHistory'
<1>1. CASE UNCHANGED vars
  BY <1>1, HistoryStays
<1>2. CASE Next
  <2>1. CASE (\E r \in Rank : Step(r)) /\ UNCHANGED next
    BY <2>1, HistoryStep
  <2>2. CASE (AllExited \/ lost # {}) /\ UNCHANGED vars
    BY <2>2, HistoryStays
  <2> QED
    BY <1>2, <2>1, <2>2 DEF Next
<1> QED
  BY <1>1, <1>2

(* The ranks of a group, each with the arguments or without and at its own *)
(* pace, run through one history: the loops, broadcasts and decisions of   *)
(* Model::config, input, generate, setPrefix, set_input, forward, freeSeqs *)
(* and of Messenger::reduceAdd lead every rank through the same views.     *)
THEOREM Invariance == Spec => []OneHistory
<1>1. Init => OneHistory
  BY HistoryBegins
<1>2. OneHistory /\ [Next]_vars => OneHistory'
  BY NextKeeps
<1> QED
  BY <1>1, <1>2, PTL DEF Spec

(* Ranks that meet in a collective call of Messenger make the same one, on *)
(* as many elements, whatever rank 0's caller asks for: none waits for     *)
(* ever for another, and none receives what was sent for something else.   *)
THEOREM CollectivesAgree == Spec => []CollectivesMatch
<1>1. OneHistory => CollectivesMatch
  BY HistoryMatches
<1> QED
  BY <1>1, Invariance, PTL

(* Ranks that meet in shared memory have mapped it for the same size,      *)
(* large enough for what they add, although each enlarges it for itself    *)
(* and waits for nobody (ShmResize).                                       *)
THEOREM ShmIsMappedAlike == Spec => []ShmMappedAlike
<1>1. OneHistory => ShmMappedAlike
  BY HistoryFits
<1> QED
  BY <1>1, Invariance, PTL

(* ShmResize of rank 0 wipes state words that another rank may still wait  *)
(* on only after the forward of setPrefix: the others end in an            *)
(* allgatherv, and rank 0 gets out of it when every rank is out of the     *)
(* sums before.  Beside OneHistory this takes Met: that rank 0 has passed  *)
(* the allgatherv means that the others have entered it.                   *)
THEOREM OnlyPrefixIsWiped == Spec => []WipedOnlyInPrefix
<1>1. Init => OneHistory /\ Met
  <2> SUFFICES ASSUME Init PROVE OneHistory /\ Met
    OBVIOUS
  <2>1. \A r \in Rank : calls[r] = <<>>
    BY DEF Init, MessengerInit
  <2>2. \A r \in Rank : \A k \in 1 .. Len(calls[r]) - 1 : FALSE
    BY <2>1
  <2> QED
    BY <2>2, HistoryBegins DEF Met
<1>2. OneHistory /\ Met /\ [Next]_vars => OneHistory' /\ Met'
  <2> SUFFICES ASSUME OneHistory, Met, [Next]_vars PROVE OneHistory' /\ Met'
    OBVIOUS
  <2>1. OneHistory'
    BY NextKeeps
  <2>2. CASE UNCHANGED vars
    BY <2>1, <2>2 DEF Met, vars
  <2>3. CASE \E r \in Rank : Step(r)
    BY <2>1, <2>3, StepMeets
  <2> QED
    BY <2>2, <2>3 DEF Next
<1>3. OneHistory /\ Met => WipedOnlyInPrefix
  BY HistoryWipes
<1> QED
  BY <1>1, <1>2, <1>3, PTL DEF Spec

(* Ranks that are equally far have the same Model: the configuration, stop *)
(* words, input, output and sequences that rank 0 was called with.         *)
THEOREM RanksAlwaysAgree == Spec => []RanksAgree
<1>1. OneHistory => RanksAgree
  BY HistoryAgrees
<1> QED
  BY <1>1, Invariance, PTL
=============================================================================
