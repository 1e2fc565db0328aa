---------------------- MODULE ContinuousBatching_proofs ----------------------
(***************************************************************************)
(* Continuous batching, for every bound on IDs, groups, batches and        *)
(* positions and for every set of clients.                                 *)
(***************************************************************************)
EXTENDS ContinuousBatching, SequenceTheorems, WellFoundedInduction, TLAPS

-----------------------------------------------------------------------------
(* Facts about the naturals.  Induction is for a property given as a set:  *)
(* the provers cannot apply it to one given as an operator.                *)

(* A non-empty set of naturals has a least element. *)
LEMMA LeastNatural ==
  ASSUME NEW T \in SUBSET Nat, T # {}
  PROVE  \E x \in T : \A y \in T : x <= y
<1>1. PICK x \in T : \A y \in T : ~(<<y, x>> \in OpToRel(<, Nat))
  BY WFMin, NatLessThanWellFounded
<1>2. \A y \in T : ~(y < x)
  BY <1>1 DEF OpToRel
<1> QED
  BY <1>2

(* Induction, for a property given as a set. *)
LEMMA InductionOnNat ==
  ASSUME NEW T, 0 \in T, \A n \in Nat : n \in T => n + 1 \in T
  PROVE  Nat \subseteq T
<1> SUFFICES ASSUME Nat \ T # {} PROVE FALSE
  OBVIOUS
<1>1. PICK x \in Nat \ T : \A y \in Nat \ T : x <= y
  BY LeastNatural
<1>2. x # 0 /\ x - 1 \in Nat
  BY <1>1
<1>3. x - 1 \in T
  BY <1>1, <1>2
<1> QED
  BY <1>1, <1>2, <1>3

(* A list of naturals and a number have a largest element. *)
LEMMA GreatestOf ==
  ASSUME NEW n \in Nat, NEW f \in [1 .. n -> Nat], NEW k \in Nat
  PROVE  \E m \in {k} \cup {f[i] : i \in 1 .. n} : \A x \in {k} \cup {f[i] : i \in 1 .. n} : m >= x
<1> DEFINE Upto(j) == {k} \cup {f[i] : i \in 1 .. j}
           T == {j \in Nat : j <= n => \E m \in Upto(j) : \A x \in Upto(j) : m >= x}
<1>1. 0 \in T
  OBVIOUS
<1>2. ASSUME NEW j \in Nat, j \in T PROVE j + 1 \in T
  <2> SUFFICES ASSUME j + 1 <= n PROVE \E m \in Upto(j + 1) : \A x \in Upto(j + 1) : m >= x
    OBVIOUS
  <2>1. PICK m \in Upto(j) : \A x \in Upto(j) : m >= x
    BY <1>2
  <2>2. Upto(j + 1) = Upto(j) \cup {f[j + 1]}
    OBVIOUS
  <2>3. Upto(j + 1) \subseteq Nat
    OBVIOUS
  <2>4. CASE f[j + 1] >= m
    BY <2>1, <2>2, <2>3, <2>4
  <2>5. CASE ~(f[j + 1] >= m)
    <3>1. m \in Upto(j + 1)
      BY <2>1, <2>2
    <3>2. f[j + 1] \in Nat /\ m \in Nat
      BY <2>2, <2>3, <3>1
    <3>3. ASSUME NEW x \in Upto(j + 1) PROVE m >= x
      BY <2>1, <2>2, <2>3, <2>5, <3>2
    <3> HIDE DEF Upto
    <3> QED
      BY <3>1, <3>3
  <2> QED
    BY <2>4, <2>5
<1> HIDE DEF T
<1>3. n \in T
  BY <1>1, <1>2, InductionOnNat
<1> QED
  BY <1>3 DEF T

(* The quotient and the remainder are the only ones. *)
LEMMA DivModUnique ==
  ASSUME NEW n \in Nat \ {0}, NEW q \in Nat, NEW r \in 0 .. n-1
  PROVE  (n * q + r) \div n = q /\ (n * q + r) % n = r
OBVIOUS

-----------------------------------------------------------------------------
(* Sequences. *)
LEMMA SeqFacts ==
  ASSUME NEW S, NEW s \in Seq(S)
  PROVE  /\ Len(s) \in Nat /\ DOMAIN s = 1 .. Len(s)
         /\ \A i \in 1 .. Len(s) : s[i] \in S
         /\ Elems(s) \subseteq S
         /\ \A x : x \in Elems(s) <=> \E i \in 1 .. Len(s) : s[i] = x
BY LenProperties, ElementOfSeq DEF Elems

LEMMA FunctionIsSeq ==
  ASSUME NEW S, NEW n \in Nat, NEW f \in [1 .. n -> S]
  PROVE  f \in Seq(S) /\ Len(f) = n
BY IsASeq, LenProperties

LEMMA TailFacts ==
  ASSUME NEW S, NEW s \in Seq(S), s # <<>>
  PROVE  /\ Len(s) \in Nat /\ Len(s) >= 1
         /\ Head(s) = s[1] /\ Head(s) \in S /\ Head(s) \in Elems(s)
         /\ Tail(s) \in Seq(S) /\ Len(Tail(s)) = Len(s) - 1
         /\ \A i \in 1 .. Len(s) - 1 : Tail(s)[i] = s[i + 1]
         /\ Len(s) # 1 => Tail(s) # <<>>
         /\ Elems(Tail(s)) = {s[i] : i \in 2 .. Len(s)}
<1>1. /\ Len(s) \in Nat /\ Len(s) >= 1 /\ DOMAIN s = 1 .. Len(s)
      /\ Head(s) = s[1] /\ Head(s) \in S
      /\ Tail(s) \in Seq(S) /\ Len(Tail(s)) = Len(s) - 1
  BY HeadTailProperties, LenProperties, EmptySeq
<1>2. \A i \in 1 .. Len(s) - 1 : Tail(s)[i] = s[i + 1]
  BY HeadTailProperties, <1>1
<1>3. DOMAIN Tail(s) = 1 .. Len(s) - 1
  BY <1>1, LenProperties
<1>4. ASSUME Len(s) # 1 PROVE Tail(s) # <<>>
  <2>1. Len(Tail(s)) # 0
    BY <1>1, <1>4
  <2>2. Len(<<>>) = 0
    OBVIOUS
  <2> QED
    BY <2>1, <2>2
<1>5. Elems(Tail(s)) = {s[i] : i \in 2 .. Len(s)}
  <2>1. ASSUME NEW i \in 1 .. Len(s) - 1 PROVE Tail(s)[i] \in {s[k] : k \in 2 .. Len(s)}
    BY <1>1, <1>2, <2>1
  <2>2. ASSUME NEW k \in 2 .. Len(s) PROVE s[k] \in {Tail(s)[i] : i \in 1 .. Len(s) - 1}
    <3>1. k - 1 \in 1 .. Len(s) - 1 /\ Tail(s)[k - 1] = s[k]
      BY <1>1, <1>2
    <3> QED
      BY <3>1
  <2> QED
    BY <1>3, <2>1, <2>2 DEF Elems
<1>6. Head(s) \in Elems(s)
  BY <1>1 DEF Elems
<1> QED
  BY <1>1, <1>2, <1>4, <1>5, <1>6

LEMMA FrontFacts ==
  ASSUME NEW S, NEW s \in Seq(S), s # <<>>
  PROVE  LET t == SubSeq(s, 1, Len(s) - 1)
         IN  /\ Len(s) \in Nat /\ Len(s) >= 1 /\ s[Len(s)] \in S
             /\ t \in Seq(S) /\ Len(t) = Len(s) - 1
             /\ \A i \in 1 .. Len(s) - 1 : t[i] = s[i]
<1> DEFINE n == Len(s) - 1
           t == SubSeq(s, 1, n)
<1>1. Len(s) \in Nat /\ Len(s) >= 1 /\ s[Len(s)] \in S
  BY EmptySeq, SeqFacts
<1>2. n \in Nat /\ \A i \in 1 .. n : s[i] \in S
  BY <1>1, SeqFacts
<1> HIDE DEF n
<1>3. /\ t \in Seq(S) /\ Len(t) = IF 1 <= n THEN n - 1 + 1 ELSE 0
      /\ \A i \in 1 .. n - 1 + 1 : t[i] = s[1 + i - 1]
  BY <1>2, SubSeqProperties
<1>4. Len(t) = n /\ \A i \in 1 .. n : t[i] = s[i]
  BY <1>2, <1>3
<1> QED
  BY <1>1, <1>3, <1>4 DEF n

LEMMA BatchFacts ==
  ASSUME NEW S, NEW s \in Batches(S)
  PROVE  /\ s \in Seq(S) /\ s # <<>> /\ Len(s) \in Nat /\ Len(s) >= 1
         /\ DOMAIN s = 1 .. Len(s)
         /\ \A i, j \in 1 .. Len(s) : s[i] = s[j] => i = j
<1>1. PICK n \in 1 .. MaxBatch : /\ s \in [1 .. n -> S]
                                 /\ \A i, j \in 1 .. n : i # j => s[i] # s[j]
  BY DEF Batches
<1>2. n \in Nat /\ n >= 1
  BY BoundAssumption
<1>3. s \in Seq(S) /\ Len(s) = n
  BY <1>1, <1>2, FunctionIsSeq
<1> QED
  BY <1>1, <1>2, <1>3

-----------------------------------------------------------------------------
(* The jobs of set_input. *)
LEMMA LimitType ==
  ASSUME NEW maxLen \in MaxLens
  PROVE  Limit(maxLen) \in Nat /\ Limit(maxLen) >= 1 /\ Limit(maxLen) <= MaxSeqLen
BY BoundAssumption, InputAssumption DEF Limit, Smaller

LEMMA BatchLenIsLargest ==
  ASSUME NEW n \in Nat, NEW lens \in [1 .. n -> PromptLens], NEW maxLen \in MaxLens
  PROVE  /\ BatchLen(lens, maxLen) \in Nat
         /\ \A i \in 1 .. n : lens[i] <= BatchLen(lens, maxLen)
         /\ (\A i \in 1 .. n : lens[i] <= MaxSeqLen) => BatchLen(lens, maxLen) <= MaxSeqLen
<1> DEFINE all == {Limit(maxLen)} \cup {lens[i] : i \in 1 .. n}
           m == BatchLen(lens, maxLen)
<1>1. Limit(maxLen) \in Nat /\ Limit(maxLen) <= MaxSeqLen /\ MaxSeqLen \in Nat
  BY LimitType, BoundAssumption
<1>2. lens \in [1 .. n -> Nat]
  BY InputAssumption
<1>3. \E x \in all : \A y \in all : x >= y
  BY <1>1, <1>2, GreatestOf
<1>4. m = CHOOSE x \in all : \A y \in all : x >= y
  BY DEF BatchLen, Elems
<1>5. m \in all /\ \A y \in all : m >= y
  BY <1>3, <1>4
<1>6. all \subseteq Nat
  BY <1>1, <1>2
<1>7. m \in Nat
  BY <1>5, <1>6
<1>8. ASSUME NEW i \in 1 .. n PROVE lens[i] <= m
  BY <1>5, <1>7, <1>2
<1>9. ASSUME \A i \in 1 .. n : lens[i] <= MaxSeqLen PROVE m <= MaxSeqLen
  BY <1>5, <1>9, <1>1
<1> QED
  BY <1>7, <1>8, <1>9

LEMMA JobsTyped ==
  ASSUME NEW n \in 1 .. MaxBatch, NEW lens \in [1 .. n -> PromptLens], NEW maxLen \in MaxLens,
         SetInputPrompt(lens, maxLen) \/ SetInputConfig(lens, maxLen)
  PROVE  /\ todo' \in Seq(Job) /\ todo' # <<>> /\ Len(todo') = n /\ n \in Nat /\ Len(lens) = n
         /\ \A i \in 1 .. n : /\ todo'[i].prompt = lens[i] /\ todo'[i].prompt <= todo'[i].room
                              /\ todo'[i].prompt \in Nat
                              /\ todo'[i].maxLen # NoConfig =>
                                   /\ todo'[i].maxLen = todo'[i].room
                                   /\ (\A k \in 1 .. n : lens[k] <= MaxSeqLen) => todo'[i].room <= MaxSeqLen
<1>1. n \in Nat /\ n >= 1 /\ DOMAIN lens = 1 .. n /\ Len(lens) = n
  BY BoundAssumption, FunctionIsSeq
<1>2. \A i \in 1 .. n : lens[i] \in Nat
  BY InputAssumption
<1>3. CASE SetInputPrompt(lens, maxLen)
  <2>0. PICK room \in Rooms(lens, maxLen) :
          todo' = [i \in 1 .. n |-> [prompt |-> lens[i], room |-> room[i], maxLen |-> NoConfig]]
    BY <1>1, <1>3 DEF SetInputPrompt
  <2> DEFINE job(i) == [prompt |-> lens[i], room |-> room[i], maxLen |-> NoConfig]
  <2>1. todo' = [i \in 1 .. n |-> job(i)]
    BY <2>0
  <2>2. \A i \in 1 .. n : room[i] \in Nat /\ lens[i] <= room[i]
    <3>1. CASE room = [i \in 1 .. n |-> Larger(Limit(maxLen), lens[i])]
      BY <1>2, <3>1, LimitType DEF Larger
    <3>2. CASE room = [i \in 1 .. n |-> BatchLen(lens, maxLen)]
      BY <1>1, <3>2, BatchLenIsLargest
    <3> QED
      BY <1>1, <2>0, <3>1, <3>2 DEF Rooms
  <2>3. \A i \in 1 .. n : job(i) \in Job
    BY <1>2, <2>2 DEF Job, NoConfig
  <2> HIDE DEF job
  <2>4. todo' \in [1 .. n -> Job]
    BY <2>1, <2>3
  <2>5. todo' \in Seq(Job) /\ Len(todo') = n /\ todo' # <<>>
    BY <1>1, <2>4, FunctionIsSeq, EmptySeq
  <2> QED
    BY <1>1, <1>2, <2>1, <2>2, <2>5 DEF job
<1>4. CASE SetInputConfig(lens, maxLen)
  <2> DEFINE room == BatchLen(lens, maxLen)
             job(i) == [prompt |-> lens[i], room |-> room, maxLen |-> room]
  <2>1. todo' = [i \in 1 .. n |-> job(i)]
    BY <1>1, <1>4 DEF SetInputConfig
  <2>2. /\ room \in Nat /\ \A i \in 1 .. n : lens[i] <= room
        /\ (\A i \in 1 .. n : lens[i] <= MaxSeqLen) => room <= MaxSeqLen
    BY <1>1, BatchLenIsLargest
  <2> HIDE DEF room
  <2>3. \A i \in 1 .. n : job(i) \in Job
    BY <1>2, <2>2 DEF Job
  <2> HIDE DEF job
  <2>4. todo' \in [1 .. n -> Job]
    BY <2>1, <2>3
  <2>5. todo' \in Seq(Job) /\ Len(todo') = n /\ todo' # <<>>
    BY <1>1, <2>4, FunctionIsSeq, EmptySeq
  <2> QED
    BY <1>1, <1>2, <2>1, <2>2, <2>5 DEF job
<1> QED
  BY <1>3, <1>4

-----------------------------------------------------------------------------
(* Type correctness, action by action. *)
LEMMA TypeSetInput ==
  ASSUME TypeOK, InvCounts, NEW n \in 1 .. MaxBatch, NEW lens \in [1 .. n -> PromptLens], NEW maxLen \in MaxLens,
         SetInputPrompt(lens, maxLen) \/ SetInputConfig(lens, maxLen)
  PROVE  TypeOK' /\ InvCounts'
<1>1. todo' \in Seq(Job) /\ todo' # <<>> /\ Len(todo') = Len(lens)
  BY JobsTyped
<1>2. workingGroup' \in Seq(1 .. created)
  <2>1. workingGroup' = <<>>
    BY DEF SetInputPrompt, SetInputConfig
  <2> QED
    BY <2>1
<1>3. pc' = "add" /\ created + Len(lens) <= MaxGroups
  BY DEF SetInputPrompt, SetInputConfig
<1>4. UNCHANGED <<rules, pool, caches, readyCaches, cells, ret, held, fed>>
  BY DEF SetInputPrompt, SetInputConfig
<1> QED
  BY <1>1, <1>2, <1>3, <1>4 DEF TypeOK, InvCounts, pool, caches

LEMMA NextIDType ==
  ASSUME TypeOK
  PROVE  /\ CreateSequenceID(globalSequenceID) \in ID
         /\ CreateSequenceID(globalSequenceID) + 1 \in 0 .. MaxID
BY BoundAssumption DEF TypeOK, CreateSequenceID, ID

(* A cache found by addSequence is not the cache of another sequence. *)
LEMMA TypeAddSequence ==
  ASSUME TypeOK, NEW id \in ID, NEW room \in Nat, AddSequence(id, room), allocated < MaxGroups
  PROVE  /\ sequenceCaches' \in [ID -> {None} \cup 1 .. allocated']
         /\ freeCaches' \in Seq(1 .. allocated')
         /\ allocated' \in 0 .. MaxGroups /\ allocated <= allocated' /\ allocated' <= allocated + 1
         /\ cap' \in [Cache -> 0 .. MaxSeqLen]
         /\ cells' \in [Cache -> [Pos -> Cell]]
<1>1. CASE Exist(id)
  BY <1>1 DEF AddSequence, TypeOK
<1>2. CASE ~Exist(id)
  <2> DEFINE reuse == freeCaches # <<>>
             c     == IF reuse THEN freeCaches[Len(freeCaches)] ELSE allocated + 1
             size  == CacheLen(room)
  <2>1. /\ sequenceCaches' = [sequenceCaches EXCEPT ![id] = c]
        /\ freeCaches' = IF reuse THEN SubSeq(freeCaches, 1, Len(freeCaches)-1) ELSE <<>>
        /\ allocated' = IF reuse THEN allocated ELSE c
        /\ cap' = [cap EXCEPT ![c] = size]
        /\ cells' = [cells EXCEPT ![c] = [p \in Pos |-> IF p < size THEN @[p] ELSE Blank]]
    BY <1>2 DEF AddSequence
  <2>2. size \in 0 .. MaxSeqLen
    BY BoundAssumption DEF CacheLen, Smaller
  <2>3. allocated \in Nat /\ allocated' \in Nat /\ allocated <= allocated' /\ allocated' <= allocated + 1
    BY <2>1 DEF TypeOK
  <2>4. c \in 1 .. allocated'
    <3>1. CASE reuse
      <4>1. Len(freeCaches) \in 1 .. Len(freeCaches)
        BY <3>1, EmptySeq, SeqFacts DEF TypeOK
      <4> QED
        BY <2>1, <3>1, <4>1, SeqFacts DEF TypeOK
    <3>2. CASE ~reuse
      BY <2>1, <2>3, <3>2
    <3> QED
      BY <3>1, <3>2
  <2>5. freeCaches' \in Seq(1 .. allocated')
    <3>1. CASE reuse
      <4>1. freeCaches \in Seq(1 .. allocated')
        BY <2>1, <3>1 DEF TypeOK
      <4> QED
        BY <2>1, <3>1, <4>1, FrontFacts
    <3>2. CASE ~reuse
      BY <2>1, <3>2
    <3> QED
      BY <3>1, <3>2
  <2>6. c \in Cache
    BY <2>3, <2>4, BoundAssumption DEF Cache
  <2> HIDE DEF c, size
  <2>7. sequenceCaches' \in [ID -> {None} \cup 1 .. allocated']
    BY <2>1, <2>3, <2>4 DEF TypeOK
  <2>8. cap' \in [Cache -> 0 .. MaxSeqLen]
    BY <2>1, <2>2, <2>6 DEF TypeOK
  <2>9. cells' \in [Cache -> [Pos -> Cell]]
    <3>1. Blank \in Cell
      BY DEF Blank, Cell, None
    <3> QED
      BY <2>1, <2>6, <3>1 DEF TypeOK
  <2> QED
    BY <2>3, <2>5, <2>7, <2>8, <2>9, BoundAssumption
<1> QED
  BY <1>1, <1>2

LEMMA TypeAddGroup ==
  ASSUME TypeOK, InvCounts, AddGroup
  PROVE  TypeOK' /\ InvCounts'
<1> DEFINE id  == CreateSequenceID(globalSequenceID)
           job == Head(todo)
<1>1. id \in ID /\ globalSequenceID' \in 0 .. MaxID
  BY NextIDType DEF AddGroup
<1>2. pc = "add" /\ todo \in Seq(Job) /\ todo # <<>>
  BY DEF AddGroup, TypeOK
<1>3. /\ job \in Job /\ Len(todo) \in Nat /\ Len(todo) >= 1 /\ Tail(todo) \in Seq(Job)
      /\ Len(Tail(todo)) = Len(todo) - 1 /\ (Len(todo) # 1 => Tail(todo) # <<>>)
  BY <1>2, TailFacts
<1>4. created + 1 <= MaxGroups /\ created \in Nat /\ allocated <= created /\ allocated \in Nat
  BY <1>2, <1>3, BoundAssumption DEF InvCounts, TypeOK
<1>5. created' = created + 1 /\ created' \in 0 .. MaxGroups /\ created' \in Group
  <2>1. created' = created + 1
    BY DEF AddGroup, NewGroupMeta
  <2> QED
    BY <1>4, <2>1, BoundAssumption DEF Group
<1>6. meta' \in [Group -> Meta]
  <2>1. NewMeta(id, job.prompt, job.maxLen) \in Meta
    BY <1>1, <1>3 DEF NewMeta, Meta, Job
  <2>2. meta' = [meta EXCEPT ![created + 1] = NewMeta(id, job.prompt, job.maxLen)]
    BY DEF AddGroup, NewGroupMeta
  <2> QED
    BY <1>5, <2>1, <2>2 DEF TypeOK
<1>7. hub' \in [ID -> {None} \cup 1 .. created']
  <2>1. hub' = [hub EXCEPT ![id] = IF @ = None THEN created + 1 ELSE @]
    BY DEF AddGroup, NewGroupMeta
  <2> QED
    BY <1>1, <1>4, <1>5, <2>1 DEF TypeOK
<1>8. workingGroup' \in Seq(1 .. created')
  <2>1. workingGroup \in Seq(1 .. created')
    BY <1>4, <1>5, SeqMonotonic DEF TypeOK
  <2>2. workingGroup' = Append(workingGroup, created')
    BY <1>5 DEF AddGroup
  <2> QED
    BY <1>4, <1>5, <2>1, <2>2, AppendProperties
<1>9. /\ sequenceCaches' \in [ID -> {None} \cup 1 .. allocated']
      /\ freeCaches' \in Seq(1 .. allocated')
      /\ allocated' \in 0 .. MaxGroups /\ allocated <= allocated' /\ allocated' <= allocated + 1
      /\ cap' \in [Cache -> 0 .. MaxSeqLen]
      /\ cells' \in [Cache -> [Pos -> Cell]]
  <2>1. AddSequence(id, job.room) /\ job.room \in Nat /\ allocated < MaxGroups
    BY <1>3, <1>4, BoundAssumption DEF AddGroup, Job
  <2> QED
    BY <1>1, <2>1, TypeAddSequence
<1>10. readyCaches' \in Seq(1 .. allocated')
  <2>1. readyCaches \in Seq(1 .. allocated')
    BY <1>4, <1>9, SeqMonotonic DEF TypeOK
  <2> QED
    BY <2>1 DEF AddGroup
<1>11. /\ pc' \in {"client", "add"}
       /\ pc' = "add" => todo' \in Seq(Job) /\ todo' # <<>>
       /\ ret' \in BOOLEAN /\ rules' \in RuleSets /\ held' \subseteq ID /\ fed' \subseteq ID
  BY <1>1, <1>2, <1>3 DEF AddGroup, TypeOK
<1>12. InvCounts'
  <2>1. allocated' <= created'
    BY <1>4, <1>5, <1>9
  <2>2. todo' = Tail(todo)
    BY DEF AddGroup
  <2>3. created + Len(todo) <= MaxGroups
    BY <1>2 DEF InvCounts
  <2>4. created' + Len(todo') <= MaxGroups
    BY <1>3, <1>4, <1>5, <2>2, <2>3, BoundAssumption
  <2> QED
    BY <2>1, <2>4 DEF InvCounts
<1> QED
  BY <1>1, <1>5, <1>6, <1>7, <1>8, <1>9, <1>10, <1>11, <1>12 DEF TypeOK

(* The groups that a batch of known IDs names. *)
LEMMA GroupsOfBatch ==
  ASSUME TypeOK, NEW ids \in Batches(held), \A i \in DOMAIN ids : hub[ids[i]] # None
  PROVE  LET gs == [i \in DOMAIN ids |-> hub[ids[i]]]
         IN  /\ ids \in Seq(ID) /\ DOMAIN ids = 1 .. Len(ids) /\ Len(ids) \in Nat
             /\ gs \in Seq(1 .. created) /\ DOMAIN gs = DOMAIN ids /\ gs # <<>>
             /\ \A i \in DOMAIN ids : ids[i] \in held /\ ids[i] \in ID /\ gs[i] = hub[ids[i]]
<1> DEFINE gs == [i \in DOMAIN ids |-> hub[ids[i]]]
<1>1. /\ ids \in Seq(held) /\ Len(ids) \in Nat /\ Len(ids) >= 1 /\ DOMAIN ids = 1 .. Len(ids)
  BY BatchFacts
<1>2. \A i \in DOMAIN ids : ids[i] \in held /\ ids[i] \in ID
  BY <1>1, SeqFacts DEF TypeOK
<1>3. ids \in Seq(ID)
  BY <1>1, SeqMonotonic DEF TypeOK
<1>4. gs \in [1 .. Len(ids) -> 1 .. created]
  BY <1>1, <1>2 DEF TypeOK, None
<1>5. gs \in Seq(1 .. created) /\ Len(gs) = Len(ids)
  BY <1>1, <1>4, FunctionIsSeq
<1>6. gs # <<>>
  <2>1. Len(<<>>) = 0
    OBVIOUS
  <2> QED
    BY <1>1, <1>5, <2>1
<1> QED
  BY <1>1, <1>2, <1>3, <1>5, <1>6

LEMMA StepForwardFields ==
  ASSUME NEW m \in Meta
  PROVE  /\ StepForward(m).id = m.id /\ StepForward(m).prompt = m.prompt
         /\ StepForward(m).maxLen = m.maxLen /\ StepForward(m).done = m.done
         /\ StepForward(m).input = 1
         /\ StepForward(m).past = IF m.step = 0 THEN m.prompt ELSE m.past + 1
         /\ StepForward(m).generated = m.generated + 1
         /\ StepForward(m).step = m.step + 1
         /\ StepForward(m) \in Meta
<1> DEFINE q == IF m.step = 0 THEN m.prompt ELSE m.past + 1
           f == StepForward(m)
<1>1. f = [[[[m EXCEPT !.input = 1] EXCEPT !.past = q] EXCEPT !.generated = m.generated + 1]
             EXCEPT !.step = m.step + 1]
  BY DEF StepForward, Meta
<1>2. f = [id |-> m.id, prompt |-> m.prompt, generated |-> m.generated + 1, step |-> m.step + 1,
           past |-> q, input |-> 1, maxLen |-> m.maxLen, done |-> m.done]
  BY <1>1 DEF Meta
<1>3. q \in Nat
  BY DEF Meta
<1> HIDE DEF q
<1> QED
  BY <1>2, <1>3 DEF Meta, q

LEMMA StopCheckType ==
  ASSUME NEW m \in Meta, NEW eos
  PROVE  StopCheck(m, eos) \in Meta
<1> DEFINE d == m.done \/ eos \/ TotalLen(m) + 1 >= m.maxLen
<1>1. d \in BOOLEAN
  OBVIOUS
<1>2. StopCheck(m, eos) = [m EXCEPT !.done = d]
  BY DEF StopCheck
<1> HIDE DEF d
<1> QED
  BY <1>1, <1>2 DEF Meta

LEMMA TypeDecode ==
  ASSUME TypeOK, InvCounts, NEW ids \in Batches(held \cap fed), SetInputDecode(ids)
  PROVE  TypeOK' /\ InvCounts'
<1> DEFINE gs == [i \in DOMAIN ids |-> hub[ids[i]]]
<1>1. ids \in Batches(held) /\ \A i \in DOMAIN ids : hub[ids[i]] # None
  BY DEF SetInputDecode, Batches
<1>2. gs \in Seq(1 .. created)
  BY <1>1, GroupsOfBatch
<1>3. meta' \in [Group -> Meta]
  <2>1. meta' = [g \in Group |-> IF g \in Elems(gs) THEN StepForward(meta[g]) ELSE meta[g]]
    BY DEF SetInputDecode
  <2>2. \A g \in Group : meta[g] \in Meta
    BY DEF TypeOK
  <2> QED
    BY <2>1, <2>2, StepForwardFields
<1>4. /\ workingGroup' = gs /\ fed' \subseteq fed
      /\ UNCHANGED <<rules, globalSequenceID, created, hub, caches, readyCaches, cells, pc, todo, ret, held>>
  BY DEF SetInputDecode
<1> HIDE DEF gs
<1> QED
  BY <1>2, <1>3, <1>4 DEF TypeOK, InvCounts, caches

LEMMA TypeResume ==
  ASSUME TypeOK, InvCounts, NEW ids \in Batches(held), SetInputResume(ids)
  PROVE  TypeOK' /\ InvCounts'
<1> DEFINE gs == [i \in DOMAIN ids |-> hub[ids[i]]]
<1>1. gs \in Seq(1 .. created)
  BY GroupsOfBatch DEF SetInputResume
<1>2. /\ workingGroup' = gs
      /\ UNCHANGED <<rules, pool, caches, readyCaches, cells, pc, todo, ret, held, fed>>
  BY DEF SetInputResume
<1> HIDE DEF gs
<1> QED
  BY <1>1, <1>2 DEF TypeOK, InvCounts, pool, caches

-----------------------------------------------------------------------------
(* What a computation stores. *)
LEMMA WorkingType ==
  ASSUME TypeOK
  PROVE  /\ DOMAIN workingGroup = 1 .. Len(workingGroup) /\ Len(workingGroup) \in Nat
         /\ \A i \in DOMAIN workingGroup : /\ workingGroup[i] \in 1 .. created
                                           /\ workingGroup[i] \in Group
                                           /\ meta[workingGroup[i]] \in Meta
                                           /\ IdOf(workingGroup[i]) \in ID
         /\ WorkingIDs \in Seq(ID) /\ DOMAIN WorkingIDs = DOMAIN workingGroup
         /\ \A i \in DOMAIN workingGroup : WorkingIDs[i] = IdOf(workingGroup[i])
<1>1. DOMAIN workingGroup = 1 .. Len(workingGroup) /\ Len(workingGroup) \in Nat
  BY SeqFacts DEF TypeOK
<1>2. \A i \in DOMAIN workingGroup : workingGroup[i] \in 1 .. created
  BY <1>1, SeqFacts DEF TypeOK
<1>3. 1 .. created \subseteq Group
  BY BoundAssumption DEF TypeOK, Group
<1>4. \A i \in DOMAIN workingGroup : /\ workingGroup[i] \in Group /\ meta[workingGroup[i]] \in Meta
  BY <1>2, <1>3 DEF TypeOK
<1>5. \A i \in DOMAIN workingGroup : IdOf(workingGroup[i]) \in ID
  BY <1>4 DEF IdOf, Meta
<1>6. WorkingIDs \in [1 .. Len(workingGroup) -> ID]
  BY <1>1, <1>5 DEF WorkingIDs
<1>7. WorkingIDs \in Seq(ID)
  BY <1>1, <1>6, FunctionIsSeq
<1> QED
  BY <1>1, <1>2, <1>4, <1>5, <1>7 DEF WorkingIDs

(* The input tokens of a group follow those in its cache. *)
LEMMA LengthsSum ==
  ASSUME TypeOK, InvLengths, NEW g \in 1 .. created
  PROVE  /\ meta[g] \in Meta /\ TotalLen(meta[g]) \in Nat
         /\ meta[g].past + meta[g].input = TotalLen(meta[g])
         /\ meta[g].past >= 0 /\ meta[g].past \in Nat /\ meta[g].input \in Nat
<1>1. meta[g] \in Meta
  BY BoundAssumption DEF TypeOK, Group
<1>2. \/ meta[g].step = 0 /\ meta[g].past = 0 /\ meta[g].input = meta[g].prompt /\ meta[g].generated = 0
      \/ meta[g].input = 1 /\ meta[g].past + 1 = TotalLen(meta[g])
  BY <1>1 DEF InvLengths, Meta
<1> QED
  BY <1>1, <1>2 DEF TotalLen, Meta

LEMMA ReadyType ==
  ASSUME TypeOK
  PROVE  PrepareCache(WorkingIDs) \in Seq(1 .. allocated)
<1>1. CASE \A i \in DOMAIN WorkingIDs : Exist(WorkingIDs[i])
  <2>1. [i \in DOMAIN WorkingIDs |-> sequenceCaches[WorkingIDs[i]]]
          \in [1 .. Len(workingGroup) -> 1 .. allocated]
    BY <1>1, WorkingType DEF TypeOK, Exist
  <2>2. [i \in DOMAIN WorkingIDs |-> sequenceCaches[WorkingIDs[i]]] \in Seq(1 .. allocated)
    BY <2>1, WorkingType, FunctionIsSeq
  <2> QED
    BY <1>1, <2>2 DEF PrepareCache
<1>2. CASE ~ \A i \in DOMAIN WorkingIDs : Exist(WorkingIDs[i])
  BY <1>2 DEF PrepareCache, TypeOK
<1> QED
  BY <1>1, <1>2

(* A position keeps its cell, or gets the token of that index of a group   *)
(* of the batch whose list entry is the cache.                             *)
LEMMA CopyCell ==
  ASSUME TypeOK, InvLengths, NEW ready, NEW c \in Cache, NEW p \in Pos
  PROVE  LET new == CopyKVCache(ready)[c][p]
         IN  IF \E i \in DOMAIN workingGroup : i \in DOMAIN ready /\ ready[i] = c /\ Stored(i, p)
             THEN \E i \in DOMAIN workingGroup :
                    /\ i \in DOMAIN ready /\ ready[i] = c /\ Stored(i, p)
                    /\ new = [group |-> workingGroup[i], token |-> p]
             ELSE new = cells[c][p]
<1> DEFINE Hit(i) == i \in DOMAIN ready /\ ready[i] = c /\ Stored(i, p)
           k == CHOOSE i \in DOMAIN workingGroup : Hit(i)
           m == meta[workingGroup[k]]
<1>1. CopyKVCache(ready)[c][p] =
        IF \E i \in DOMAIN workingGroup : Hit(i)
        THEN [group |-> workingGroup[k], token |-> TotalLen(m) - m.input + (p - m.past)]
        ELSE cells[c][p]
  BY DEF CopyKVCache
<1>2. CASE \E i \in DOMAIN workingGroup : Hit(i)
  <2>1. k \in DOMAIN workingGroup /\ Hit(k)
    BY <1>2
  <2>2. workingGroup[k] \in 1 .. created
    BY <2>1, WorkingType
  <2>3. p \in Int
    BY BoundAssumption DEF Pos
  <2>4. TotalLen(m) - m.input + (p - m.past) = p
    BY <2>2, <2>3, LengthsSum
  <2> HIDE DEF k
  <2> QED
    BY <1>1, <1>2, <2>1, <2>4
<1>3. CASE ~ \E i \in DOMAIN workingGroup : Hit(i)
  BY <1>1, <1>3
<1> QED
  BY <1>2, <1>3

LEMMA CopyType ==
  ASSUME TypeOK, InvLengths, NEW ready
  PROVE  CopyKVCache(ready) \in [Cache -> [Pos -> Cell]]
<1>1. ASSUME NEW c \in Cache, NEW p \in Pos PROVE CopyKVCache(ready)[c][p] \in Cell
  <2>1. CASE CopyKVCache(ready)[c][p] = cells[c][p]
    BY <2>1 DEF TypeOK
  <2>2. CASE \E i \in DOMAIN workingGroup : CopyKVCache(ready)[c][p] = [group |-> workingGroup[i], token |-> p]
    BY <2>2, WorkingType, BoundAssumption DEF Cell, Pos
  <2> QED
    BY <2>1, <2>2, CopyCell
<1> QED
  BY <1>1 DEF CopyKVCache

LEMMA TypeForward ==
  ASSUME TypeOK, InvCounts, InvLengths, Forward
  PROVE  TypeOK' /\ InvCounts'
<1>1. readyCaches' \in Seq(1 .. allocated)
  BY ReadyType DEF Forward, DecoderForward
<1>2. cells' \in [Cache -> [Pos -> Cell]]
  BY CopyType DEF Forward, DecoderForward
<1>3. fed' \subseteq ID
  BY WorkingType, SeqFacts DEF Forward, TypeOK
<1>4. UNCHANGED <<rules, pool, caches, workingGroup, pc, todo, ret, held>>
  BY DEF Forward
<1> QED
  BY <1>1, <1>2, <1>3, <1>4 DEF TypeOK, InvCounts, pool, caches

LEMMA TypeGenerate ==
  ASSUME TypeOK, InvCounts, InvLengths, NEW ended, Generate(ended)
  PROVE  TypeOK' /\ InvCounts'
<1>1. readyCaches' \in Seq(1 .. allocated)
  BY ReadyType DEF Generate, DecoderForward
<1>2. cells' \in [Cache -> [Pos -> Cell]]
  BY CopyType DEF Generate, DecoderForward
<1>3. meta' \in [Group -> Meta]
  <2>1. meta' = [g \in Group |->
               IF g \in Elems(workingGroup) THEN StepForward(StopCheck(meta[g], g \in ended))
                                            ELSE meta[g]]
    BY DEF Generate
  <2>2. ASSUME NEW g \in Group PROVE StepForward(StopCheck(meta[g], g \in ended)) \in Meta /\ meta[g] \in Meta
    <3>1. meta[g] \in Meta
      BY DEF TypeOK
    <3>2. StopCheck(meta[g], g \in ended) \in Meta
      BY <3>1, StopCheckType
    <3> QED
      BY <3>1, <3>2, StepForwardFields
  <2> QED
    BY <2>1, <2>2
<1>4. UNCHANGED <<rules, globalSequenceID, created, hub, caches, workingGroup, pc, todo, ret, held, fed>>
  BY DEF Generate
<1> QED
  BY <1>1, <1>2, <1>3, <1>4 DEF TypeOK, InvCounts, caches

-----------------------------------------------------------------------------
LEMMA FreeableType ==
  ASSUME TypeOK, NEW ids \in Batches(Freeable)
  PROVE  ids \in Seq(ID) /\ ids # <<>>
<1>1. Freeable \subseteq ID
  BY DEF Freeable, TypeOK
<1>2. ids \in Seq(Freeable) /\ ids # <<>>
  BY BatchFacts
<1> QED
  BY <1>1, <1>2, SeqMonotonic

LEMMA TypeFreeSeqs ==
  ASSUME TypeOK, InvCounts, NEW ids \in Batches(Freeable), FreeSeqs(ids)
  PROVE  TypeOK' /\ InvCounts'
BY FreeableType DEF FreeSeqs, TypeOK, InvCounts, pool, caches

LEMMA TypeFinalize ==
  ASSUME TypeOK, InvCounts, Finalize
  PROVE  TypeOK' /\ InvCounts'
<1>1. WorkingIDs \in Seq(ID) /\ WorkingIDs # <<>>
  BY WorkingType DEF Finalize
<1> QED
  BY <1>1 DEF Finalize, TypeOK, InvCounts, pool, caches

LEMMA TypeDelSequence ==
  ASSUME TypeOK, NEW id \in ID, DelSequence(id), Remove(id)
  PROVE  /\ hub' \in [ID -> {None} \cup 1 .. created]
         /\ sequenceCaches' \in [ID -> {None} \cup 1 .. allocated]
         /\ freeCaches' \in Seq(1 .. allocated)
<1>1. freeCaches' \in Seq(1 .. allocated)
  <2>1. CASE Exist(id)
    <3>1. sequenceCaches[id] \in 1 .. allocated
      BY <2>1 DEF TypeOK, Exist
    <3> QED
      BY <2>1, <3>1, AppendProperties DEF DelSequence, TypeOK
  <2>2. CASE ~Exist(id)
    BY <2>2 DEF DelSequence, TypeOK
  <2> QED
    BY <2>1, <2>2
<1> QED
  BY <1>1 DEF DelSequence, Remove, TypeOK

LEMMA TypeFreeOne ==
  ASSUME TypeOK, InvCounts, FreeOne
  PROVE  TypeOK' /\ InvCounts'
<1>1. todo \in Seq(ID) /\ todo # <<>>
  BY DEF FreeOne, TypeOK
<1>2. /\ Head(todo) \in ID /\ Tail(todo) \in Seq(ID) /\ (Len(todo) # 1 => Tail(todo) # <<>>)
  BY <1>1, TailFacts
<1>3. /\ hub' \in [ID -> {None} \cup 1 .. created]
      /\ sequenceCaches' \in [ID -> {None} \cup 1 .. allocated]
      /\ freeCaches' \in Seq(1 .. allocated)
      /\ ret' \in BOOLEAN
  <2>1. CASE DelSequence(Head(todo)) /\ Remove(Head(todo)) /\ ret' = (hub[Head(todo)] # None)
    BY <1>2, <2>1, TypeDelSequence
  <2>2. CASE UNCHANGED <<sequenceCaches, freeCaches, hub>> /\ ret' = FALSE
    BY <2>2 DEF TypeOK
  <2> QED
    BY <2>1, <2>2 DEF FreeOne
<1>4. /\ todo' = Tail(todo) /\ pc' = IF Len(todo) = 1 THEN "client" ELSE "free"
      /\ UNCHANGED <<rules, globalSequenceID, created, meta, workingGroup, readyCaches, allocated, cap,
                     cells, held, fed>>
  BY DEF FreeOne
<1> QED
  BY <1>2, <1>3, <1>4 DEF TypeOK, InvCounts

LEMMA TypeFinalizeOne ==
  ASSUME TypeOK, InvCounts, FinalizeOne
  PROVE  TypeOK' /\ InvCounts'
<1>1. todo \in Seq(ID) /\ todo # <<>>
  BY DEF FinalizeOne, TypeOK
<1>2. /\ Head(todo) \in ID /\ Tail(todo) \in Seq(ID) /\ (Len(todo) # 1 => Tail(todo) # <<>>)
  BY <1>1, TailFacts
<1>3. /\ hub' \in [ID -> {None} \cup 1 .. created]
      /\ sequenceCaches' \in [ID -> {None} \cup 1 .. allocated]
      /\ freeCaches' \in Seq(1 .. allocated)
  BY <1>2, TypeDelSequence DEF FinalizeOne
<1>4. /\ todo' = Tail(todo) /\ pc' = IF Len(todo) = 1 THEN "client" ELSE "finalize"
      /\ workingGroup' = IF Len(todo) = 1 THEN <<>> ELSE workingGroup
      /\ UNCHANGED <<rules, globalSequenceID, created, meta, readyCaches, allocated, cap, cells, ret, held, fed>>
  BY DEF FinalizeOne
<1>5. workingGroup' \in Seq(1 .. created)
  BY <1>4, EmptySeq DEF TypeOK
<1> QED
  BY <1>2, <1>3, <1>4, <1>5 DEF TypeOK, InvCounts

-----------------------------------------------------------------------------
(* The caches have one owner each. *)
LEMMA OwnerAddSequence ==
  ASSUME TypeOK, OneOwner, NEW id \in ID, NEW room, AddSequence(id, room)
  PROVE  OneOwner'
<1>1. CASE Exist(id)
  BY <1>1 DEF AddSequence, OneOwner, Exist
<1>2. CASE ~Exist(id) /\ freeCaches # <<>>
  <2> DEFINE n == Len(freeCaches)
             c == freeCaches[n]
  <2>1. /\ sequenceCaches' = [sequenceCaches EXCEPT ![id] = c]
        /\ freeCaches' = SubSeq(freeCaches, 1, n - 1)
        /\ allocated' = allocated
    BY <1>2 DEF AddSequence
  <2>2. /\ n \in Nat /\ n >= 1 /\ c \in 1 .. allocated
        /\ freeCaches' \in Seq(1 .. allocated) /\ Len(freeCaches') = n - 1
        /\ \A i \in 1 .. n - 1 : freeCaches'[i] = freeCaches[i]
    BY <1>2, <2>1, FrontFacts DEF TypeOK
  <2>3. /\ DOMAIN freeCaches = 1 .. n /\ DOMAIN freeCaches' = 1 .. n - 1
    BY <2>2, SeqFacts DEF TypeOK
  <2>4. \A k \in ID : sequenceCaches'[k] = IF k = id THEN c ELSE sequenceCaches[k]
    BY <2>1 DEF TypeOK
  <2>5. c # None /\ Elems(freeCaches) = Elems(freeCaches') \cup {c} /\ c \notin Elems(freeCaches')
    <3>1. c # None
      BY <2>2 DEF None
    <3>2. \A i \in 1 .. n - 1 : i \in 1 .. n /\ i # n
      BY <2>2
    <3>3. \A i \in 1 .. n - 1 : freeCaches'[i] # c
      BY <2>2, <2>3, <3>2 DEF OneOwner
    <3>4. \A i \in 1 .. n : i = n \/ i \in 1 .. n - 1
      BY <2>2
    <3>5. n \in 1 .. n
      BY <2>2
    <3> HIDE DEF n
    <3>6. \A x \in Elems(freeCaches) : x = c \/ x \in Elems(freeCaches')
      BY <2>2, <2>3, <3>4 DEF Elems
    <3>7. \A x \in Elems(freeCaches') : x \in Elems(freeCaches) /\ x # c
      BY <2>2, <2>3, <3>2, <3>3 DEF Elems
    <3>8. c \in Elems(freeCaches)
      BY <2>3, <3>5 DEF Elems
    <3> QED
      BY <3>1, <3>6, <3>7, <3>8
  <2> HIDE DEF c
  <2>6. \A i, j \in ID : Exist(i)' /\ sequenceCaches'[i] = sequenceCaches'[j] => i = j
    <3> SUFFICES ASSUME NEW i \in ID, NEW j \in ID, Exist(i)', sequenceCaches'[i] = sequenceCaches'[j]
                 PROVE  i = j
      OBVIOUS
    <3>1. \A k \in ID : Exist(k) => sequenceCaches[k] # c
      BY <2>5 DEF OneOwner
    <3> QED
      BY <2>4, <2>5, <3>1 DEF OneOwner, Exist
  <2>7. \A i \in ID : Exist(i)' => sequenceCaches'[i] \notin Elems(freeCaches')
    BY <2>4, <2>5 DEF OneOwner, Exist
  <2>8. \A i, j \in DOMAIN freeCaches' : freeCaches'[i] = freeCaches'[j] => i = j
    <3>1. 1 .. n - 1 \subseteq 1 .. n
      BY <2>2
    <3> QED
      BY <2>2, <2>3, <3>1 DEF OneOwner
  <2>9. 1 .. allocated' = Elems(freeCaches') \cup {sequenceCaches'[i] : i \in {k \in ID : Exist(k)'}}
    <3>1. {sequenceCaches'[i] : i \in {k \in ID : Exist(k)'}} =
            {c} \cup {sequenceCaches[i] : i \in {k \in ID : Exist(k)}}
      BY <1>2, <2>4, <2>5 DEF Exist
    <3> QED
      BY <2>1, <2>5, <3>1 DEF OneOwner
  <2> QED
    BY <2>6, <2>7, <2>8, <2>9 DEF OneOwner
<1>3. CASE ~Exist(id) /\ freeCaches = <<>>
  <2> DEFINE c == allocated + 1
  <2>1. /\ sequenceCaches' = [sequenceCaches EXCEPT ![id] = c]
        /\ freeCaches' = <<>> /\ allocated' = c
    BY <1>3 DEF AddSequence
  <2>2. \A k \in ID : sequenceCaches'[k] = IF k = id THEN c ELSE sequenceCaches[k]
    BY <2>1 DEF TypeOK
  <2>3. /\ allocated \in Nat /\ c # None /\ 1 .. c = (1 .. allocated) \cup {c} /\ c \notin 1 .. allocated
    BY BoundAssumption DEF TypeOK, None
  <2>4. \A k \in ID : sequenceCaches[k] # c
    BY <2>3 DEF TypeOK
  <2> HIDE DEF c
  <2>5. Elems(<<>>) = {} /\ DOMAIN <<>> = {}
    BY DEF Elems
  <2>6. \A i, j \in ID : Exist(i)' /\ sequenceCaches'[i] = sequenceCaches'[j] => i = j
    BY <2>2, <2>4 DEF OneOwner, Exist
  <2>7. 1 .. allocated' = Elems(freeCaches') \cup {sequenceCaches'[i] : i \in {k \in ID : Exist(k)'}}
    <3>1. {sequenceCaches'[i] : i \in {k \in ID : Exist(k)'}} =
            {c} \cup {sequenceCaches[i] : i \in {k \in ID : Exist(k)}}
      BY <1>3, <2>2, <2>3 DEF Exist
    <3> QED
      BY <1>3, <2>1, <2>3, <2>5, <3>1 DEF OneOwner
  <2> QED
    BY <2>1, <2>5, <2>6, <2>7 DEF OneOwner
<1> QED
  BY <1>1, <1>2, <1>3

LEMMA OwnerDelSequence ==
  ASSUME TypeOK, OneOwner, NEW id \in ID, DelSequence(id), allocated' = allocated
  PROVE  OneOwner'
<1>1. \A k \in ID : sequenceCaches'[k] = IF k = id THEN None ELSE sequenceCaches[k]
  BY DEF DelSequence, TypeOK
<1>2. CASE ~Exist(id)
  <2>1. freeCaches' = freeCaches /\ \A k \in ID : sequenceCaches'[k] = sequenceCaches[k]
    BY <1>1, <1>2 DEF DelSequence, Exist
  <2> QED
    BY <2>1 DEF OneOwner, Exist
<1>3. CASE Exist(id)
  <2> DEFINE n == Len(freeCaches)
             c == sequenceCaches[id]
  <2>1. c \in 1 .. allocated /\ c # None
    BY <1>3 DEF TypeOK, Exist
  <2>2. /\ n \in Nat /\ DOMAIN freeCaches = 1 .. n /\ DOMAIN freeCaches' = 1 .. n + 1
        /\ \A i \in 1 .. n : freeCaches'[i] = freeCaches[i]
        /\ freeCaches'[n + 1] = c
    BY <1>3, <2>1, AppendProperties, SeqFacts DEF DelSequence, TypeOK
  <2> HIDE DEF c
  <2>3. 1 .. n + 1 = (1 .. n) \cup {n + 1}
    BY <2>2
  <2>4. Elems(freeCaches') = Elems(freeCaches) \cup {c} /\ c \notin Elems(freeCaches)
    <3>1. c \notin Elems(freeCaches)
      BY <1>3 DEF OneOwner, c
    <3> QED
      BY <2>2, <2>3, <3>1 DEF Elems
  <2>5. \A i, j \in ID : Exist(i)' /\ sequenceCaches'[i] = sequenceCaches'[j] => i = j
    BY <1>1 DEF OneOwner, Exist
  <2>6. \A i \in ID : Exist(i)' => sequenceCaches'[i] \notin Elems(freeCaches')
    BY <1>1, <1>3, <2>4 DEF OneOwner, Exist, c
  <2>7. \A i, j \in DOMAIN freeCaches' : freeCaches'[i] = freeCaches'[j] => i = j
    <3>1. \A i \in 1 .. n : freeCaches[i] # c
      BY <2>2, <2>4 DEF Elems
    <3> QED
      BY <2>2, <2>3, <3>1 DEF OneOwner
  <2>8. 1 .. allocated' = Elems(freeCaches') \cup {sequenceCaches'[i] : i \in {k \in ID : Exist(k)'}}
    <3>1. {sequenceCaches[i] : i \in {k \in ID : Exist(k)}} =
            {c} \cup {sequenceCaches'[i] : i \in {k \in ID : Exist(k)'}}
      BY <1>1, <1>3, <2>1 DEF Exist, c
    <3> QED
      BY <2>4, <3>1 DEF OneOwner
  <2> QED
    BY <2>5, <2>6, <2>7, <2>8 DEF OneOwner
<1> QED
  BY <1>2, <1>3

-----------------------------------------------------------------------------
(* The two maps know the same sequences. *)
LEMMA AddSequenceMap ==
  ASSUME TypeOK, NEW id \in ID, NEW room, AddSequence(id, room)
  PROVE  /\ \A k \in ID \ {id} : sequenceCaches'[k] = sequenceCaches[k]
         /\ sequenceCaches'[id] # None
         /\ Exist(id) => UNCHANGED <<sequenceCaches, freeCaches, allocated, cap, cells>>
<1>1. CASE Exist(id)
  BY <1>1 DEF AddSequence, Exist
<1>2. CASE ~Exist(id)
  <2> DEFINE c == IF freeCaches # <<>> THEN freeCaches[Len(freeCaches)] ELSE allocated + 1
  <2>1. sequenceCaches' = [sequenceCaches EXCEPT ![id] = c]
    BY <1>2 DEF AddSequence
  <2>2. c # None
    <3>1. CASE freeCaches # <<>>
      <4>1. freeCaches[Len(freeCaches)] \in 1 .. allocated
        BY <3>1, FrontFacts DEF TypeOK
      <4> QED
        BY <3>1, <4>1 DEF None
    <3>2. CASE freeCaches = <<>>
      BY <3>2 DEF TypeOK, None
    <3> QED
      BY <3>1, <3>2
  <2> HIDE DEF c
  <2> QED
    BY <1>2, <2>1, <2>2 DEF TypeOK, Exist
<1> QED
  BY <1>1, <1>2

LEMMA MapsAddGroup ==
  ASSUME TypeOK, InvCounts, OneOwner, MapsAgree, AddGroup
  PROVE  OneOwner' /\ MapsAgree'
<1> DEFINE id  == CreateSequenceID(globalSequenceID)
           job == Head(todo)
<1>1. /\ id \in ID /\ AddSequence(id, job.room)
      /\ meta' = [meta EXCEPT ![created + 1] = NewMeta(id, job.prompt, job.maxLen)]
      /\ hub' = [hub EXCEPT ![id] = IF @ = None THEN created + 1 ELSE @]
  BY NextIDType DEF AddGroup, NewGroupMeta
<1> HIDE DEF id, job
<1>2. OneOwner'
  BY <1>1, OwnerAddSequence
<1>3. /\ \A k \in ID \ {id} : sequenceCaches'[k] = sequenceCaches[k]
      /\ sequenceCaches'[id] # None
  BY <1>1, AddSequenceMap
<1>4. created \in Nat /\ created + 1 \in Group /\ created + 1 # None
  <2>1. created' = created + 1 /\ created' \in 0 .. MaxGroups /\ created \in Nat
    BY TypeAddGroup DEF AddGroup, NewGroupMeta, TypeOK
  <2> QED
    BY <2>1, BoundAssumption DEF Group, None
<1>5. /\ meta'[created + 1].id = id
      /\ \A g \in 1 .. created : meta'[g] = meta[g]
  <2>1. 1 .. created \subseteq Group /\ created + 1 \notin 1 .. created
    BY <1>4, BoundAssumption DEF TypeOK, Group
  <2> QED
    BY <1>1, <1>4, <2>1 DEF TypeOK, NewMeta
<1>6. \A k \in ID : hub'[k] = IF k = id /\ hub[k] = None THEN created + 1 ELSE hub[k]
  BY <1>1 DEF TypeOK
<1>7. ASSUME NEW k \in ID
      PROVE  (hub'[k] # None <=> Exist(k)') /\ (hub'[k] # None => meta'[hub'[k]].id = k)
  <2>1. hub[k] = None \/ hub[k] \in 1 .. created
    BY DEF TypeOK
  <2>2. (hub[k] # None <=> Exist(k)) /\ (hub[k] # None => meta[hub[k]].id = k)
    BY DEF MapsAgree
  <2> QED
    BY <1>3, <1>4, <1>5, <1>6, <2>1, <2>2 DEF Exist
<1>8. MapsAgree'
  BY <1>7 DEF MapsAgree
<1> QED
  BY <1>2, <1>8

LEMMA MapsDelSequence ==
  ASSUME TypeOK, OneOwner, MapsAgree, NEW id \in ID, DelSequence(id), Remove(id),
         UNCHANGED <<allocated, meta>>
  PROVE  OneOwner' /\ MapsAgree'
<1>1. OneOwner'
  BY OwnerDelSequence
<1>2. \A k \in ID : /\ sequenceCaches'[k] = IF k = id THEN None ELSE sequenceCaches[k]
                    /\ hub'[k] = IF k = id THEN None ELSE hub[k]
  BY DEF DelSequence, Remove, TypeOK
<1>3. MapsAgree'
  BY <1>2 DEF MapsAgree, Exist
<1> QED
  BY <1>1, <1>3

-----------------------------------------------------------------------------
(* What the steps that change a group do to it. *)
LEMMA AddGroupFacts ==
  ASSUME TypeOK, InvCounts, AddGroup
  PROVE  LET id  == CreateSequenceID(globalSequenceID)
             job == todo[1]
         IN  /\ pc = "add" /\ rules' = rules
             /\ id \in ID /\ job \in Job /\ AddSequence(id, job.room)
             /\ created \in Nat /\ created' = created + 1 /\ created + 1 \in Group
             /\ meta'[created + 1] = NewMeta(id, job.prompt, job.maxLen)
             /\ \A g \in 1 .. created : g \in 1 .. created' /\ meta'[g] = meta[g]
             /\ \A k \in ID : hub'[k] = IF k = id /\ hub[k] = None THEN created + 1 ELSE hub[k]
             /\ Len(todo) \in Nat /\ Len(todo) >= 1 /\ Len(todo') = Len(todo) - 1
             /\ \A i \in 1 .. Len(todo) - 1 : todo'[i] = todo[i + 1] /\ i + 1 \in 1 .. Len(todo)
             /\ todo \in Seq(Job)
<1>1. pc = "add" /\ rules' = rules /\ todo \in Seq(Job) /\ todo # <<>> /\ todo' = Tail(todo)
  BY DEF AddGroup, TypeOK
<1>2. /\ Len(todo) \in Nat /\ Len(todo) >= 1 /\ Len(todo') = Len(todo) - 1
      /\ Head(todo) = todo[1] /\ todo[1] \in Job
      /\ \A i \in 1 .. Len(todo) - 1 : todo'[i] = todo[i + 1]
  BY <1>1, TailFacts
<1>3. \A i \in 1 .. Len(todo) - 1 : i + 1 \in 1 .. Len(todo)
  BY <1>2
<1> DEFINE id  == CreateSequenceID(globalSequenceID)
           job == todo[1]
<1>4. /\ id \in ID /\ AddSequence(id, job.room)
      /\ meta' = [meta EXCEPT ![created + 1] = NewMeta(id, job.prompt, job.maxLen)]
      /\ hub' = [hub EXCEPT ![id] = IF @ = None THEN created + 1 ELSE @]
      /\ created' = created + 1
  BY <1>2, NextIDType DEF AddGroup, NewGroupMeta
<1> HIDE DEF id, job
<1>5. created \in Nat /\ created + 1 \in Group /\ 1 .. created \subseteq Group
  <2>1. created' \in 0 .. MaxGroups /\ created \in 0 .. MaxGroups
    BY TypeAddGroup DEF TypeOK
  <2> QED
    BY <1>4, <2>1, BoundAssumption DEF Group
<1>6. \A g \in 1 .. created : g \in 1 .. created' /\ g # created + 1
  BY <1>4, <1>5
<1>7. /\ meta'[created + 1] = NewMeta(id, job.prompt, job.maxLen)
      /\ \A g \in 1 .. created : meta'[g] = meta[g]
  BY <1>4, <1>5, <1>6 DEF TypeOK
<1>8. \A k \in ID : hub'[k] = IF k = id /\ hub[k] = None THEN created + 1 ELSE hub[k]
  BY <1>4 DEF TypeOK
<1> QED
  BY <1>1, <1>2, <1>3, <1>4, <1>5, <1>6, <1>7, <1>8 DEF id, job

LEMMA CreatedGroups ==
  ASSUME TypeOK, NEW g \in 1 .. created
  PROVE  g \in Group /\ meta[g] \in Meta /\ g # None /\ IdOf(g) \in ID
BY BoundAssumption DEF TypeOK, Group, None, IdOf, Meta

LEMMA DecodeFacts ==
  ASSUME TypeOK, NEW ids \in Batches(held \cap fed), SetInputDecode(ids)
  PROVE  /\ created' = created /\ rules' = rules /\ pc = "client" /\ pc' = "client"
         /\ ids \in Batches(held) /\ ids \in Seq(ID) /\ Elems(ids) \subseteq ID
         /\ \A id \in Elems(ids) : id \in held /\ id \in fed /\ hub[id] # None /\ ~Sampled(hub[id])
         /\ Elems(workingGroup') = {hub[id] : id \in Elems(ids)}
         /\ \A g \in 1 .. created :
              IF \E id \in Elems(ids) : g = hub[id]
              THEN meta'[g] = StepForward(meta[g]) /\ ~Sampled(g)
              ELSE meta'[g] = meta[g]
         /\ "fits" \in rules =>
              \A id \in Elems(ids) : TotalLen(meta[hub[id]]) < cap[sequenceCaches[id]]
<1> DEFINE gs == [i \in DOMAIN ids |-> hub[ids[i]]]
<1>1. ids \in Batches(held) /\ \A i \in DOMAIN ids : hub[ids[i]] # None
  BY DEF SetInputDecode, Batches
<1>2. /\ ids \in Seq(ID) /\ gs \in Seq(1 .. created) /\ DOMAIN gs = DOMAIN ids
      /\ \A i \in DOMAIN ids : ids[i] \in held /\ ids[i] \in ID /\ gs[i] = hub[ids[i]]
  BY <1>1, GroupsOfBatch
<1>3. \A i \in DOMAIN ids : ids[i] \in fed
  <2>1. ids \in Seq(held \cap fed) /\ DOMAIN ids = 1 .. Len(ids)
    BY BatchFacts
  <2> QED
    BY <2>1, SeqFacts
<1>4. /\ meta' = [g \in Group |-> IF g \in Elems(gs) THEN StepForward(meta[g]) ELSE meta[g]]
      /\ workingGroup' = gs
      /\ \A g \in Elems(gs) : ~Sampled(g)
      /\ "fits" \in rules =>
           \A i \in DOMAIN ids : TotalLen(meta[gs[i]]) < cap[sequenceCaches[ids[i]]]
      /\ created' = created /\ rules' = rules /\ pc = "client" /\ pc' = "client"
  BY DEF SetInputDecode
<1>5. Elems(gs) = {hub[id] : id \in Elems(ids)}
  BY <1>2 DEF Elems
<1> HIDE DEF gs
<1>6. \A id \in Elems(ids) : id \in held /\ id \in fed /\ hub[id] # None /\ ~Sampled(hub[id]) /\ id \in ID
  BY <1>1, <1>2, <1>3, <1>4 DEF Elems
<1>7. \A g \in 1 .. created : IF \E id \in Elems(ids) : g = hub[id]
                              THEN meta'[g] = StepForward(meta[g]) /\ ~Sampled(g)
                              ELSE meta'[g] = meta[g]
  BY <1>4, <1>5, CreatedGroups
<1>8. "fits" \in rules => \A id \in Elems(ids) : TotalLen(meta[hub[id]]) < cap[sequenceCaches[id]]
  BY <1>2, <1>4 DEF Elems
<1> QED
  BY <1>1, <1>2, <1>4, <1>5, <1>6, <1>7, <1>8

LEMMA GenerateFacts ==
  ASSUME TypeOK, NEW ended, Generate(ended)
  PROVE  /\ created' = created /\ rules' = rules /\ pc = "client" /\ pc' = "client"
         /\ workingGroup' = workingGroup
         /\ \A g \in 1 .. created :
              IF g \in Elems(workingGroup)
              THEN /\ meta'[g] = StepForward(StopCheck(meta[g], g \in ended))
                   /\ Sampled(g) /\ ("done" \in rules => ~meta[g].done)
              ELSE meta'[g] = meta[g]
BY CreatedGroups DEF Generate, Computable

LEMMA StopCheckFields ==
  ASSUME NEW m \in Meta, NEW eos
  PROVE  LET s == StopCheck(m, eos)
         IN  /\ s \in Meta /\ s.id = m.id /\ s.prompt = m.prompt /\ s.generated = m.generated
             /\ s.maxLen = m.maxLen /\ s.step = m.step /\ s.past = m.past /\ s.input = m.input
             /\ ~s.done => ~m.done /\ ~(TotalLen(m) + 1 >= m.maxLen)
<1> DEFINE d == m.done \/ eos \/ TotalLen(m) + 1 >= m.maxLen
<1>1. StopCheck(m, eos) \in Meta
  BY StopCheckType
<1>2. StopCheck(m, eos) = [m EXCEPT !.done = d]
  BY DEF StopCheck
<1>3. ~d => ~m.done /\ ~(TotalLen(m) + 1 >= m.maxLen)
  OBVIOUS
<1> HIDE DEF d
<1> QED
  BY <1>1, <1>2, <1>3 DEF Meta

(* One generated token. *)
LEMMA GeneratedFields ==
  ASSUME NEW m \in Meta, NEW eos
  PROVE  LET s == StepForward(StopCheck(m, eos))
         IN  /\ s \in Meta /\ s.id = m.id /\ s.prompt = m.prompt /\ s.generated = m.generated + 1
             /\ s.maxLen = m.maxLen /\ s.step = m.step + 1 /\ s.input = 1
             /\ s.past = IF m.step = 0 THEN m.prompt ELSE m.past + 1
             /\ TotalLen(s) = TotalLen(m) + 1
             /\ ~s.done => ~m.done /\ ~(TotalLen(s) >= m.maxLen)
<1> DEFINE c == StopCheck(m, eos)
           s == StepForward(c)
<1>1. /\ c \in Meta /\ c.id = m.id /\ c.prompt = m.prompt /\ c.generated = m.generated
      /\ c.maxLen = m.maxLen /\ c.step = m.step /\ c.past = m.past
      /\ ~c.done => ~m.done /\ ~(TotalLen(m) + 1 >= m.maxLen)
  BY StopCheckFields
<1> HIDE DEF c
<1>2. /\ s \in Meta /\ s.id = c.id /\ s.prompt = c.prompt /\ s.generated = c.generated + 1
      /\ s.maxLen = c.maxLen /\ s.step = c.step + 1 /\ s.input = 1 /\ s.done = c.done
      /\ s.past = IF c.step = 0 THEN c.prompt ELSE c.past + 1
  BY <1>1, StepForwardFields
<1> HIDE DEF s
<1>3. TotalLen(s) = TotalLen(m) + 1
  BY <1>1, <1>2 DEF TotalLen, Meta
<1> QED
  BY <1>1, <1>2, <1>3 DEF c, s

-----------------------------------------------------------------------------
(* The lengths of the groups. *)
LEMMA LengthsStep ==
  ASSUME NEW m \in Meta, NEW s \in Meta,
         m.step = 0 => m.past = 0 /\ m.input = m.prompt /\ m.generated = 0,
         m.step > 0 => m.input = 1 /\ m.past + 1 = TotalLen(m),
         s.prompt = m.prompt, s.generated = m.generated + 1, s.step = m.step + 1, s.input = 1,
         s.past = IF m.step = 0 THEN m.prompt ELSE m.past + 1
  PROVE  /\ s.step # 0
         /\ s.step > 0 => s.input = 1 /\ s.past + 1 = TotalLen(s)
         /\ TotalLen(s) = TotalLen(m) + 1
BY DEF Meta, TotalLen

LEMMA LengthsAddGroup ==
  ASSUME TypeOK, InvCounts, InvLengths, AddGroup
  PROVE  InvLengths'
<1>1. /\ created \in Nat /\ created' = created + 1
      /\ \A g \in 1 .. created : meta'[g] = meta[g]
      /\ \E id, prompt, maxLen : meta'[created + 1] = NewMeta(id, prompt, maxLen)
  BY AddGroupFacts
<1>2. \A g \in 1 .. created' : g = created + 1 \/ g \in 1 .. created
  BY <1>1
<1>3. meta'[created + 1].step = 0 /\ meta'[created + 1].past = 0 /\ meta'[created + 1].generated = 0
      /\ meta'[created + 1].input = meta'[created + 1].prompt
  BY <1>1 DEF NewMeta
<1> QED
  BY <1>1, <1>2, <1>3 DEF InvLengths

LEMMA LengthsDecode ==
  ASSUME TypeOK, InvLengths, NEW ids \in Batches(held \cap fed), SetInputDecode(ids)
  PROVE  InvLengths'
<1> SUFFICES ASSUME NEW g \in 1 .. created
             PROVE /\ meta'[g].step = 0 => /\ meta'[g].past = 0 /\ meta'[g].input = meta'[g].prompt
                                           /\ meta'[g].generated = 0
                   /\ meta'[g].step > 0 => meta'[g].input = 1 /\ meta'[g].past + 1 = TotalLen(meta'[g])
  BY DecodeFacts DEF InvLengths
<1>1. CASE meta'[g] = meta[g]
  BY <1>1 DEF InvLengths
<1>2. CASE meta'[g] = StepForward(meta[g])
  BY <1>2, CreatedGroups, StepForwardFields, LengthsStep DEF InvLengths
<1> QED
  BY <1>1, <1>2, DecodeFacts

LEMMA LengthsGenerate ==
  ASSUME TypeOK, InvLengths, NEW ended, Generate(ended)
  PROVE  InvLengths'
<1> SUFFICES ASSUME NEW g \in 1 .. created
             PROVE /\ meta'[g].step = 0 => /\ meta'[g].past = 0 /\ meta'[g].input = meta'[g].prompt
                                           /\ meta'[g].generated = 0
                   /\ meta'[g].step > 0 => meta'[g].input = 1 /\ meta'[g].past + 1 = TotalLen(meta'[g])
  BY GenerateFacts DEF InvLengths
<1>1. CASE meta'[g] = meta[g]
  BY <1>1 DEF InvLengths
<1>2. CASE meta'[g] = StepForward(StopCheck(meta[g], g \in ended))
  BY <1>2, CreatedGroups, GeneratedFields, LengthsStep DEF InvLengths
<1> QED
  BY <1>1, <1>2, GenerateFacts

-----------------------------------------------------------------------------
(* No sequence outgrows its maxLen. *)
LEMMA SampledSetInput ==
  ASSUME InvSampled, LengthBounded, NEW n \in 1 .. MaxBatch, NEW lens \in [1 .. n -> PromptLens],
         NEW maxLen \in MaxLens, SetInputPrompt(lens, maxLen) \/ SetInputConfig(lens, maxLen)
  PROVE  InvSampled' /\ LengthBounded'
<1>1. UNCHANGED <<rules, created, meta>>
  BY DEF SetInputPrompt, SetInputConfig, pool
<1>2. \A i \in 1 .. Len(todo') : todo'[i].maxLen # NoConfig => todo'[i].prompt <= todo'[i].maxLen
  BY JobsTyped
<1> QED
  BY <1>1, <1>2 DEF InvSampled, LengthBounded, Sampled

LEMMA SampledAddGroup ==
  ASSUME TypeOK, InvCounts, InvSampled, LengthBounded, AddGroup
  PROVE  InvSampled' /\ LengthBounded'
<1> DEFINE m == meta'[created + 1]
<1>1. /\ rules' = rules /\ created \in Nat /\ created' = created + 1 /\ todo[1] \in Job
      /\ \A g \in 1 .. created : meta'[g] = meta[g]
      /\ \E id : m = NewMeta(id, todo[1].prompt, todo[1].maxLen)
      /\ pc = "add" /\ Len(todo) \in Nat /\ Len(todo) >= 1 /\ Len(todo') = Len(todo) - 1
      /\ \A i \in 1 .. Len(todo) - 1 : todo'[i] = todo[i + 1] /\ i + 1 \in 1 .. Len(todo)
  BY AddGroupFacts
<1>2. \A g \in 1 .. created' : g = created + 1 \/ g \in 1 .. created
  BY <1>1
<1>3. m.maxLen = todo[1].maxLen /\ m.prompt = todo[1].prompt /\ m.generated = 0
  BY <1>1 DEF NewMeta
<1>4. 1 \in 1 .. Len(todo)
  BY <1>1
<1>5. m.maxLen # NoConfig => m.prompt <= m.maxLen
  BY <1>1, <1>3, <1>4 DEF InvSampled
<1>6. TotalLen(m) = m.prompt /\ m.prompt \in Nat
  BY <1>1, <1>3 DEF TotalLen, Job
<1>7. m.maxLen # NoConfig => TotalLen(m) <= Larger(m.maxLen, m.prompt + 1)
  BY <1>1, <1>3, <1>6 DEF Larger, Job
<1> HIDE DEF m
<1>8. LengthBounded'
  BY <1>1, <1>2, <1>7 DEF LengthBounded, Sampled, m
<1>9. InvSampled'
  BY <1>1, <1>2, <1>3, <1>5 DEF InvSampled, Sampled, m
<1> QED
  BY <1>8, <1>9

LEMMA SampledDecode ==
  ASSUME TypeOK, InvSampled, LengthBounded, NEW ids \in Batches(held \cap fed), SetInputDecode(ids)
  PROVE  InvSampled' /\ LengthBounded'
<1>1. ASSUME NEW g \in 1 .. created PROVE meta'[g] = meta[g] \/ meta'[g].maxLen = NoConfig
  <2>1. \/ meta'[g] = StepForward(meta[g]) /\ ~Sampled(g)
        \/ meta'[g] = meta[g]
    BY DecodeFacts
  <2> QED
    BY <2>1, CreatedGroups, StepForwardFields DEF Sampled
<1>2. created' = created /\ rules' = rules /\ pc' = "client"
  BY DecodeFacts
<1> QED
  BY <1>1, <1>2 DEF InvSampled, LengthBounded, Sampled

LEMMA SampledGenerate ==
  ASSUME TypeOK, InvSampled, LengthBounded, NEW ended, Generate(ended)
  PROVE  InvSampled' /\ LengthBounded'
<1>1. /\ created' = created /\ rules' = rules /\ pc' = "client"
  BY GenerateFacts
<1>2. ASSUME NEW g \in 1 .. created, "done" \in rules, Sampled(g)'
      PROVE  /\ TotalLen(meta'[g]) <= Larger(meta'[g].maxLen, meta'[g].prompt + 1)
             /\ ~meta'[g].done => \/ TotalLen(meta'[g]) < meta'[g].maxLen
                                  \/ meta'[g].generated = 0 /\ meta'[g].prompt <= meta'[g].maxLen
  <2>1. CASE meta'[g] = meta[g]
    BY <1>2, <2>1 DEF InvSampled, LengthBounded, Sampled
  <2>2. CASE /\ meta'[g] = StepForward(StopCheck(meta[g], g \in ended))
             /\ Sampled(g) /\ ~meta[g].done
    <3> DEFINE m == meta[g]
               s == meta'[g]
    <3>1. m \in Meta
      BY CreatedGroups
    <3>2. /\ s.prompt = m.prompt /\ s.maxLen = m.maxLen /\ TotalLen(s) = TotalLen(m) + 1
          /\ ~s.done => ~(TotalLen(s) >= m.maxLen)
      BY <2>2, <3>1, GeneratedFields
    <3>3. TotalLen(m) < m.maxLen \/ m.generated = 0
      BY <1>2, <2>2 DEF InvSampled
    <3>4. m.maxLen \in Nat /\ m.prompt \in Nat /\ m.generated \in Nat
      BY <2>2, <3>1 DEF Meta, Sampled
    <3> HIDE DEF m, s
    <3>5. TotalLen(m) \in Nat /\ (m.generated = 0 => TotalLen(m) = m.prompt)
      BY <3>4 DEF TotalLen
    <3>6. TotalLen(s) <= Larger(s.maxLen, s.prompt + 1)
      BY <3>2, <3>3, <3>4, <3>5 DEF Larger
    <3>7. ~s.done => TotalLen(s) < s.maxLen
      BY <3>2, <3>4, <3>5
    <3> QED
      BY <3>6, <3>7 DEF m, s
  <2> QED
    BY <1>2, <2>1, <2>2, GenerateFacts
<1> QED
  BY <1>1, <1>2 DEF InvSampled, LengthBounded, Sampled

-----------------------------------------------------------------------------
(* The rest is about the client that keeps every rule.                     *)
(*                                                                         *)
(* The sequences it holds and the IDs to come. *)
LEMMA ModShort ==
  ASSUME NEW a \in 0 .. MaxID - 1, NEW b \in 0 .. MaxID - 1
  PROVE  (a + b) % MaxID = IF a + b < MaxID THEN a + b ELSE a + b - MaxID
<1>1. MaxID \in Nat \ {0}
  BY BoundAssumption
<1>2. CASE a + b < MaxID
  <2>1. a + b \in 0 .. MaxID - 1 /\ a + b = MaxID * 0 + (a + b)
    BY <1>1, <1>2
  <2> QED
    BY <1>1, <1>2, <2>1, DivModUnique
<1>3. CASE ~(a + b < MaxID)
  <2>1. a + b - MaxID \in 0 .. MaxID - 1 /\ a + b = MaxID * 1 + (a + b - MaxID)
    BY <1>1, <1>3
  <2> QED
    BY <1>1, <1>3, <2>1, DivModUnique
<1> QED
  BY <1>2, <1>3

(* The ID issued now is the first of those to come, and the others follow. *)
LEMMA IssuedIDs ==
  ASSUME TypeOK, NEW n \in Nat, n >= 1, n <= MaxID,
         globalSequenceID' = CreateSequenceID(globalSequenceID) + 1
  PROVE  /\ CreateSequenceID(globalSequenceID) \in NextIDs(n)
         /\ NextIDs(n - 1)' \subseteq NextIDs(n)
         /\ CreateSequenceID(globalSequenceID) \notin NextIDs(n - 1)'
<1> DEFINE id == CreateSequenceID(globalSequenceID)
           next == CreateSequenceID(globalSequenceID')
<1>1. id \in 0 .. MaxID - 1 /\ MaxID \in Nat \ {0}
  BY NextIDType, BoundAssumption DEF ID
<1>2. next = IF id + 1 >= MaxID THEN 0 ELSE id + 1
  BY DEF CreateSequenceID
<1>3. /\ NextIDs(n) = {(id + i) % MaxID : i \in 0 .. n - 1}
      /\ NextIDs(n - 1)' = {(next + i) % MaxID : i \in 0 .. n - 1 - 1}
  BY DEF NextIDs
<1> HIDE DEF id, next
<1>4. id \in NextIDs(n)
  <2>1. 0 \in 0 .. n - 1 /\ (id + 0) % MaxID = id
    <3>1. 0 \in 0 .. n - 1 /\ id + 0 = id /\ id = MaxID * 0 + id
      BY <1>1
    <3>2. (MaxID * 0 + id) % MaxID = id
      BY <1>1, DivModUnique
    <3> QED
      BY <3>1, <3>2
  <2> QED
    BY <1>3, <2>1
<1>5. ASSUME NEW i \in 0 .. n - 1 - 1
      PROVE  (next + i) % MaxID # id /\ (next + i) % MaxID \in NextIDs(n)
  <2>1. next \in 0 .. MaxID - 1 /\ i \in 0 .. MaxID - 1 /\ i + 1 \in 0 .. MaxID - 1 /\ i + 1 \in 0 .. n - 1
    BY <1>1, <1>2
  <2>2. (next + i) % MaxID = IF next + i < MaxID THEN next + i ELSE next + i - MaxID
    BY <2>1, ModShort
  <2>3. (id + (i + 1)) % MaxID = IF id + (i + 1) < MaxID THEN id + (i + 1) ELSE id + (i + 1) - MaxID
    BY <1>1, <2>1, ModShort
  <2>4. (next + i) % MaxID = (id + (i + 1)) % MaxID
    BY <1>1, <1>2, <2>1, <2>2, <2>3
  <2>5. (next + i) % MaxID # id
    BY <1>1, <2>1, <2>3, <2>4
  <2> QED
    BY <1>3, <2>1, <2>4, <2>5
<1> QED
  BY <1>3, <1>4, <1>5 DEF id

LEMMA HeldSetInput ==
  ASSUME TypeOK, rules = AllRules, InvHeld, NEW n \in 1 .. MaxBatch,
         NEW lens \in [1 .. n -> PromptLens], NEW maxLen \in MaxLens,
         SetInputPrompt(lens, maxLen) \/ SetInputConfig(lens, maxLen)
  PROVE  InvHeld' /\ InvFresh'
<1>1. /\ pc = "client" /\ pc' = "add" /\ UNCHANGED <<held, sequenceCaches, globalSequenceID>>
      /\ "ids" \in rules => NextIDs(Len(lens)) \cap held = {} /\ Len(lens) <= MaxID
  BY DEF SetInputPrompt, SetInputConfig, pool, caches
<1>2. "ids" \in rules
  BY DEF AllRules
<1>3. Len(todo') = Len(lens)
  BY JobsTyped
<1>4. NextIDs(Len(todo))' = NextIDs(Len(lens))
  BY <1>1, <1>3 DEF NextIDs
<1>5. InvFresh'
  BY <1>1, <1>2, <1>3, <1>4 DEF InvFresh
<1>6. Cached' = Cached
  BY <1>1 DEF Cached, Exist
<1> QED
  BY <1>1, <1>5, <1>6 DEF InvHeld

(* The ID of the group being added is new to the maps. *)
LEMMA AddedIsNew ==
  ASSUME TypeOK, rules = AllRules, InvHeld, InvFresh, MapsAgree, AddGroup
  PROVE  LET id == CreateSequenceID(globalSequenceID)
         IN  id \in ID /\ id \notin held /\ ~Exist(id) /\ hub[id] = None
<1> DEFINE id == CreateSequenceID(globalSequenceID)
<1>1. pc = "add" /\ globalSequenceID' = id + 1 /\ todo \in Seq(Job) /\ todo # <<>>
  BY DEF AddGroup, TypeOK
<1>2. Len(todo) \in Nat /\ Len(todo) >= 1
  BY <1>1, TailFacts
<1>3. NextIDs(Len(todo)) \cap held = {} /\ Len(todo) <= MaxID
  BY <1>1 DEF InvFresh
<1>4. id \in NextIDs(Len(todo))
  BY <1>1, <1>2, <1>3, IssuedIDs
<1>5. id \in ID /\ id \notin held
  BY <1>3, <1>4, NextIDType
<1>6. held = Cached
  BY <1>1 DEF InvHeld
<1> HIDE DEF id
<1> QED
  BY <1>5, <1>6 DEF Cached, MapsAgree, id

LEMMA HeldAddGroup ==
  ASSUME TypeOK, InvCounts, rules = AllRules, InvHeld, InvFresh, AddGroup
  PROVE  InvHeld' /\ InvFresh'
<1> DEFINE id == CreateSequenceID(globalSequenceID)
<1>1. /\ pc = "add" /\ id \in ID /\ AddSequence(id, todo[1].room) /\ Len(todo) \in Nat /\ Len(todo) >= 1
      /\ Len(todo') = Len(todo) - 1
  BY AddGroupFacts
<1>2. /\ globalSequenceID' = id + 1 /\ held' = held \cup {id} /\ pc' \in {"client", "add"}
  BY DEF AddGroup
<1>3. NextIDs(Len(todo)) \cap held = {} /\ Len(todo) <= MaxID /\ held = Cached
  BY <1>1 DEF InvFresh, InvHeld
<1>4. NextIDs(Len(todo))' \subseteq NextIDs(Len(todo)) /\ id \notin NextIDs(Len(todo))'
  <2>1. PICK n \in Nat : n = Len(todo) /\ n >= 1 /\ n <= MaxID
    BY <1>1, <1>3
  <2>2. NextIDs(n - 1)' \subseteq NextIDs(n) /\ id \notin NextIDs(n - 1)'
    BY <1>2, <2>1, IssuedIDs
  <2>3. NextIDs(n - 1)' = NextIDs(Len(todo))'
    BY <1>1, <2>1 DEF NextIDs
  <2> QED
    BY <2>1, <2>2, <2>3
<1>5. Cached' = Cached \cup {id}
  <2>1. /\ \A k \in ID \ {id} : sequenceCaches'[k] = sequenceCaches[k]
        /\ sequenceCaches'[id] # None
    BY <1>1, AddSequenceMap
  <2> HIDE DEF id
  <2> QED
    BY <1>1, <2>1 DEF Cached, Exist
<1> HIDE DEF id
<1>6. InvHeld'
  BY <1>2, <1>3, <1>5 DEF InvHeld
<1>7. InvFresh'
  <2>1. Len(todo') <= MaxID
    BY <1>1, <1>3, BoundAssumption
  <2>2. NextIDs(Len(todo))' \cap held' = {}
    BY <1>2, <1>3, <1>4
  <2> QED
    BY <2>1, <2>2 DEF InvFresh
<1> QED
  BY <1>6, <1>7

LEMMA HeldFreeSeqs ==
  ASSUME TypeOK, rules = AllRules, InvHeld, NEW ids \in Batches(Freeable), FreeSeqs(ids)
  PROVE  InvHeld' /\ InvFresh'
<1>1. /\ pc = "client" /\ pc' = "free" /\ todo' = ids /\ ret' = TRUE /\ held' = held \ Elems(ids)
      /\ sequenceCaches' = sequenceCaches
  BY DEF FreeSeqs, caches
<1>2. Freeable = held
  BY DEF Freeable, AllRules
<1>3. /\ ids \in Seq(held) /\ \A i, j \in 1 .. Len(ids) : ids[i] = ids[j] => i = j
  BY <1>2, BatchFacts
<1>4. Elems(ids) \subseteq held
  BY <1>3, SeqFacts
<1>5. held = Cached /\ Cached' = Cached
  BY <1>1 DEF InvHeld, Cached, Exist
<1> QED
  BY <1>1, <1>3, <1>4, <1>5 DEF InvHeld, InvFresh

LEMMA HeldFinalize ==
  ASSUME rules = AllRules, InvHeld, Finalize
  PROVE  InvHeld' /\ InvFresh'
<1>1. /\ pc = "client" /\ pc' = "finalize" /\ todo' = WorkingIDs /\ held' = held \ Elems(WorkingIDs)
      /\ sequenceCaches' = sequenceCaches
  BY DEF Finalize, caches
<1>2. held = Cached /\ Cached' = Cached
  BY <1>1 DEF InvHeld, Cached, Exist
<1> QED
  BY <1>1, <1>2 DEF InvHeld, InvFresh

(* One iteration of either loop that frees. *)
LEMMA HeldDelSequence ==
  ASSUME TypeOK, rules = AllRules, InvHeld, pc \in {"free", "finalize"},
         DelSequence(todo[1]), held' = held, todo' = Tail(todo)
  PROVE  /\ Cached' = Cached \ {todo[1]} /\ held' \subseteq Cached'
         /\ Cached' \subseteq held' \cup Elems(todo') /\ held' \cap Elems(todo') = {}
         /\ Len(todo) = 1 => held' = Cached'
<1>1. todo \in Seq(ID) /\ todo # <<>>
  BY DEF TypeOK
<1>2. /\ todo[1] \in ID /\ Len(todo) \in Nat /\ Len(todo) >= 1 /\ DOMAIN todo = 1 .. Len(todo)
      /\ Elems(todo') = {todo[i] : i \in 2 .. Len(todo)}
  BY <1>1, TailFacts, SeqFacts
<1>3. Cached' = Cached \ {todo[1]}
  BY <1>2 DEF DelSequence, Cached, Exist, TypeOK
<1>4. Elems(todo) = {todo[1]} \cup Elems(todo')
  <2>1. 1 .. Len(todo) = {1} \cup 2 .. Len(todo)
    BY <1>2
  <2> QED
    BY <1>2, <2>1 DEF Elems
<1>5. /\ held \subseteq Cached /\ Cached \subseteq held \cup Elems(todo) /\ held \cap Elems(todo) = {}
  BY DEF InvHeld
<1>6. Len(todo) = 1 => Elems(todo') = {}
  BY <1>2
<1> QED
  BY <1>3, <1>4, <1>5, <1>6

LEMMA HeldFreeOne ==
  ASSUME TypeOK, rules = AllRules, MapsAgree, InvHeld, FreeOne
  PROVE  InvHeld' /\ InvFresh'
<1>1. /\ pc = "free" /\ todo \in Seq(ID) /\ todo # <<>> /\ todo' = Tail(todo) /\ held' = held
      /\ pc' = IF Len(todo) = 1 THEN "client" ELSE "free"
  BY DEF FreeOne, TypeOK
<1>2. /\ Head(todo) = todo[1] /\ todo[1] \in Elems(todo) /\ todo[1] \in ID
      /\ Len(todo) \in Nat /\ Len(todo) >= 1 /\ Len(todo') = Len(todo) - 1
      /\ Elems(todo') = {todo[i] : i \in 2 .. Len(todo)} /\ DOMAIN todo = 1 .. Len(todo)
      /\ \A i \in 1 .. Len(todo) - 1 : todo'[i] = todo[i + 1]
  BY <1>1, TailFacts, SeqFacts
<1>3. /\ ret /\ Elems(todo) \subseteq Cached
      /\ \A i, j \in 1 .. Len(todo) : todo[i] = todo[j] => i = j
  BY <1>1 DEF InvHeld
<1>4. Exist(todo[1]) /\ hub[todo[1]] # None
  BY <1>2, <1>3 DEF Cached, MapsAgree
<1>5. DelSequence(todo[1]) /\ ret' = TRUE
  BY <1>2, <1>3, <1>4 DEF FreeOne
<1>6. /\ Cached' = Cached \ {todo[1]} /\ held' \subseteq Cached'
      /\ Cached' \subseteq held' \cup Elems(todo') /\ held' \cap Elems(todo') = {}
      /\ Len(todo) = 1 => held' = Cached'
  BY <1>1, <1>5, HeldDelSequence
<1>7. todo[1] \notin Elems(todo')
  <2>1. \A i \in 2 .. Len(todo) : i \in 1 .. Len(todo) /\ 1 \in 1 .. Len(todo) /\ i # 1
    BY <1>2
  <2> QED
    BY <1>2, <1>3, <2>1
<1>8. Elems(todo') \subseteq Cached'
  <2>1. Elems(todo') \subseteq Elems(todo)
    <3>1. 2 .. Len(todo) \subseteq 1 .. Len(todo)
      BY <1>2
    <3> QED
      BY <1>2, <3>1 DEF Elems
  <2> QED
    BY <1>3, <1>6, <1>7, <2>1
<1>9. \A i, j \in 1 .. Len(todo') : todo'[i] = todo'[j] => i = j
  <2> SUFFICES ASSUME NEW i \in 1 .. Len(todo) - 1, NEW j \in 1 .. Len(todo) - 1, todo'[i] = todo'[j]
               PROVE  i = j
    BY <1>2
  <2>1. i + 1 \in 1 .. Len(todo) /\ j + 1 \in 1 .. Len(todo)
    BY <1>2
  <2>2. i + 1 = j + 1
    BY <1>2, <1>3, <2>1
  <2> QED
    BY <2>2
<1>10. InvHeld'
  BY <1>1, <1>5, <1>6, <1>8, <1>9 DEF InvHeld
<1>11. InvFresh'
  BY <1>1 DEF InvFresh
<1> QED
  BY <1>10, <1>11

LEMMA HeldFinalizeOne ==
  ASSUME TypeOK, rules = AllRules, InvHeld, FinalizeOne
  PROVE  InvHeld' /\ InvFresh'
<1>1. /\ pc = "finalize" /\ todo \in Seq(ID) /\ todo # <<>> /\ todo' = Tail(todo) /\ held' = held
      /\ pc' = IF Len(todo) = 1 THEN "client" ELSE "finalize"
      /\ DelSequence(Head(todo))
  BY DEF FinalizeOne, TypeOK
<1>2. Head(todo) = todo[1]
  BY <1>1, TailFacts
<1>3. /\ held' \subseteq Cached'
      /\ Cached' \subseteq held' \cup Elems(todo') /\ held' \cap Elems(todo') = {}
      /\ Len(todo) = 1 => held' = Cached'
  BY <1>1, <1>2, HeldDelSequence
<1> QED
  BY <1>1, <1>3 DEF InvHeld, InvFresh

-----------------------------------------------------------------------------
(* The batch and the pool. *)
LEMMA HubFacts ==
  ASSUME TypeOK, MapsAgree, NEW k \in ID, hub[k] # None
  PROVE  /\ hub[k] \in 1 .. created /\ IdOf(hub[k]) = k /\ Exist(k)
         /\ sequenceCaches[k] \in 1 .. allocated /\ sequenceCaches[k] \in Cache
         /\ \A j \in ID : hub[j] = hub[k] => j = k
<1>1. hub[k] \in 1 .. created /\ Exist(k)
  BY DEF TypeOK, MapsAgree
<1>2. sequenceCaches[k] \in 1 .. allocated
  BY <1>1 DEF TypeOK, Exist
<1>3. sequenceCaches[k] \in Cache
  BY <1>2, BoundAssumption DEF TypeOK, Cache
<1> QED
  BY <1>1, <1>2, <1>3 DEF MapsAgree, IdOf

LEMMA WorkingAddGroup ==
  ASSUME TypeOK, InvCounts, MapsAgree, rules = AllRules, InvHeld, InvFresh, InvWorking, AddGroup
  PROVE  InvWorking'
<1> DEFINE id == CreateSequenceID(globalSequenceID)
<1>1. /\ pc = "add" /\ created \in Nat /\ id \in ID
      /\ meta'[created + 1].id = id
      /\ \A g \in 1 .. created : meta'[g] = meta[g]
      /\ \A k \in ID : hub'[k] = IF k = id /\ hub[k] = None THEN created + 1 ELSE hub[k]
  BY AddGroupFacts DEF NewMeta
<1>2. hub[id] = None
  BY AddedIsNew
<1> HIDE DEF id
<1>3. \A x \in Elems(workingGroup') : x = created + 1 \/ x \in Elems(workingGroup)
  <2> DEFINE n == Len(workingGroup)
  <2>1. workingGroup' = Append(workingGroup, created + 1)
    BY DEF AddGroup
  <2>2. workingGroup \in Seq(Nat) /\ n \in Nat /\ DOMAIN workingGroup = 1 .. n
    BY SeqFacts, SeqMonotonic, WorkingType DEF TypeOK
  <2>3. /\ DOMAIN workingGroup' = 1 .. n + 1 /\ workingGroup'[n + 1] = created + 1
        /\ \A i \in 1 .. n : workingGroup'[i] = workingGroup[i]
    BY <1>1, <2>1, <2>2, AppendProperties, LenProperties
  <2>4. \A i \in 1 .. n + 1 : i = n + 1 \/ i \in 1 .. n
    BY <2>2
  <2> QED
    BY <2>2, <2>3, <2>4 DEF Elems
<1>4. ASSUME NEW g \in Elems(workingGroup') PROVE hub'[meta'[g].id] = g
  <2>1. CASE g = created + 1
    BY <1>1, <1>2, <2>1
  <2>2. CASE g \in Elems(workingGroup)
    <3>1. g \in 1 .. created /\ IdOf(g) \in ID /\ g # None
      BY <2>2, WorkingType, CreatedGroups DEF Elems
    <3>2. hub[IdOf(g)] = g
      BY <1>1, <2>2 DEF InvWorking
    <3> QED
      BY <1>1, <1>2, <3>1, <3>2 DEF IdOf
  <2> QED
    BY <1>3, <2>1, <2>2
<1> QED
  BY <1>4 DEF InvWorking, IdOf

LEMMA WorkingDecode ==
  ASSUME TypeOK, MapsAgree, InvWorking, NEW ids \in Batches(held \cap fed), SetInputDecode(ids)
  PROVE  InvWorking' /\ MapsAgree'
<1>1. UNCHANGED <<rules, hub, sequenceCaches, pc, created>> /\ pc = "client"
  BY DEF SetInputDecode, caches
<1>2. ASSUME NEW g \in 1 .. created PROVE meta'[g].id = meta[g].id
  <2>1. meta'[g] = StepForward(meta[g]) \/ meta'[g] = meta[g]
    BY DecodeFacts
  <2> QED
    BY <2>1, CreatedGroups, StepForwardFields
<1>3. ASSUME NEW k \in ID, hub[k] # None PROVE meta'[hub[k]].id = k
  BY <1>2, <1>3, HubFacts DEF IdOf
<1>4. ASSUME NEW g \in Elems(workingGroup') PROVE hub[meta'[g].id] = g
  <2>1. Elems(workingGroup') = {hub[id] : id \in Elems(ids)}
    BY DecodeFacts
  <2>2. PICK k \in Elems(ids) : g = hub[k]
    BY <2>1
  <2>3. k \in ID /\ hub[k] # None
    BY DecodeFacts
  <2> QED
    BY <1>3, <2>2, <2>3
<1> QED
  BY <1>1, <1>3, <1>4 DEF InvWorking, MapsAgree, IdOf, Exist

LEMMA WorkingResume ==
  ASSUME TypeOK, MapsAgree, NEW ids \in Batches(held), SetInputResume(ids)
  PROVE  InvWorking'
<1>1. /\ UNCHANGED <<rules, hub, pc, meta>>
      /\ workingGroup' = [i \in DOMAIN ids |-> hub[ids[i]]]
      /\ \A i \in DOMAIN ids : hub[ids[i]] # None
  BY DEF SetInputResume, pool
<1>2. \A i \in DOMAIN ids : ids[i] \in ID
  BY <1>1, GroupsOfBatch
<1>3. ASSUME NEW g \in Elems(workingGroup') PROVE hub[IdOf(g)] = g
  <2>1. PICK k \in ID : g = hub[k] /\ hub[k] # None
    BY <1>1, <1>2 DEF Elems
  <2> QED
    BY <2>1, HubFacts
<1> QED
  BY <1>1, <1>3 DEF InvWorking, IdOf

LEMMA WorkingGenerate ==
  ASSUME TypeOK, MapsAgree, InvWorking, NEW ended, Generate(ended)
  PROVE  InvWorking' /\ MapsAgree'
<1>1. UNCHANGED <<rules, hub, sequenceCaches, pc, created, workingGroup>>
  BY DEF Generate, caches
<1>2. ASSUME NEW g \in 1 .. created PROVE meta'[g].id = meta[g].id
  <2>1. meta'[g] = StepForward(StopCheck(meta[g], g \in ended)) \/ meta'[g] = meta[g]
    BY GenerateFacts
  <2> QED
    BY <2>1, CreatedGroups, GeneratedFields
<1>3. \A g \in Elems(workingGroup) : meta'[g].id = meta[g].id
  BY <1>2, WorkingType DEF Elems
<1>4. ASSUME NEW k \in ID, hub[k] # None PROVE meta'[hub[k]].id = k
  BY <1>2, <1>4, HubFacts DEF IdOf
<1> QED
  BY <1>1, <1>3, <1>4 DEF InvWorking, MapsAgree, IdOf, Exist

LEMMA WorkingFreeOne ==
  ASSUME TypeOK, InvWorking, FreeOne \/ FinalizeOne
  PROVE  InvWorking'
<1>1. /\ UNCHANGED <<rules, meta>> /\ pc # "add" /\ pc' # "add"
      /\ workingGroup' = workingGroup \/ workingGroup' = <<>>
      /\ hub' = hub \/ Remove(Head(todo))
  BY DEF FreeOne, FinalizeOne
<1>2. todo \in Seq(ID) /\ todo # <<>>
  BY DEF FreeOne, FinalizeOne, TypeOK
<1>3. Head(todo) \in ID
  BY <1>2, TailFacts
<1>4. Elems(workingGroup') \subseteq Elems(workingGroup)
  BY <1>1 DEF Elems
<1>5. \A g \in Elems(workingGroup) : IdOf(g) \in ID
  BY WorkingType DEF Elems
<1>6. \A k \in ID : hub'[k] \in {None, hub[k]}
  BY <1>1, <1>3 DEF Remove, TypeOK
<1> QED
  BY <1>1, <1>4, <1>5, <1>6 DEF InvWorking, IdOf

(* A batch that may be computed consists of sequences in both maps, so     *)
(* that prepareCache succeeds.                                             *)
LEMMA WorkingKnown ==
  ASSUME TypeOK, MapsAgree, rules = AllRules, InvHeld, InvWorking, Computable
  PROVE  /\ \A g \in Elems(workingGroup) : /\ g \in 1 .. created /\ IdOf(g) \in ID
                                           /\ hub[IdOf(g)] = g /\ Exist(IdOf(g)) /\ ~meta[g].done
                                           /\ meta[g].past + meta[g].input <= MaxPos
         /\ PrepareCache(WorkingIDs) =
              [i \in DOMAIN workingGroup |-> sequenceCaches[IdOf(workingGroup[i])]]
<1>1. /\ pc = "client" /\ Elems(WorkingIDs) \subseteq held
      /\ \A g \in Elems(workingGroup) : ~meta[g].done /\ meta[g].past + meta[g].input <= MaxPos
  BY DEF Computable, AllRules
<1>2. held = Cached
  BY <1>1 DEF InvHeld
<1>3. \A i \in DOMAIN workingGroup :
        /\ workingGroup[i] \in 1 .. created /\ IdOf(workingGroup[i]) \in ID
        /\ Exist(IdOf(workingGroup[i]))
  BY <1>1, <1>2, WorkingType DEF Elems, Cached
<1>4. \A g \in Elems(workingGroup) : g \in 1 .. created /\ IdOf(g) \in ID /\ Exist(IdOf(g))
  BY <1>3 DEF Elems
<1>5. \A g \in Elems(workingGroup) : hub[IdOf(g)] = g
  BY <1>4 DEF MapsAgree, InvWorking
<1>6. PrepareCache(WorkingIDs) = [i \in DOMAIN workingGroup |-> sequenceCaches[IdOf(workingGroup[i])]]
  BY <1>3, WorkingType DEF PrepareCache, WorkingIDs
<1> QED
  BY <1>1, <1>4, <1>5, <1>6

(* What a computation leaves in the cache of a sequence.                   *)
LEMMA ComputedCells ==
  ASSUME TypeOK, OneOwner, MapsAgree, InvLengths, rules = AllRules, InvHeld, InvWorking,
         Computable, DecoderForward, NEW k \in ID, hub[k] # None, NEW p \in Pos
  PROVE  cells'[sequenceCaches[k]][p] =
           IF /\ hub[k] \in Elems(workingGroup)
              /\ p \in meta[hub[k]].past .. TotalLen(meta[hub[k]]) - 1
           THEN [group |-> hub[k], token |-> p]
           ELSE cells[sequenceCaches[k]][p]
<1> DEFINE ready == PrepareCache(WorkingIDs)
           c == sequenceCaches[k]
           Hit(i) == i \in DOMAIN ready /\ ready[i] = c /\ Stored(i, p)
<1>1. cells' = CopyKVCache(ready) /\ c \in Cache /\ Exist(k)
  BY HubFacts DEF DecoderForward
<1>2. /\ DOMAIN ready = DOMAIN workingGroup
      /\ \A i \in DOMAIN workingGroup : ready[i] = sequenceCaches[IdOf(workingGroup[i])]
      /\ \A i \in DOMAIN workingGroup : /\ IdOf(workingGroup[i]) \in ID
                                        /\ hub[IdOf(workingGroup[i])] = workingGroup[i]
  BY WorkingKnown DEF Elems
<1>3. IF \E i \in DOMAIN workingGroup : Hit(i)
      THEN \E i \in DOMAIN workingGroup : Hit(i) /\ cells'[c][p] = [group |-> workingGroup[i], token |-> p]
      ELSE cells'[c][p] = cells[c][p]
  BY <1>1, CopyCell
<1> HIDE DEF ready
<1>4. ASSUME NEW i \in DOMAIN workingGroup
      PROVE  ready[i] = c <=> workingGroup[i] = hub[k]
  <2>1. ready[i] = c => IdOf(workingGroup[i]) = k
    BY <1>1, <1>2 DEF OneOwner
  <2>2. workingGroup[i] = hub[k] => IdOf(workingGroup[i]) = k
    BY HubFacts
  <2> QED
    BY <1>2, <2>1, <2>2
<1>5. /\ meta[hub[k]].past + meta[hub[k]].input = TotalLen(meta[hub[k]])
      /\ meta[hub[k]].past \in Nat /\ meta[hub[k]].input \in Nat
  BY HubFacts, LengthsSum
<1>6. ASSUME NEW i \in DOMAIN workingGroup
      PROVE  Hit(i) <=> workingGroup[i] = hub[k] /\ p \in meta[hub[k]].past .. TotalLen(meta[hub[k]]) - 1
  <2>1. ASSUME workingGroup[i] = hub[k]
        PROVE  Stored(i, p) <=> p \in meta[hub[k]].past .. TotalLen(meta[hub[k]]) - 1
    BY <1>5, <2>1 DEF Stored
  <2> QED
    BY <1>2, <1>4, <2>1
<1> HIDE DEF Hit, c
<1>7. CASE hub[k] \in Elems(workingGroup) /\ p \in meta[hub[k]].past .. TotalLen(meta[hub[k]]) - 1
  BY <1>3, <1>6, <1>7 DEF Elems, c
<1>8. CASE ~(hub[k] \in Elems(workingGroup) /\ p \in meta[hub[k]].past .. TotalLen(meta[hub[k]]) - 1)
  BY <1>3, <1>6, <1>8 DEF Elems, c
<1> QED
  BY <1>7, <1>8

-----------------------------------------------------------------------------
(* The cache of a sequence that is added is no other sequence's. *)
LEMMA AddedCache ==
  ASSUME TypeOK, OneOwner, NEW id \in ID, NEW room \in Nat, ~Exist(id), AddSequence(id, room),
         allocated < MaxGroups
  PROVE  LET c == sequenceCaches'[id]
         IN  /\ c \in Cache /\ cap'[c] = CacheLen(room)
             /\ \A p \in Pos : p >= CacheLen(room) => cells'[c][p] = Blank
             /\ \A d \in Cache \ {c} : cap'[d] = cap[d] /\ cells'[d] = cells[d]
             /\ \A k \in ID : Exist(k) => sequenceCaches'[k] = sequenceCaches[k] /\ sequenceCaches[k] # c
<1> DEFINE c    == IF freeCaches # <<>> THEN freeCaches[Len(freeCaches)] ELSE allocated + 1
           size == CacheLen(room)
<1>1. /\ sequenceCaches' = [sequenceCaches EXCEPT ![id] = c]
      /\ cap' = [cap EXCEPT ![c] = size]
      /\ cells' = [cells EXCEPT ![c] = [p \in Pos |-> IF p < size THEN @[p] ELSE Blank]]
  BY DEF AddSequence
<1>2. size \in Nat
  BY BoundAssumption DEF CacheLen, Smaller
<1>3. c \in Cache /\ \A k \in ID : Exist(k) => sequenceCaches[k] # c
  <2>1. CASE freeCaches # <<>>
    <3>1. c \in 1 .. allocated /\ Len(freeCaches) \in Nat /\ Len(freeCaches) >= 1
      BY <2>1, FrontFacts DEF TypeOK
    <3>2. c \in Elems(freeCaches)
      <4>1. Len(freeCaches) \in 1 .. Len(freeCaches) /\ DOMAIN freeCaches = 1 .. Len(freeCaches)
        BY <3>1, SeqFacts DEF TypeOK
      <4> QED
        BY <2>1, <4>1 DEF Elems
    <3>3. c \in Cache
      BY <3>1, BoundAssumption DEF TypeOK, Cache
    <3> QED
      BY <3>2, <3>3 DEF OneOwner
  <2>2. CASE freeCaches = <<>>
    <3>1. c = allocated + 1 /\ allocated \in Nat
      BY <2>2 DEF TypeOK
    <3> HIDE DEF c
    <3>2. c \in Cache
      BY <3>1, BoundAssumption DEF Cache
    <3>3. \A k \in ID : Exist(k) => sequenceCaches[k] \in 1 .. allocated
      BY DEF TypeOK, Exist
    <3> QED
      BY <3>1, <3>2, <3>3
  <2> QED
    BY <2>1, <2>2
<1> HIDE DEF c, size
<1>4. sequenceCaches'[id] = c /\ \A k \in ID : k # id => sequenceCaches'[k] = sequenceCaches[k]
  BY <1>1 DEF TypeOK
<1>5. cap'[c] = size /\ \A d \in Cache : d # c => cap'[d] = cap[d] /\ cells'[d] = cells[d]
  BY <1>1, <1>3 DEF TypeOK
<1>6. \A p \in Pos : p >= size => cells'[c][p] = Blank
  <2>1. cells'[c] = [p \in Pos |-> IF p < size THEN cells[c][p] ELSE Blank]
    BY <1>1, <1>3 DEF TypeOK
  <2>2. \A p \in Pos : p \in Int
    BY DEF Pos
  <2> QED
    BY <1>2, <2>1, <2>2
<1>7. \A k \in ID : Exist(k) => k # id
  OBVIOUS
<1> QED
  BY <1>3, <1>4, <1>5, <1>6, <1>7 DEF size

(* All that AddGroup does, for the careful client. *)
LEMMA AddGroupNew ==
  ASSUME TypeOK, InvCounts, OneOwner, MapsAgree, rules = AllRules, InvHeld, InvFresh, AddGroup
  PROVE  \E id \in ID, c \in Cache :
           /\ hub[id] = None /\ hub'[id] = created + 1 /\ sequenceCaches'[id] = c
           /\ created + 1 # None /\ fed' = fed \ {id}
           /\ meta'[created + 1] = NewMeta(id, todo[1].prompt, todo[1].maxLen)
           /\ \A k \in ID : hub[k] # None =>
                /\ hub'[k] = hub[k] /\ hub[k] \in 1 .. created /\ meta'[hub[k]] = meta[hub[k]]
                /\ sequenceCaches'[k] = sequenceCaches[k] /\ sequenceCaches[k] \in Cache
                /\ sequenceCaches[k] # c
           /\ \A k \in ID : hub'[k] # None => k = id \/ hub[k] # None
           /\ cap'[c] = CacheLen(todo[1].room)
           /\ \A p \in Pos : p >= cap'[c] => cells'[c][p] = Blank
           /\ \A d \in Cache \ {c} : cap'[d] = cap[d] /\ cells'[d] = cells[d]
<1> DEFINE new == CreateSequenceID(globalSequenceID)
<1>1. PICK id \in ID : id = new
  BY NextIDType
<1>2. id \in ID /\ ~Exist(id) /\ hub[id] = None
  BY <1>1, AddedIsNew
<1>3. /\ AddSequence(id, todo[1].room) /\ todo[1] \in Job
      /\ created \in Nat /\ created + 1 \in Group
      /\ meta'[created + 1] = NewMeta(id, todo[1].prompt, todo[1].maxLen)
      /\ \A g \in 1 .. created : meta'[g] = meta[g]
      /\ \A k \in ID : hub'[k] = IF k = id /\ hub[k] = None THEN created + 1 ELSE hub[k]
  BY <1>1, AddGroupFacts
<1>4. allocated < MaxGroups /\ todo[1].room \in Nat /\ created + 1 # None
  BY <1>3, BoundAssumption DEF InvCounts, TypeOK, Group, Job, None
<1>5. fed' = fed \ {id}
  BY <1>1 DEF AddGroup
<1> DEFINE c == sequenceCaches'[id]
<1>6. /\ c \in Cache /\ cap'[c] = CacheLen(todo[1].room)
      /\ \A p \in Pos : p >= CacheLen(todo[1].room) => cells'[c][p] = Blank
      /\ \A d \in Cache \ {c} : cap'[d] = cap[d] /\ cells'[d] = cells[d]
      /\ \A k \in ID : Exist(k) => sequenceCaches'[k] = sequenceCaches[k] /\ sequenceCaches[k] # c
  BY <1>2, <1>3, <1>4, AddedCache
<1>7. ASSUME NEW k \in ID, hub[k] # None
      PROVE  /\ hub'[k] = hub[k] /\ hub[k] \in 1 .. created /\ meta'[hub[k]] = meta[hub[k]]
             /\ sequenceCaches'[k] = sequenceCaches[k] /\ sequenceCaches[k] \in Cache
             /\ sequenceCaches[k] # c
  BY <1>3, <1>6, <1>7, HubFacts
<1>8. hub'[id] = created + 1 /\ \A k \in ID : hub'[k] # None => k = id \/ hub[k] # None
  BY <1>2, <1>3
<1> HIDE DEF c
<1>9. /\ hub[id] = None /\ hub'[id] = created + 1 /\ sequenceCaches'[id] = c
      /\ created + 1 # None /\ fed' = fed \ {id}
      /\ meta'[created + 1] = NewMeta(id, todo[1].prompt, todo[1].maxLen)
      /\ \A k \in ID : hub'[k] # None => k = id \/ hub[k] # None
      /\ cap'[c] = CacheLen(todo[1].room)
      /\ \A p \in Pos : p >= cap'[c] => cells'[c][p] = Blank
      /\ \A d \in Cache \ {c} : cap'[d] = cap[d] /\ cells'[d] = cells[d]
  BY <1>2, <1>3, <1>4, <1>5, <1>6, <1>8 DEF c
<1> QED
  BY <1>2, <1>6, <1>7, <1>9

LEMMA CacheAddGroup ==
  ASSUME TypeOK, InvCounts, OneOwner, MapsAgree, InvLengths, rules = AllRules, InvHeld, InvFresh,
         InvRoom, InvFed, CacheHoldsPast, InBounds, AddGroup
  PROVE  InvRoom' /\ InvFed' /\ CacheHoldsPast' /\ InBounds'
<1>1. PICK id \in ID, c \in Cache :
           /\ hub[id] = None /\ hub'[id] = created + 1 /\ sequenceCaches'[id] = c
           /\ created + 1 # None /\ fed' = fed \ {id}
           /\ meta'[created + 1] = NewMeta(id, todo[1].prompt, todo[1].maxLen)
           /\ \A k \in ID : hub[k] # None =>
                /\ hub'[k] = hub[k] /\ hub[k] \in 1 .. created /\ meta'[hub[k]] = meta[hub[k]]
                /\ sequenceCaches'[k] = sequenceCaches[k] /\ sequenceCaches[k] \in Cache
                /\ sequenceCaches[k] # c
           /\ \A k \in ID : hub'[k] # None => k = id \/ hub[k] # None
           /\ cap'[c] = CacheLen(todo[1].room)
           /\ \A p \in Pos : p >= cap'[c] => cells'[c][p] = Blank
           /\ \A d \in Cache \ {c} : cap'[d] = cap[d] /\ cells'[d] = cells[d]
  BY AddGroupNew
<1> DEFINE m == meta'[created + 1]
<1>2. /\ pc = "add" /\ rules' = rules /\ todo[1] \in Job
      /\ Len(todo) \in Nat /\ Len(todo) >= 1 /\ Len(todo') = Len(todo) - 1
      /\ \A i \in 1 .. Len(todo) - 1 : todo'[i] = todo[i + 1] /\ i + 1 \in 1 .. Len(todo)
  BY AddGroupFacts
<1>3. /\ m.prompt = todo[1].prompt /\ m.maxLen = todo[1].maxLen /\ m.past = 0 /\ m.generated = 0
      /\ m.input = todo[1].prompt
  BY <1>1 DEF NewMeta
<1>4. TotalLen(m) = todo[1].prompt /\ m.past + m.input = TotalLen(m) /\ todo[1].prompt \in Nat
  BY <1>2, <1>3 DEF TotalLen, Job
<1>5. \A i \in 1 .. Len(todo) :
        /\ todo[i].prompt <= todo[i].room /\ todo[i].prompt <= MaxSeqLen
        /\ todo[i].maxLen # NoConfig => todo[i].maxLen = todo[i].room /\ todo[i].room <= MaxSeqLen
  BY <1>2 DEF InvRoom
<1>6. /\ TotalLen(m) <= cap'[c] /\ TotalLen(m) <= MaxPos
      /\ m.maxLen # NoConfig => m.maxLen <= cap'[c]
  <2>1. 1 \in 1 .. Len(todo)
    BY <1>2
  <2>2. todo[1].prompt <= todo[1].room /\ todo[1].prompt <= MaxSeqLen
    BY <1>5, <2>1
  <2>3. todo[1].maxLen # NoConfig => todo[1].maxLen = todo[1].room /\ todo[1].room <= MaxSeqLen
    BY <1>5, <2>1
  <2>4. cap'[c] = IF todo[1].room < MaxSeqLen THEN todo[1].room ELSE MaxSeqLen
    BY <1>1 DEF CacheLen, Smaller
  <2>5. todo[1].room \in Nat /\ MaxSeqLen \in Nat /\ MaxPos \in Nat /\ MaxSeqLen <= MaxPos
    BY <1>2, BoundAssumption DEF Job
  <2> QED
    BY <1>3, <1>4, <2>2, <2>3, <2>4, <2>5
<1> HIDE DEF m
<1>7. InvRoom'
  <2>1. ASSUME NEW k \in ID, hub'[k] # None
        PROVE  /\ TotalLen(meta'[hub'[k]]) <= MaxPos
               /\ IF meta'[hub'[k]].maxLen # NoConfig
                  THEN meta'[hub'[k]].maxLen <= cap'[sequenceCaches'[k]]
                  ELSE TotalLen(meta'[hub'[k]]) <= cap'[sequenceCaches'[k]]
    <3>1. CASE k = id
      BY <1>1, <1>6, <3>1 DEF m
    <3>2. CASE hub[k] # None
      <4>1. /\ TotalLen(meta[hub[k]]) <= MaxPos
            /\ IF Sampled(hub[k]) THEN meta[hub[k]].maxLen <= cap[sequenceCaches[k]]
               ELSE TotalLen(meta[hub[k]]) <= cap[sequenceCaches[k]]
        BY <3>2 DEF InvRoom
      <4> QED
        BY <1>1, <3>2, <4>1 DEF Sampled
    <3> QED
      BY <1>1, <2>1, <3>1, <3>2
  <2>2. ASSUME NEW i \in 1 .. Len(todo')
        PROVE  /\ todo'[i].prompt <= todo'[i].room /\ todo'[i].prompt <= MaxSeqLen
               /\ todo'[i].maxLen # NoConfig => /\ todo'[i].maxLen = todo'[i].room
                                                /\ todo'[i].room <= MaxSeqLen
    BY <1>2, <1>5
  <2> QED
    BY <2>1, <2>2 DEF InvRoom, Sampled
<1>8. InvFed'
  <2>1. ASSUME NEW k \in fed', hub'[k] # None, meta'[hub'[k]].maxLen = NoConfig,
               NEW p \in 0 .. TotalLen(meta'[hub'[k]]) - 1
        PROVE  cells'[sequenceCaches'[k]][p] = [group |-> hub'[k], token |-> p]
    <3>1. k \in ID /\ k \in fed /\ hub[k] # None
      BY <1>1, <2>1 DEF TypeOK
    <3>2. /\ hub'[k] = hub[k] /\ meta'[hub[k]] = meta[hub[k]] /\ sequenceCaches'[k] = sequenceCaches[k]
          /\ cells'[sequenceCaches[k]] = cells[sequenceCaches[k]]
      BY <1>1, <3>1
    <3>3. ~Sampled(hub[k]) /\ p \in 0 .. TotalLen(meta[hub[k]]) - 1
      BY <2>1, <3>2 DEF Sampled
    <3>4. cells[sequenceCaches[k]][p] = [group |-> hub[k], token |-> p]
      BY <3>1, <3>3 DEF InvFed
    <3> QED
      BY <3>2, <3>4
  <2> QED
    BY <2>1 DEF InvFed, Sampled
<1>9. CacheHoldsPast'
  <2>1. ASSUME NEW k \in ID, hub'[k] # None
        PROVE  /\ meta'[hub'[k]].past + meta'[hub'[k]].input = TotalLen(meta'[hub'[k]])
               /\ \A p \in 0 .. meta'[hub'[k]].past - 1 :
                    cells'[sequenceCaches'[k]][p] = [group |-> hub'[k], token |-> p]
    <3>1. CASE k = id
      BY <1>1, <1>3, <1>4, <3>1 DEF m
    <3>2. CASE hub[k] # None
      <4>1. /\ meta[hub[k]].past + meta[hub[k]].input = TotalLen(meta[hub[k]])
            /\ \A p \in 0 .. meta[hub[k]].past - 1 :
                 cells[sequenceCaches[k]][p] = [group |-> hub[k], token |-> p]
        BY <3>2 DEF CacheHoldsPast
      <4> QED
        BY <1>1, <3>2, <4>1
    <3> QED
      BY <1>1, <2>1, <3>1, <3>2
  <2> QED
    BY <2>1 DEF CacheHoldsPast
<1>10. InBounds'
  BY <1>1, <1>2 DEF InBounds
<1> QED
  BY <1>7, <1>8, <1>9, <1>10

LEMMA CacheSetInput ==
  ASSUME rules = AllRules, InvRoom, InvFed, CacheHoldsPast, InBounds, NEW n \in 1 .. MaxBatch,
         NEW lens \in [1 .. n -> PromptLens], NEW maxLen \in MaxLens,
         SetInputPrompt(lens, maxLen) \/ SetInputConfig(lens, maxLen)
  PROVE  InvRoom' /\ InvFed' /\ CacheHoldsPast' /\ InBounds'
<1>1. /\ UNCHANGED <<rules, hub, meta, sequenceCaches, cap, cells, fed>>
      /\ "fits" \in rules => \A i \in DOMAIN lens : lens[i] <= MaxSeqLen
  BY DEF SetInputPrompt, SetInputConfig, pool, caches
<1>2. \A i \in 1 .. n : lens[i] <= MaxSeqLen
  BY <1>1 DEF AllRules
<1>3. \A i \in 1 .. Len(todo') :
        /\ todo'[i].prompt <= todo'[i].room /\ todo'[i].prompt <= MaxSeqLen
        /\ todo'[i].maxLen # NoConfig => todo'[i].maxLen = todo'[i].room /\ todo'[i].room <= MaxSeqLen
  BY <1>2, JobsTyped
<1> QED
  BY <1>1, <1>3 DEF InvRoom, InvFed, CacheHoldsPast, InBounds, Sampled

(* Freeing only takes sequences away. *)
LEMMA CacheFreeOne ==
  ASSUME TypeOK, rules = AllRules, InvRoom, InvFed, CacheHoldsPast, InBounds, FreeOne \/ FinalizeOne
  PROVE  InvRoom' /\ InvFed' /\ CacheHoldsPast' /\ InBounds'
<1>1. /\ UNCHANGED <<rules, meta, cap, cells, fed>> /\ pc' # "add"
      /\ UNCHANGED <<hub, sequenceCaches>> \/ (Remove(Head(todo)) /\ DelSequence(Head(todo)))
  BY DEF FreeOne, FinalizeOne
<1>2. todo \in Seq(ID) /\ todo # <<>>
  BY DEF FreeOne, FinalizeOne, TypeOK
<1>3. Head(todo) \in ID
  BY <1>2, TailFacts
<1>4. \A k \in ID : hub'[k] # None => hub'[k] = hub[k] /\ sequenceCaches'[k] = sequenceCaches[k]
  BY <1>1, <1>3 DEF Remove, DelSequence, TypeOK
<1>5. fed \subseteq ID
  BY DEF TypeOK
<1>6. InvRoom'
  BY <1>1, <1>4 DEF InvRoom, Sampled
<1>7. InvFed'
  BY <1>1, <1>4, <1>5 DEF InvFed, Sampled
<1>8. CacheHoldsPast'
  BY <1>1, <1>4 DEF CacheHoldsPast
<1>9. InBounds'
  BY <1>1 DEF InBounds
<1> QED
  BY <1>6, <1>7, <1>8, <1>9

-----------------------------------------------------------------------------
(* What a sequence has in its cache when its next token arrives. *)
LEMMA CacheDecode ==
  ASSUME TypeOK, MapsAgree, InvLengths, rules = AllRules, InvRoom, InvFed, CacheHoldsPast, InBounds,
         NEW ids \in Batches(held \cap fed), SetInputDecode(ids)
  PROVE  InvRoom' /\ InvFed' /\ CacheHoldsPast' /\ InBounds'
<1>1. /\ UNCHANGED <<rules, hub, sequenceCaches, cap, cells>> /\ fed' = fed \ Elems(ids) /\ pc' = "client"
  BY DecodeFacts DEF SetInputDecode, caches
<1>2. ASSUME NEW k \in ID, hub[k] # None, k \notin Elems(ids)
      PROVE  meta'[hub[k]] = meta[hub[k]]
  <2>1. ~ \E id \in Elems(ids) : hub[k] = hub[id]
    BY <1>2, HubFacts, DecodeFacts
  <2> QED
    BY <1>2, <2>1, HubFacts, DecodeFacts
<1>3. ASSUME NEW k \in ID, hub[k] # None, k \in Elems(ids)
      PROVE  LET m == meta[hub[k]]
                 n == meta'[hub[k]]
             IN  /\ m \in Meta /\ n \in Meta /\ m.maxLen = NoConfig /\ n.maxLen = NoConfig /\ k \in fed
                 /\ TotalLen(n) = TotalLen(m) + 1 /\ n.past = TotalLen(m) /\ n.input = 1
                 /\ TotalLen(m) \in Nat
                 /\ TotalLen(m) < cap[sequenceCaches[k]]
  <2> DEFINE g == hub[k]
             m == meta[g]
             n == meta'[g]
  <2>1. g \in 1 .. created /\ m \in Meta
    BY <1>3, HubFacts, CreatedGroups
  <2>2. n = StepForward(m) /\ ~Sampled(g) /\ k \in fed
    BY <1>3, <2>1, DecodeFacts
  <2>3. /\ n.prompt = m.prompt /\ n.maxLen = m.maxLen /\ n.input = 1
        /\ n.past = IF m.step = 0 THEN m.prompt ELSE m.past + 1
        /\ n.generated = m.generated + 1 /\ n.step = m.step + 1 /\ n \in Meta
    BY <2>1, <2>2, StepForwardFields
  <2>4. /\ m.step = 0 => m.past = 0 /\ m.input = m.prompt /\ m.generated = 0
        /\ m.step > 0 => m.input = 1 /\ m.past + 1 = TotalLen(m)
    BY <2>1 DEF InvLengths
  <2>5. /\ n.step # 0 /\ (n.step > 0 => n.input = 1 /\ n.past + 1 = TotalLen(n))
        /\ TotalLen(n) = TotalLen(m) + 1
    BY <2>1, <2>3, <2>4, LengthsStep
  <2>6. TotalLen(m) \in Nat /\ m.maxLen = NoConfig
    BY <2>1, <2>2, LengthsSum DEF Sampled
  <2>7. TotalLen(m) < cap[sequenceCaches[k]]
    BY <1>3, DecodeFacts DEF AllRules
  <2> HIDE DEF m, n
  <2>8. n.past = TotalLen(m)
    BY <2>3, <2>5, <2>6 DEF Meta
  <2> QED
    BY <2>1, <2>2, <2>3, <2>5, <2>6, <2>7, <2>8 DEF m, n
<1>4. ASSUME NEW k \in ID, hub[k] # None
      PROVE  LET n == meta'[hub[k]]
             IN  /\ TotalLen(n) <= MaxPos
                 /\ IF n.maxLen # NoConfig THEN n.maxLen <= cap[sequenceCaches[k]]
                    ELSE TotalLen(n) <= cap[sequenceCaches[k]]
                 /\ n.past + n.input = TotalLen(n)
                 /\ \A p \in 0 .. n.past - 1 : cells[sequenceCaches[k]][p] = [group |-> hub[k], token |-> p]
  <2>1. CASE k \notin Elems(ids)
    <3>1. meta'[hub[k]] = meta[hub[k]]
      BY <1>2, <1>4, <2>1
    <3> QED
      BY <1>4, <3>1 DEF InvRoom, CacheHoldsPast, Sampled
  <2>2. CASE k \in Elems(ids)
    <3> DEFINE m == meta[hub[k]]
               n == meta'[hub[k]]
    <3>1. /\ m \in Meta /\ n \in Meta /\ m.maxLen = NoConfig /\ n.maxLen = NoConfig /\ k \in fed
          /\ TotalLen(n) = TotalLen(m) + 1 /\ n.past = TotalLen(m) /\ n.input = 1
          /\ TotalLen(m) \in Nat /\ TotalLen(m) < cap[sequenceCaches[k]]
      BY <1>3, <1>4, <2>2
    <3>2. \A p \in 0 .. TotalLen(m) - 1 : cells[sequenceCaches[k]][p] = [group |-> hub[k], token |-> p]
      BY <1>4, <3>1 DEF InvFed, Sampled
    <3>3. cap[sequenceCaches[k]] \in Nat /\ cap[sequenceCaches[k]] <= MaxPos /\ MaxPos \in Nat
      <4>1. cap[sequenceCaches[k]] \in 0 .. MaxSeqLen
        BY <1>4, HubFacts DEF TypeOK
      <4> QED
        BY <4>1, BoundAssumption
    <3> HIDE DEF m, n
    <3>4. TotalLen(n) <= cap[sequenceCaches[k]] /\ TotalLen(n) <= MaxPos
      BY <3>1, <3>3
    <3>5. n.past + n.input = TotalLen(n)
      BY <3>1
    <3> QED
      BY <3>1, <3>2, <3>4, <3>5 DEF n
  <2> QED
    BY <2>1, <2>2
<1>5. InvRoom'
  BY <1>1, <1>4 DEF InvRoom, Sampled
<1>6. CacheHoldsPast'
  BY <1>1, <1>4 DEF CacheHoldsPast
<1>7. InvFed'
  <2>1. \A k \in fed' : k \in fed /\ k \in ID /\ k \notin Elems(ids)
    BY <1>1 DEF TypeOK
  <2>2. \A k \in fed' : hub[k] # None => meta'[hub[k]] = meta[hub[k]]
    BY <1>2, <2>1
  <2> QED
    BY <1>1, <2>1, <2>2 DEF InvFed, Sampled
<1>8. InBounds'
  BY <1>1 DEF InBounds
<1> QED
  BY <1>5, <1>6, <1>7, <1>8

(* A token that is stored has room. *)
LEMMA ComputedFits ==
  ASSUME TypeOK, MapsAgree, InvLengths, InvSampled, rules = AllRules, InvHeld, InvWorking, InvRoom,
         Computable, NEW g \in Elems(workingGroup)
  PROVE  /\ TotalLen(meta[g]) \in Nat /\ cap[sequenceCaches[IdOf(g)]] \in Nat
         /\ TotalLen(meta[g]) <= cap[sequenceCaches[IdOf(g)]]
<1>1. g \in 1 .. created /\ IdOf(g) \in ID /\ hub[IdOf(g)] = g /\ ~meta[g].done /\ g # None
  BY WorkingKnown, CreatedGroups
<1>2. cap[sequenceCaches[IdOf(g)]] \in Nat
  BY <1>1, HubFacts DEF TypeOK
<1>3. TotalLen(meta[g]) \in Nat /\ meta[g] \in Meta
  BY <1>1, LengthsSum
<1>4. CASE ~Sampled(g)
  BY <1>1, <1>2, <1>3, <1>4 DEF InvRoom
<1>5. CASE Sampled(g)
  <2>1. meta[g].maxLen <= cap[sequenceCaches[IdOf(g)]]
    BY <1>1, <1>5 DEF InvRoom
  <2>2. \/ TotalLen(meta[g]) < meta[g].maxLen
        \/ meta[g].generated = 0 /\ meta[g].prompt <= meta[g].maxLen
    BY <1>1, <1>5 DEF InvSampled, AllRules
  <2>3. meta[g].maxLen \in Nat /\ meta[g].prompt \in Nat
    BY <1>3, <1>5 DEF Meta, Sampled
  <2>4. TotalLen(meta[g]) <= meta[g].maxLen
    BY <1>3, <2>2, <2>3 DEF TotalLen
  <2> QED
    BY <1>2, <1>3, <2>1, <2>3, <2>4
<1> QED
  BY <1>2, <1>3, <1>4, <1>5

LEMMA ComputedInBounds ==
  ASSUME TypeOK, MapsAgree, InvLengths, InvSampled, rules = AllRules, InvHeld, InvWorking, InvRoom,
         InBounds, Computable, DecoderForward, UNCHANGED <<rules, cap>>
  PROVE  InBounds'
<1> DEFINE ready == PrepareCache(WorkingIDs)
<1> SUFFICES ASSUME NEW c \in Cache, NEW p \in Pos, p >= cap[c] PROVE cells'[c][p] = Blank
  BY DEF InBounds
<1>1. cells' = CopyKVCache(ready)
  BY DEF DecoderForward
<1>2. ASSUME NEW i \in DOMAIN workingGroup, ready[i] = c, Stored(i, p) PROVE FALSE
  <2> DEFINE g == workingGroup[i]
  <2>1. g \in Elems(workingGroup) /\ g \in 1 .. created
    BY WorkingType DEF Elems
  <2>2. ready[i] = sequenceCaches[IdOf(g)]
    BY WorkingKnown
  <2>3. TotalLen(meta[g]) \in Nat /\ cap[c] \in Nat /\ TotalLen(meta[g]) <= cap[c]
    BY <1>2, <2>1, <2>2, ComputedFits
  <2>4. p \in meta[g].past .. meta[g].past + meta[g].input - 1
    BY <1>2 DEF Stored
  <2>5. /\ meta[g].past + meta[g].input = TotalLen(meta[g])
        /\ meta[g].past \in Nat /\ meta[g].input \in Nat
    BY <2>1, LengthsSum
  <2> QED
    BY <2>3, <2>4, <2>5
<1>3. cells'[c][p] = cells[c][p]
  BY <1>1, <1>2, CopyCell
<1> QED
  BY <1>3 DEF InBounds

LEMMA PositionsBounded ==
  ASSUME TypeOK, MapsAgree, InvLengths, rules = AllRules, InvRoom, NEW k \in ID, hub[k] # None
  PROVE  LET m == meta[hub[k]]
         IN  /\ \A p \in 0 .. m.past - 1 : p \in Pos
             /\ \A p \in 0 .. TotalLen(m) - 1 :
                  p \in Pos /\ (p \in 0 .. m.past - 1 \/ p \in m.past .. TotalLen(m) - 1)
<1> DEFINE m == meta[hub[k]]
<1>1. m.past + m.input = TotalLen(m) /\ TotalLen(m) \in Nat /\ m.past \in Nat /\ m.input \in Nat
  BY HubFacts, LengthsSum
<1>2. TotalLen(m) <= MaxPos /\ MaxPos \in Nat
  BY BoundAssumption DEF InvRoom
<1> HIDE DEF m
<1>3. /\ \A p \in 0 .. m.past - 1 : p \in Pos
      /\ \A p \in 0 .. TotalLen(m) - 1 :
           p \in Pos /\ (p \in 0 .. m.past - 1 \/ p \in m.past .. TotalLen(m) - 1)
  BY <1>1, <1>2 DEF Pos
<1> QED
  BY <1>3 DEF m

LEMMA CacheForward ==
  ASSUME TypeOK, OneOwner, MapsAgree, InvLengths, InvSampled, rules = AllRules, InvHeld, InvWorking,
         InvRoom, InvFed, CacheHoldsPast, InBounds, Forward
  PROVE  InvRoom' /\ InvFed' /\ CacheHoldsPast' /\ InBounds'
<1>1. /\ UNCHANGED <<rules, hub, meta, sequenceCaches, cap, pc, todo>> /\ Computable /\ DecoderForward
      /\ fed' = fed \cup Elems(WorkingIDs) /\ pc = "client"
  BY DEF Forward, Computable, pool, caches
<1>2. InBounds'
  BY <1>1, ComputedInBounds
<1>3. InvRoom'
  BY <1>1 DEF InvRoom, Sampled
<1>4. ASSUME NEW k \in ID, hub[k] # None, NEW p \in Pos,
             cells[sequenceCaches[k]][p] = [group |-> hub[k], token |-> p]
      PROVE  cells'[sequenceCaches[k]][p] = [group |-> hub[k], token |-> p]
  BY <1>1, <1>4, ComputedCells
<1>5. ASSUME NEW k \in ID, hub[k] # None
      PROVE  \A p \in 0 .. meta[hub[k]].past - 1 :
               cells'[sequenceCaches[k]][p] = [group |-> hub[k], token |-> p]
  <2>1. \A p \in 0 .. meta[hub[k]].past - 1 : p \in Pos
    BY <1>5, PositionsBounded
  <2> QED
    BY <1>4, <1>5, <2>1 DEF CacheHoldsPast
<1>6. CacheHoldsPast'
  BY <1>1, <1>5 DEF CacheHoldsPast
<1>7. InvFed'
  <2>1. ASSUME NEW k \in fed', hub[k] # None, ~Sampled(hub[k]), NEW p \in 0 .. TotalLen(meta[hub[k]]) - 1
        PROVE  cells'[sequenceCaches[k]][p] = [group |-> hub[k], token |-> p]
    <3>1. k \in ID
      BY <1>1, WorkingType, SeqFacts DEF TypeOK
    <3>2. /\ p \in Pos /\ (p \in 0 .. meta[hub[k]].past - 1 \/ p \in meta[hub[k]].past .. TotalLen(meta[hub[k]]) - 1)
      BY <2>1, <3>1, PositionsBounded
    <3>3. CASE k \in fed
      BY <1>4, <2>1, <3>1, <3>2, <3>3 DEF InvFed
    <3>4. CASE k \in Elems(WorkingIDs)
      <4>1. hub[k] \in Elems(workingGroup)
        BY <3>4, WorkingType, WorkingKnown, <1>1 DEF Elems
      <4>2. CASE p \in 0 .. meta[hub[k]].past - 1
        BY <1>5, <2>1, <3>1, <4>2
      <4>3. CASE p \in meta[hub[k]].past .. TotalLen(meta[hub[k]]) - 1
        BY <1>1, <2>1, <3>1, <3>2, <4>1, <4>3, ComputedCells
      <4> QED
        BY <3>2, <4>2, <4>3
    <3> QED
      BY <1>1, <3>3, <3>4
  <2> QED
    BY <1>1, <2>1 DEF InvFed, Sampled
<1> QED
  BY <1>2, <1>3, <1>6, <1>7

LEMMA CacheGenerate ==
  ASSUME TypeOK, OneOwner, MapsAgree, InvLengths, InvSampled, rules = AllRules, InvHeld, InvWorking,
         InvRoom, InvFed, CacheHoldsPast, InBounds, NEW ended, Generate(ended)
  PROVE  InvRoom' /\ InvFed' /\ CacheHoldsPast' /\ InBounds'
<1>1. /\ UNCHANGED <<rules, hub, sequenceCaches, cap, fed>> /\ Computable /\ DecoderForward
      /\ pc' = "client"
      /\ \A g \in Elems(workingGroup) : Sampled(g) /\ TotalLen(meta[g]) < MaxPos
  BY DEF Generate, Computable, caches
<1>2. InBounds'
  BY <1>1, ComputedInBounds
<1>3. ASSUME NEW k \in ID, hub[k] # None, hub[k] \notin Elems(workingGroup)
      PROVE  meta'[hub[k]] = meta[hub[k]]
  BY <1>3, HubFacts, GenerateFacts
<1>4. ASSUME NEW k \in ID, hub[k] # None, hub[k] \in Elems(workingGroup)
      PROVE  LET m == meta[hub[k]]
                 n == meta'[hub[k]]
             IN  /\ m.maxLen = n.maxLen /\ m.maxLen # NoConfig
                 /\ TotalLen(n) <= MaxPos
                 /\ TotalLen(n) = TotalLen(m) + 1 /\ n.past = TotalLen(m) /\ n.input = 1
                 /\ TotalLen(m) \in Nat
  <2> DEFINE g == hub[k]
             m == meta[g]
             n == meta'[g]
  <2>1. g \in 1 .. created /\ m \in Meta
    BY <1>4, HubFacts, CreatedGroups
  <2>2. n = StepForward(StopCheck(m, g \in ended)) /\ m.maxLen # NoConfig
    BY <1>4, <2>1, GenerateFacts DEF Sampled
  <2>3. /\ n.prompt = m.prompt /\ n.maxLen = m.maxLen /\ n.input = 1
        /\ n.past = IF m.step = 0 THEN m.prompt ELSE m.past + 1
        /\ n.generated = m.generated + 1 /\ n.step = m.step + 1 /\ n \in Meta
    BY <2>1, <2>2, GeneratedFields
  <2>4. /\ m.step = 0 => m.past = 0 /\ m.input = m.prompt /\ m.generated = 0
        /\ m.step > 0 => m.input = 1 /\ m.past + 1 = TotalLen(m)
    BY <2>1 DEF InvLengths
  <2>5. /\ n.step # 0 /\ (n.step > 0 => n.input = 1 /\ n.past + 1 = TotalLen(n))
        /\ TotalLen(n) = TotalLen(m) + 1
    BY <2>1, <2>3, <2>4, LengthsStep
  <2>6. TotalLen(m) \in Nat
    BY <2>1, LengthsSum
  <2>7. TotalLen(m) < MaxPos /\ MaxPos \in Nat
    BY <1>1, <1>4, BoundAssumption
  <2> HIDE DEF m, n
  <2>8. n.past = TotalLen(m) /\ TotalLen(n) <= MaxPos
    BY <2>3, <2>5, <2>6, <2>7 DEF Meta
  <2> QED
    BY <2>2, <2>3, <2>5, <2>6, <2>8 DEF m, n
<1>5. ASSUME NEW k \in ID, hub[k] # None, NEW p \in Pos,
             cells[sequenceCaches[k]][p] = [group |-> hub[k], token |-> p]
      PROVE  cells'[sequenceCaches[k]][p] = [group |-> hub[k], token |-> p]
  BY <1>1, <1>5, ComputedCells
<1>6. InvRoom'
  <2>1. ASSUME NEW k \in ID, hub[k] # None
        PROVE  LET n == meta'[hub[k]]
               IN  /\ TotalLen(n) <= MaxPos
                   /\ IF n.maxLen # NoConfig THEN n.maxLen <= cap[sequenceCaches[k]]
                      ELSE TotalLen(n) <= cap[sequenceCaches[k]]
    BY <1>3, <1>4, <2>1 DEF InvRoom, Sampled
  <2> QED
    BY <1>1, <2>1 DEF InvRoom, Sampled
<1>7. CacheHoldsPast'
  <2>1. ASSUME NEW k \in ID, hub[k] # None
        PROVE  LET n == meta'[hub[k]]
               IN  /\ n.past + n.input = TotalLen(n)
                   /\ \A p \in 0 .. n.past - 1 :
                        cells'[sequenceCaches[k]][p] = [group |-> hub[k], token |-> p]
    <3> DEFINE m == meta[hub[k]]
               n == meta'[hub[k]]
    <3>1. /\ m.past + m.input = TotalLen(m)
          /\ \A p \in 0 .. m.past - 1 : cells[sequenceCaches[k]][p] = [group |-> hub[k], token |-> p]
      BY <2>1 DEF CacheHoldsPast
    <3>2. /\ \A p \in 0 .. m.past - 1 : p \in Pos
          /\ \A p \in 0 .. TotalLen(m) - 1 :
               p \in Pos /\ (p \in 0 .. m.past - 1 \/ p \in m.past .. TotalLen(m) - 1)
      BY <2>1, PositionsBounded
    <3>3. \A p \in 0 .. m.past - 1 : cells'[sequenceCaches[k]][p] = [group |-> hub[k], token |-> p]
      BY <1>5, <2>1, <3>1, <3>2
    <3>4. CASE hub[k] \notin Elems(workingGroup)
      BY <1>3, <2>1, <3>1, <3>3, <3>4
    <3>5. CASE hub[k] \in Elems(workingGroup)
      <4>1. TotalLen(n) = TotalLen(m) + 1 /\ n.past = TotalLen(m) /\ n.input = 1 /\ TotalLen(m) \in Nat
        BY <1>4, <2>1, <3>5
      <4>2. ASSUME NEW p \in 0 .. TotalLen(m) - 1
            PROVE  cells'[sequenceCaches[k]][p] = [group |-> hub[k], token |-> p]
        <5>1. CASE p \in 0 .. m.past - 1
          BY <3>3, <5>1
        <5>2. CASE p \in m.past .. TotalLen(m) - 1
          BY <1>1, <2>1, <3>2, <3>5, <5>2, ComputedCells
        <5> QED
          BY <3>2, <5>1, <5>2
      <4> HIDE DEF m, n
      <4>3. n.past + n.input = TotalLen(n)
        BY <4>1
      <4> QED
        BY <4>1, <4>2, <4>3 DEF n
    <3> QED
      BY <3>4, <3>5
  <2> QED
    BY <1>1, <2>1 DEF CacheHoldsPast
<1>8. InvFed'
  <2>1. ASSUME NEW k \in fed, hub[k] # None, meta'[hub[k]].maxLen = NoConfig,
               NEW p \in 0 .. TotalLen(meta'[hub[k]]) - 1
        PROVE  cells'[sequenceCaches[k]][p] = [group |-> hub[k], token |-> p]
    <3>1. k \in ID
      BY DEF TypeOK
    <3>2. hub[k] \notin Elems(workingGroup)
      BY <1>4, <2>1, <3>1
    <3>3. meta'[hub[k]] = meta[hub[k]]
      BY <1>3, <2>1, <3>1, <3>2
    <3>4. p \in Pos
      BY <2>1, <3>1, <3>3, PositionsBounded
    <3>5. cells[sequenceCaches[k]][p] = [group |-> hub[k], token |-> p]
      BY <2>1, <3>3 DEF InvFed, Sampled
    <3> QED
      BY <1>5, <2>1, <3>1, <3>4, <3>5
  <2> QED
    BY <1>1, <2>1 DEF InvFed, Sampled
<1> QED
  BY <1>2, <1>6, <1>7, <1>8

-----------------------------------------------------------------------------
(* The invariant of every client, and what is added for the one that keeps *)
(* every rule.                                                             *)
CommonInv ==
  TypeOK /\ InvCounts /\ OneOwner /\ MapsAgree /\ InvLengths /\ InvSampled /\ LengthBounded

CarefulInv ==
  InvHeld /\ InvFresh /\ InvWorking /\ InvRoom /\ InvFed /\ CacheHoldsPast /\ InBounds

LEMMA Parts == IInv <=> CommonInv /\ CarefulInv
BY DEF IInv, CommonInv, CarefulInv

LEMMA Careless ==
  ASSUME rules # AllRules, rules' = rules
  PROVE  CarefulInv'
BY DEF CarefulInv, InvHeld, InvFresh, InvWorking, InvRoom, InvFed, CacheHoldsPast, InBounds

(* Parts that only read variables a call leaves alone. *)
LEMMA FrameMaps ==
  ASSUME OneOwner, MapsAgree, UNCHANGED <<meta, hub, sequenceCaches, freeCaches, allocated>>
  PROVE  OneOwner' /\ MapsAgree'
<1>1. OneOwner'
  BY DEF OneOwner, Exist
<1>2. MapsAgree'
  BY DEF MapsAgree, Exist
<1> QED
  BY <1>1, <1>2

LEMMA FrameLengths ==
  ASSUME InvLengths, UNCHANGED <<created, meta>>
  PROVE  InvLengths'
BY DEF InvLengths

LEMMA FrameSampled ==
  ASSUME InvSampled, LengthBounded, UNCHANGED <<rules, created, meta>>, pc' # "add"
  PROVE  InvSampled' /\ LengthBounded'
BY DEF InvSampled, LengthBounded, Sampled

LEMMA FrameHeld ==
  ASSUME InvHeld, UNCHANGED <<rules, held, sequenceCaches, pc, todo, ret>>, pc = "client"
  PROVE  InvHeld' /\ InvFresh'
<1>1. Cached' = Cached
  BY DEF Cached, Exist
<1> QED
  BY <1>1 DEF InvHeld, InvFresh

LEMMA FrameCache ==
  ASSUME TypeOK, InvRoom, InvFed, CacheHoldsPast, InBounds, UNCHANGED <<rules, hub, meta, sequenceCaches, cap, cells>>,
         fed' \subseteq fed, pc' # "add"
  PROVE  InvRoom' /\ InvFed' /\ CacheHoldsPast' /\ InBounds'
<1>1. InvRoom'
  BY DEF InvRoom, Sampled
<1>2. InvFed'
  BY DEF InvFed, Sampled
<1>3. CacheHoldsPast' /\ InBounds'
  BY DEF CacheHoldsPast, InBounds
<1> QED
  BY <1>1, <1>2, <1>3

-----------------------------------------------------------------------------
(* Every step keeps the invariant. *)
LEMMA StepSetInput ==
  ASSUME CommonInv, CarefulInv, NEW n \in 1 .. MaxBatch, NEW lens \in [1 .. n -> PromptLens],
         NEW maxLen \in MaxLens, SetInputPrompt(lens, maxLen) \/ SetInputConfig(lens, maxLen)
  PROVE  CommonInv' /\ CarefulInv'
<1> USE DEF CommonInv, CarefulInv
<1>1. UNCHANGED <<rules, created, meta, hub, sequenceCaches, freeCaches, allocated>> /\ workingGroup' = <<>>
  BY DEF SetInputPrompt, SetInputConfig, pool, caches
<1>2. TypeOK' /\ InvCounts'
  BY TypeSetInput
<1>3. OneOwner' /\ MapsAgree' /\ InvLengths'
  BY <1>1, FrameMaps, FrameLengths
<1>4. InvSampled' /\ LengthBounded'
  BY SampledSetInput
<1>5. CASE rules = AllRules
  <2>1. InvHeld' /\ InvFresh'
    BY <1>5, HeldSetInput
  <2>2. InvWorking'
    BY <1>1 DEF InvWorking, Elems
  <2>3. InvRoom' /\ InvFed' /\ CacheHoldsPast' /\ InBounds'
    BY <1>5, CacheSetInput
  <2> QED
    BY <1>2, <1>3, <1>4, <2>1, <2>2, <2>3
<1>6. CASE rules # AllRules
  BY <1>1, <1>2, <1>3, <1>4, <1>6, Careless
<1> QED
  BY <1>5, <1>6

LEMMA StepAddGroup ==
  ASSUME CommonInv, CarefulInv, AddGroup
  PROVE  CommonInv' /\ CarefulInv'
<1> USE DEF CommonInv, CarefulInv
<1>1. /\ TypeOK' /\ InvCounts' /\ OneOwner' /\ MapsAgree' /\ InvLengths' /\ InvSampled' /\ LengthBounded'
  BY TypeAddGroup, MapsAddGroup, LengthsAddGroup, SampledAddGroup
<1>2. CASE rules = AllRules
  BY <1>1, <1>2, HeldAddGroup, WorkingAddGroup, CacheAddGroup
<1>3. CASE rules # AllRules
  BY <1>1, <1>3, Careless DEF AddGroup
<1> QED
  BY <1>2, <1>3

LEMMA StepDecode ==
  ASSUME CommonInv, CarefulInv, NEW ids \in Batches(held \cap fed), SetInputDecode(ids)
  PROVE  CommonInv' /\ CarefulInv'
<1> USE DEF CommonInv, CarefulInv
<1>1. UNCHANGED <<rules, held, hub, sequenceCaches, freeCaches, allocated, pc, todo, ret>> /\ pc = "client"
  BY DEF SetInputDecode, caches
<1>2. TypeOK' /\ InvCounts' /\ InvLengths' /\ InvSampled' /\ LengthBounded' /\ MapsAgree' /\ InvWorking'
  BY TypeDecode, LengthsDecode, SampledDecode, WorkingDecode
<1>3. OneOwner'
  BY <1>1 DEF OneOwner, Exist
<1>4. CASE rules = AllRules
  BY <1>1, <1>2, <1>3, <1>4, FrameHeld, CacheDecode
<1>5. CASE rules # AllRules
  BY <1>1, <1>2, <1>3, <1>5, Careless
<1> QED
  BY <1>4, <1>5

LEMMA StepResume ==
  ASSUME CommonInv, CarefulInv, NEW ids \in Batches(held), SetInputResume(ids)
  PROVE  CommonInv' /\ CarefulInv'
<1> USE DEF CommonInv, CarefulInv
<1>1. /\ UNCHANGED <<rules, created, meta, held, hub, sequenceCaches, freeCaches, allocated, cap, cells, fed,
                     pc, todo, ret>>
      /\ pc = "client"
  BY DEF SetInputResume, pool, caches
<1>2. TypeOK' /\ InvCounts' /\ InvWorking'
  BY TypeResume, WorkingResume
<1>3. OneOwner' /\ MapsAgree' /\ InvLengths' /\ InvSampled' /\ LengthBounded'
  BY <1>1, FrameMaps, FrameLengths, FrameSampled
<1>4. InvHeld' /\ InvFresh'
  BY <1>1, FrameHeld
<1>5. InvRoom' /\ InvFed' /\ CacheHoldsPast' /\ InBounds'
  BY <1>1, FrameCache
<1> QED
  BY <1>2, <1>3, <1>4, <1>5

LEMMA StepForwardCall ==
  ASSUME CommonInv, CarefulInv, Forward
  PROVE  CommonInv' /\ CarefulInv'
<1> USE DEF CommonInv, CarefulInv
<1>1. /\ UNCHANGED <<rules, created, meta, held, hub, sequenceCaches, freeCaches, allocated, workingGroup,
                     pc, todo, ret>>
      /\ pc = "client"
  BY DEF Forward, Computable, pool, caches
<1>2. TypeOK' /\ InvCounts'
  BY TypeForward
<1>3. OneOwner' /\ MapsAgree' /\ InvLengths' /\ InvSampled' /\ LengthBounded'
  BY <1>1, FrameMaps, FrameLengths, FrameSampled
<1>4. InvHeld' /\ InvFresh'
  BY <1>1, FrameHeld
<1>5. InvWorking'
  BY <1>1 DEF InvWorking, IdOf
<1>6. CASE rules = AllRules
  BY <1>2, <1>3, <1>4, <1>5, <1>6, CacheForward
<1>7. CASE rules # AllRules
  BY <1>1, <1>2, <1>3, <1>7, Careless
<1> QED
  BY <1>6, <1>7

LEMMA StepGenerate ==
  ASSUME CommonInv, CarefulInv, NEW ended, Generate(ended)
  PROVE  CommonInv' /\ CarefulInv'
<1> USE DEF CommonInv, CarefulInv
<1>1. UNCHANGED <<rules, held, sequenceCaches, freeCaches, allocated, pc, todo, ret>> /\ pc = "client"
  BY DEF Generate, Computable, caches
<1>2. TypeOK' /\ InvCounts' /\ InvLengths' /\ InvSampled' /\ LengthBounded' /\ MapsAgree' /\ InvWorking'
  BY TypeGenerate, LengthsGenerate, SampledGenerate, WorkingGenerate
<1>3. OneOwner'
  BY <1>1 DEF OneOwner, Exist
<1>4. CASE rules = AllRules
  BY <1>1, <1>2, <1>3, <1>4, FrameHeld, CacheGenerate
<1>5. CASE rules # AllRules
  BY <1>1, <1>2, <1>3, <1>5, Careless
<1> QED
  BY <1>4, <1>5

LEMMA StepFreeSeqs ==
  ASSUME CommonInv, CarefulInv,
         (\E ids \in Batches(Freeable) : FreeSeqs(ids)) \/ Finalize
  PROVE  CommonInv' /\ CarefulInv'
<1> USE DEF CommonInv, CarefulInv
<1>1. /\ UNCHANGED <<rules, created, meta, hub, sequenceCaches, freeCaches, allocated, cap, cells, workingGroup>>
      /\ pc' # "add" /\ fed' \subseteq fed
  BY DEF FreeSeqs, Finalize, pool, caches
<1>2. TypeOK' /\ InvCounts'
  BY TypeFreeSeqs, TypeFinalize
<1>3. OneOwner' /\ MapsAgree' /\ InvLengths' /\ InvSampled' /\ LengthBounded'
  BY <1>1, FrameMaps, FrameLengths, FrameSampled
<1>4. InvWorking'
  BY <1>1 DEF InvWorking, IdOf
<1>5. InvRoom' /\ InvFed' /\ CacheHoldsPast' /\ InBounds'
  BY <1>1, FrameCache
<1>6. CASE rules = AllRules
  BY <1>2, <1>3, <1>4, <1>5, <1>6, HeldFreeSeqs, HeldFinalize
<1>7. CASE rules # AllRules
  BY <1>1, <1>2, <1>3, <1>7, Careless
<1> QED
  BY <1>6, <1>7

LEMMA StepFreeOne ==
  ASSUME CommonInv, CarefulInv, FreeOne \/ FinalizeOne
  PROVE  CommonInv' /\ CarefulInv'
<1> USE DEF CommonInv, CarefulInv
<1>1. UNCHANGED <<rules, created, meta, allocated>> /\ pc' # "add" /\ pc \in {"free", "finalize"}
  BY DEF FreeOne, FinalizeOne
<1>2. TypeOK' /\ InvCounts'
  BY TypeFreeOne, TypeFinalizeOne
<1>3. OneOwner' /\ MapsAgree'
  <2>1. Head(todo) \in ID
    BY <1>1, TailFacts DEF TypeOK
  <2>2. CASE UNCHANGED <<hub, sequenceCaches, freeCaches>>
    BY <1>1, <2>2, FrameMaps
  <2>3. CASE DelSequence(Head(todo)) /\ Remove(Head(todo))
    BY <1>1, <2>1, <2>3, MapsDelSequence
  <2> QED
    BY <2>2, <2>3 DEF FreeOne, FinalizeOne
<1>4. InvLengths' /\ InvSampled' /\ LengthBounded' /\ InvWorking'
  BY <1>1, FrameLengths, FrameSampled, WorkingFreeOne
<1>5. CASE rules = AllRules
  BY <1>2, <1>3, <1>4, <1>5, HeldFreeOne, HeldFinalizeOne, CacheFreeOne
<1>6. CASE rules # AllRules
  BY <1>1, <1>2, <1>3, <1>4, <1>6, Careless
<1> QED
  BY <1>5, <1>6

LEMMA Stuttering ==
  ASSUME CommonInv, CarefulInv, UNCHANGED vars
  PROVE  CommonInv' /\ CarefulInv'
<1> USE DEF CommonInv, CarefulInv, vars
<1>1. TypeOK' /\ InvCounts'
  BY DEF TypeOK, InvCounts
<1>2. OneOwner' /\ MapsAgree' /\ InvLengths'
  BY FrameMaps, FrameLengths
<1>3. InvSampled' /\ LengthBounded'
  BY DEF InvSampled, LengthBounded, Sampled
<1>4. InvHeld'
  BY DEF InvHeld, Cached, Exist
<1>5. InvFresh'
  BY DEF InvFresh, NextIDs, CreateSequenceID
<1>6. InvWorking' /\ InvRoom' /\ InvFed'
  BY DEF InvWorking, InvRoom, InvFed, IdOf, Sampled
<1>7. CacheHoldsPast' /\ InBounds'
  BY DEF CacheHoldsPast, InBounds
<1> QED
  BY <1>1, <1>2, <1>3, <1>4, <1>5, <1>6, <1>7

LEMMA Initially ==
  ASSUME Init
  PROVE  IInv
<1>1. 0 \in 0 .. MaxGroups /\ 0 \in 0 .. MaxID /\ 0 \in 0 .. MaxSeqLen /\ 1 .. 0 = {} /\ 0 \in ID
  BY BoundAssumption DEF ID
<1>2. TypeOK
  <2>1. NewMeta(0, 0, NoConfig) \in Meta
    BY <1>1 DEF NewMeta, Meta
  <2>2. Blank \in Cell
    BY DEF Blank, Cell
  <2>3. <<>> \in Seq(1 .. 0)
    OBVIOUS
  <2> QED
    BY <1>1, <2>1, <2>2, <2>3 DEF Init, TypeOK
<1>3. Elems(<<>>) = {} /\ DOMAIN <<>> = {}
  BY DEF Elems
<1>4. OneOwner /\ MapsAgree
  BY <1>1, <1>3 DEF Init, OneOwner, MapsAgree, Exist
<1>5. InvCounts /\ InvLengths /\ InvSampled /\ LengthBounded
  BY <1>1 DEF Init, InvCounts, InvLengths, InvSampled, LengthBounded
<1>6. InvHeld /\ InvFresh
  BY DEF Init, InvHeld, InvFresh, Cached, Exist
<1>7. InvWorking /\ InvRoom /\ InvFed /\ CacheHoldsPast
  BY <1>3 DEF Init, InvWorking, InvRoom, InvFed, CacheHoldsPast
<1>8. InBounds
  BY DEF Init, InBounds
<1> QED
  BY <1>2, <1>4, <1>5, <1>6, <1>7, <1>8 DEF IInv

LEMMA Inductive ==
  ASSUME IInv, [Next]_vars
  PROVE  IInv'
<1>1. CommonInv /\ CarefulInv
  BY Parts
<1>2. CommonInv' /\ CarefulInv'
  BY <1>1, StepSetInput, StepAddGroup, StepDecode, StepResume, StepForwardCall, StepGenerate,
     StepFreeSeqs, StepFreeOne, Stuttering DEF Next
<1> QED
  BY <1>2 DEF IInv, CommonInv, CarefulInv

(* The inductive invariant holds of every run of every client, for every   *)
(* value of the constants.                                                 *)
THEOREM Invariance == Spec => []IInv
<1>1. Init => IInv
  BY Initially
<1>2. IInv /\ [Next]_vars => IInv'
  BY Inductive
<1> QED
  BY <1>1, <1>2, PTL DEF Spec

(* The types of the three singletons, of Model and of the client: among    *)
(* them that the ID counter stays within its bound, that no cache is       *)
(* larger than maxSeqLen, and that every ID a loop works on is one.        *)
THEOREM TypeCorrect == Spec => []TypeOK
BY Invariance, PTL DEF IInv

(* addSequence, delSequence and finalize never give a cache two owners and *)
(* lose none, whatever the client does.                                    *)
THEOREM CachesHaveOneOwner == Spec => []OneOwner
BY Invariance, PTL DEF IInv

(* SequencePool and KVCacheMgr never disagree, whatever the client does.   *)
THEOREM MapsAlwaysAgree == Spec => []MapsAgree
BY Invariance, PTL DEF IInv

(* stopCheck and stepForward: a sequence that is not computed again once   *)
(* it is done keeps to its maxLen.                                         *)
THEOREM LengthsBounded == Spec => []LengthBounded
BY Invariance, PTL DEF IInv

(* A client that keeps the rules holds exactly the sequences with a cache. *)
THEOREM HeldAreCached == Spec => []SequencesHeld
<1>1. IInv => SequencesHeld
  BY DEF IInv, InvHeld, SequencesHeld, Cached
<1> QED
  BY <1>1, Invariance, PTL

(* What attention reads is the sequence's own past, across the reuse of    *)
(* IDs, groups and caches.                                                 *)
THEOREM PastIsOwn == Spec => []CacheHoldsPast
BY Invariance, PTL DEF IInv

(* copyKVCache stays within the positions that a cache was sized for.      *)
THEOREM StoresInBounds == Spec => []InBounds
BY Invariance, PTL DEF IInv

-----------------------------------------------------------------------------
(* Calls leave the sequences outside their batch alone. *)
LEMMA OthersKept ==
  ASSUME CommonInv, CarefulInv, [Next]_vars, rules = AllRules, NEW id \in ID,
         hub[id] # None, hub'[id] = hub[id], hub[id] \notin Elems(workingGroup)
  PROVE  /\ sequenceCaches'[id] = sequenceCaches[id]
         /\ cells'[sequenceCaches[id]] = cells[sequenceCaches[id]]
<1> USE DEF CommonInv, CarefulInv
<1>1. CASE UNCHANGED <<sequenceCaches, cells>>
  BY <1>1
<1>2. CASE AddGroup
  <2>1. PICK new \in ID, c \in Cache :
           /\ \A k \in ID : hub[k] # None =>
                /\ sequenceCaches'[k] = sequenceCaches[k] /\ sequenceCaches[k] \in Cache
                /\ sequenceCaches[k] # c
           /\ \A d \in Cache \ {c} : cells'[d] = cells[d]
    BY <1>2, AddGroupNew
  <2> QED
    BY <2>1
<1>3. CASE Computable /\ DecoderForward /\ UNCHANGED caches
  <2> DEFINE c == sequenceCaches[id]
  <2>1. c \in Cache
    BY HubFacts
  <2>2. cells' \in [Cache -> [Pos -> Cell]] /\ cells \in [Cache -> [Pos -> Cell]]
    BY <1>3, CopyType DEF DecoderForward, TypeOK
  <2>3. \A p \in Pos : cells'[c][p] = cells[c][p]
    BY <1>3, ComputedCells
  <2> HIDE DEF c
  <2>4. cells'[c] = cells[c]
    BY <2>1, <2>2, <2>3
  <2> QED
    BY <1>3, <2>4 DEF caches, c
<1>4. CASE FreeOne \/ FinalizeOne
  <2>1. todo \in Seq(ID) /\ todo # <<>> /\ cells' = cells
    BY <1>4 DEF FreeOne, FinalizeOne, TypeOK
  <2>2. Head(todo) \in ID
    BY <2>1, TailFacts
  <2>3. UNCHANGED sequenceCaches \/ (Remove(Head(todo)) /\ DelSequence(Head(todo)))
    BY <1>4 DEF FreeOne, FinalizeOne
  <2> QED
    BY <2>1, <2>2, <2>3 DEF Remove, DelSequence, TypeOK
<1>5. UNCHANGED <<sequenceCaches, cells>> \/ AddGroup \/ (Computable /\ DecoderForward /\ UNCHANGED caches)
        \/ FreeOne \/ FinalizeOne
  BY DEF Next, vars, caches, SetInputPrompt, SetInputConfig, SetInputDecode, SetInputResume, Forward,
         Generate, FreeSeqs, Finalize
<1> QED
  BY <1>1, <1>2, <1>3, <1>4, <1>5

(* Forward and generate store into the caches of their batch only, and no  *)
(* other call touches the cells of a sequence that stays in the pool.      *)
THEOREM OthersAreUntouched == Spec => OthersUntouched
<1>1. IInv /\ [Next]_vars =>
        [rules = AllRules => \A id \in ID :
           hub[id] # None /\ hub'[id] = hub[id] /\ hub[id] \notin Elems(workingGroup) =>
             /\ sequenceCaches'[id] = sequenceCaches[id]
             /\ cells'[sequenceCaches[id]] = cells[sequenceCaches[id]]]_vars
  BY OthersKept, Parts
<1> QED
  BY <1>1, Invariance, PTL DEF Spec, OthersUntouched
=============================================================================
