------------------------ MODULE ShmReduction_proofs ------------------------
(***************************************************************************)
(* Proofs about ShmReduction, for every number of ranks, calls and blocks, *)
(* and for every division of the blocks among the threads of a rank.       *)
(***************************************************************************)
EXTENDS ShmReduction, SequenceTheorems, TLAPS

-----------------------------------------------------------------------------
(* What the partial sums are made of. *)

LEMMA SumType ==
  ASSUME NEW k \in Calls, NEW r \in Rank
  PROVE  SumUpTo(k, r) \in Sums
<1> DEFINE C == [rank : Rank, call : Calls]
<1>1. \A i \in 1 .. r+1 : Contribution(i-1, k) \in C
  BY NAssumption DEF Contribution, Rank
<1>2. SumUpTo(k, r) \in [1 .. r+1 -> C]
  BY <1>1 DEF SumUpTo
<1>3. r+1 \in Nat
  BY NAssumption DEF Rank
<1>4. SumUpTo(k, r) \in UNION {[1 .. n -> C] : n \in Nat}
  BY <1>2, <1>3
<1> HIDE DEF C
<1>5. SumUpTo(k, r) \in Seq(C)
  BY <1>4, SeqDef
<1> QED BY <1>5 DEF Sums, C

(* Adding the contribution of the next rank gives the next partial sum. *)
LEMMA SumStep ==
  ASSUME NEW k \in Calls, NEW r \in Rank, r # 0
  PROVE  Append(SumUpTo(k, r-1), Contribution(r, k)) = SumUpTo(k, r)
<1> DEFINE C == [rank : Rank, call : Calls]
<1>1. r-1 \in Rank /\ r \in Nat /\ r - 1 \in Nat
  BY NAssumption DEF Rank
<1>2. SumUpTo(k, r-1) \in Seq(C) /\ SumUpTo(k, r) \in Seq(C)
  BY <1>1, SumType DEF Sums
<1>3. Len(SumUpTo(k, r-1)) = r /\ DOMAIN SumUpTo(k, r) = 1 .. r+1
  BY <1>1, <1>2 DEF SumUpTo
<1>4. Contribution(r, k) \in C
  BY DEF Contribution
<1>5. \A i \in 1 .. r : SumUpTo(k, r)[i] = SumUpTo(k, r-1)[i]
  BY <1>1 DEF SumUpTo
<1>6. SumUpTo(k, r)[r+1] = Contribution(r, k)
  BY <1>1 DEF SumUpTo
<1>7. /\ Append(SumUpTo(k, r-1), Contribution(r, k)) \in Seq(C)
      /\ Len(Append(SumUpTo(k, r-1), Contribution(r, k))) = r+1
      /\ \A i \in 1 .. r : Append(SumUpTo(k, r-1), Contribution(r, k))[i] = SumUpTo(k, r-1)[i]
      /\ Append(SumUpTo(k, r-1), Contribution(r, k))[r+1] = Contribution(r, k)
  BY <1>1, <1>2, <1>3, <1>4
<1>8. Len(SumUpTo(k, r)) = r+1
  BY <1>1, <1>2, <1>3
<1>9. \A i \in 1 .. r+1 : Append(SumUpTo(k, r-1), Contribution(r, k))[i] = SumUpTo(k, r)[i]
  BY <1>1, <1>5, <1>6, <1>7
<1> HIDE DEF C
<1> QED BY <1>2, <1>7, <1>8, <1>9, SeqEqual

LEMMA SumsClosed ==
  /\ <<>> \in Sums
  /\ \A s \in Sums : \A r \in Rank : \A k \in Calls : Append(s, Contribution(r, k)) \in Sums
<1>1. \A r \in Rank : \A k \in Calls : Contribution(r, k) \in [rank : Rank, call : Calls]
  BY DEF Contribution
<1> DEFINE C == [rank : Rank, call : Calls]
<1>2. \A r \in Rank : \A k \in Calls : Contribution(r, k) \in C
  BY <1>1
<1> HIDE DEF C
<1>3. <<>> \in Seq(C) /\ \A s \in Seq(C) : \A e \in C : Append(s, e) \in Seq(C)
  OBVIOUS
<1> QED BY <1>2, <1>3 DEF C, Sums

LEMMA RankFacts ==
  /\ Rank \subseteq Nat /\ Last \in Rank /\ 0 \in Rank
  /\ Last \in Nat /\ Last >= 1 /\ Last # 0 /\ Last = N - 1 /\ N \in Nat
  /\ \A r \in Rank : r \in Nat /\ 0 <= r /\ r <= Last
  /\ \A r \in Int : 0 <= r /\ r <= Last => r \in Rank
BY NAssumption DEF Rank, Last

LEMMA SizeFacts ==
  /\ MaxCalls \in Nat /\ MaxBlocks \in Nat
  /\ InitBlocks \in 1 .. MaxBlocks
  /\ Block \subseteq Nat /\ 0 \in Block
  /\ \A k \in Calls : BlocksOf[k] \in 1 .. MaxBlocks /\ Active(k) \subseteq Block /\ 0 \in Active(k)
BY SizeAssumption DEF Block, Active, Calls

-----------------------------------------------------------------------------
(* Type correctness. *)

LEMMA TypeInit == Init => TypeOK
BY RankFacts, SizeFacts, SumsClosed DEF Init, TypeOK, PC

LEMMA TypeStep ==
  TypeOK /\ [Next]_vars => TypeOK'
<1> SUFFICES ASSUME TypeOK, [Next]_vars PROVE TypeOK'
  OBVIOUS
<1> USE RankFacts, SizeFacts
<1>1. ASSUME NEW r \in Rank, Call(r) PROVE TypeOK'
  BY <1>1 DEF TypeOK, PC, Call, Entry, Calls
<1>2. ASSUME NEW r \in Rank, Resize(r) PROVE TypeOK'
  BY <1>2 DEF TypeOK, PC, Resize, Calls
<1>3. ASSUME NEW r \in Rank, Clear(r) PROVE TypeOK'
  <2>1. address' \in [Block -> Sums]
    BY <1>3, SumsClosed DEF Clear
  <2>2. state' \in [Rank -> 0 .. 3] /\ blockState' \in [Block -> [Rank -> 0 .. 1]]
    BY <1>3 DEF Clear, TypeOK
  <2> QED BY <1>3, <2>1, <2>2 DEF TypeOK, PC, Clear
<1>4. ASSUME NEW r \in Rank, WaitZero(r) PROVE TypeOK'
  BY <1>4 DEF TypeOK, PC, WaitZero
<1>5. ASSUME NEW r \in Rank, ArriveRoot(r) PROVE TypeOK'
  BY <1>5 DEF TypeOK, PC, ArriveRoot
<1>6. ASSUME NEW r \in Rank, WaitOwn(r) PROVE TypeOK'
  BY <1>6 DEF TypeOK, PC, WaitOwn
<1>7. ASSUME NEW r \in Rank, WaitRoot(r) PROVE TypeOK'
  BY <1>7 DEF TypeOK, PC, WaitRoot
<1>8. ASSUME NEW r \in Rank, Arrive(r) PROVE TypeOK'
  BY <1>8 DEF TypeOK, PC, Arrive
<1>9. ASSUME NEW r \in Rank, Added(r) PROVE TypeOK'
  BY <1>9 DEF TypeOK, PC, Added
<1>10. ASSUME NEW r \in Rank, WaitLast(r) PROVE TypeOK'
  BY <1>10 DEF TypeOK, PC, WaitLast
<1>11. ASSUME NEW r \in Rank, Leave(r) PROVE TypeOK'
  BY <1>11 DEF TypeOK, PC, Leave
<1>12. ASSUME NEW r \in Rank, StartWaitLeft(r) PROVE TypeOK'
  BY <1>12 DEF TypeOK, PC, StartWaitLeft
<1>13. ASSUME NEW r \in Rank, WaitLeft(r) PROVE TypeOK'
  BY <1>13 DEF TypeOK, PC, WaitLeft
<1>14. ASSUME NEW r \in Rank, Reset(r) PROVE TypeOK'
  BY <1>14 DEF TypeOK, PC, Reset
<1>15. ASSUME NEW r \in Rank, NEW b \in Block, CopyIn(r, b) PROVE TypeOK'
  BY <1>15, SumType DEF TypeOK, PC, CopyIn, Calls
<1>16. ASSUME NEW r \in Rank, NEW b \in Block, CopyOut(r, b) PROVE TypeOK'
  BY <1>16 DEF TypeOK, PC, CopyOut
<1>17. ASSUME NEW r \in Rank, NEW b \in Block, BlockWait(r, b) PROVE TypeOK'
  BY <1>17 DEF TypeOK, PC, BlockWait
<1>18. ASSUME NEW r \in Rank, NEW b \in Block, BlockLoad(r, b) PROVE TypeOK'
  BY <1>18 DEF TypeOK, PC, BlockLoad
<1>19. ASSUME NEW r \in Rank, NEW b \in Block, BlockStore(r, b) PROVE TypeOK'
  <2>1. call[r] \in Calls /\ reg[r][b] \in Sums
    BY <1>19 DEF TypeOK, BlockStore, Calls
  <2>2. Append(reg[r][b], Contribution(r, call[r])) \in Sums
    BY <2>1, SumsClosed
  <2>3. address' \in [Block -> Sums]
    BY <1>19, <2>2 DEF TypeOK, BlockStore
  <2>4. bstep' \in [Rank -> [Block -> 0 .. 5]]
    <3>1. bstep' = [bstep EXCEPT ![r][b] = 3]
      BY <1>19 DEF BlockStore
    <3> QED BY <3>1 DEF TypeOK
  <2> QED BY <1>19, <2>3, <2>4 DEF TypeOK, PC, BlockStore
<1>20. ASSUME NEW r \in Rank, NEW b \in Block, BlockClear(r, b) PROVE TypeOK'
  BY <1>20 DEF TypeOK, PC, BlockClear
<1>21. ASSUME NEW r \in Rank, NEW b \in Block, BlockSet(r, b) PROVE TypeOK'
  BY <1>21 DEF TypeOK, PC, BlockSet
<1>22. CASE UNCHANGED vars
  BY <1>22 DEF TypeOK, vars
<1> QED BY <1>1, <1>2, <1>3, <1>4, <1>5, <1>6, <1>7, <1>8, <1>9, <1>10, <1>11, <1>12, <1>13, <1>14, <1>15, <1>16, <1>17, <1>18, <1>19, <1>20, <1>21, <1>22 DEF Next, RankStep, BlockStep

(* The type invariant: among others, no rank's spin index leaves the state *)
(* words, and each program point is only reached by the ranks it is for.   *)
THEOREM TypeCorrect == Spec => []TypeOK
<1> QED BY TypeInit, TypeStep, PTL DEF Spec

-----------------------------------------------------------------------------
(* Facts that every step of the invariance proof uses, and, for each part  *)
(* of the invariant, what a step must leave alone to keep it.              *)

LEMMA CompletedFacts ==
  ASSUME TypeOK
  PROVE  /\ \A r \in Rank : /\ Completed(r) \in 0 .. MaxCalls
                            /\ pc[r] = "idle" => Completed(r) = call[r]
                            /\ pc[r] # "idle" => Completed(r) = call[r] - 1 /\ call[r] \in Calls
         /\ Round \in 0 .. MaxCalls
         /\ ~Left(Last)
BY RankFacts, SizeFacts DEF TypeOK, Completed, Round, Left, Calls

LEMMA CapFacts ==
  ASSUME TypeOK
  PROVE  \A b \in 0 .. cap[0]-1 : b \in Block
BY RankFacts, SizeFacts DEF TypeOK, Block

LEMMA ProgType ==
  ASSUME TypeOK, NEW r \in Rank, NEW b \in Block
  PROVE  Prog(r, b) \in 0 .. 5
BY DEF TypeOK, Prog

(* The step ends no call. *)
SameCalls == \A q \in Rank : Completed(q)' = Completed(q)
(* The step does not end the round. *)
SameRound == Round' = Round
(* It does not advance any rank on any block of the round. *)
SameProg == \A q \in Rank \ {0}, b \in Block : InRound(b) => Prog(q, b)' = Prog(q, b)

LEMMA SameCallsFacts ==
  ASSUME SameCalls
  PROVE  SameRound /\ \A q \in Rank : Left(q)' <=> Left(q)
BY RankFacts DEF SameCalls, SameRound, Round, Left

LEMMA SameInRound ==
  ASSUME SameRound, NEW b
  PROVE  InRound(b)' <=> InRound(b)
BY DEF SameRound, InRound

LEMMA FrameRounds ==
  ASSUME InvRounds, SameCalls
  PROVE  InvRounds'
BY SameCallsFacts DEF InvRounds, SameCalls, SameRound

LEMMA FrameChain ==
  ASSUME InvChain, SameRound, SameProg
  PROVE  InvChain'
<1>1. \A r \in Rank : \A q \in 1 .. r-1 : q \in Rank \ {0} /\ r # 0
  BY RankFacts
<1> QED BY <1>1, SameInRound DEF InvChain, SameProg

LEMMA FrameFlags ==
  ASSUME TypeOK, InvFlags, SameRound, SameProg,
         blockState' = blockState, cap'[0] = cap[0], pc[0] = "clear" => pc'[0] = "clear"
  PROVE  InvFlags'
<1>1. \A b \in 0 .. cap[0]-1 : b \in Block
  BY CapFacts
<1>2. \A r \in 1 .. Last-1 : r \in Rank \ {0} /\ r+1 \in Rank \ {0}
  BY RankFacts
<1> QED BY <1>1, <1>2, SameInRound DEF InvFlags, SameProg

LEMMA FrameCap ==
  ASSUME InvCap, SameCalls, cap'[0] = cap[0], pc'[0] = pc[0], call'[0] = call[0]
  PROVE  InvCap'
BY RankFacts DEF InvCap, SameCalls

LEMMA FrameData ==
  ASSUME TypeOK, InvData, SameRound, SameProg, RootArrived' <=> RootArrived,
         address' = address, pc'[0] = "copyIn" <=> pc[0] = "copyIn", copied'[0] = copied[0]
  PROVE  InvData'
<1>1. \A r \in Rank : r < Last => r+1 \in Rank
  BY RankFacts
<1>2. \A r \in Rank, b \in Block : InRound(b) => (Stored(r, b)' <=> Stored(r, b))
  BY DEF Stored, SameProg
<1> QED BY <1>1, <1>2, SameInRound DEF InvData, SameRound

LEMMA FrameReg ==
  ASSUME InvReg, SameRound, reg' = reg, bstep' = bstep,
         \A r \in Rank : pc'[r] = "add" => pc[r] = "add"
  PROVE  InvReg'
BY SameInRound DEF InvReg, SameRound

(* What a spinning rank learns from a state word. *)
LEMMA WordFacts ==
  ASSUME TypeOK, InvWords
  PROVE  /\ \A r \in Rank : state[r] = 3 => Left(r)
         /\ state[Last] = 2 => pc[Last] \in PastAdd
         /\ state[0] = 1 => ~Left(0) /\ pc[0] \in {"waitLast", "copyOut"} /\ RootArrived
<1> USE RankFacts
<1>1. \A r \in Rank : state[r] = 3 => Left(r)
  BY DEF InvWords, WordAt
<1>2. state[Last] = 2 => pc[Last] \in PastAdd
  BY CompletedFacts DEF InvWords, WordAt
<1>3. state[0] = 1 => ~Left(0)
  BY DEF InvWords
<1>4. state[0] = 1 => pc[0] \in PastAdd
  BY <1>3 DEF InvWords, WordAt, TypeOK
<1> QED BY <1>1, <1>2, <1>3, <1>4 DEF TypeOK, PastAdd, RootArrived

(* A rank inside a call it has not left works on the buffer of the round. *)
LEMMA RoundCall ==
  ASSUME TypeOK, InvRounds, NEW r \in Rank, ~Left(r), pc[r] # "idle"
  PROVE  /\ call[r] = Round + 1 /\ call[r] \in Calls
         /\ \A b \in Block : InRound(b) <=> b \in Active(call[r])
<1> USE RankFacts, SizeFacts
<1>1. call[r] \in Calls /\ call[r] \in Nat
  BY CompletedFacts DEF TypeOK
<1>2. call[r] = Round + 1
  BY <1>1, CompletedFacts DEF InvRounds, Left
<1>3. Round < MaxCalls /\ BlocksOf[call[r]] \in Nat
  BY <1>1, <1>2, CompletedFacts DEF Calls
<1> QED BY <1>1, <1>2, <1>3 DEF InRound, Active

(* Once rank 0 has arrived, its mapping holds the buffer of the round. *)
LEMMA RootCap ==
  ASSUME TypeOK, InvRounds, InvLeft, InvCap, RootArrived
  PROVE  pc[0] # "clear" /\ \A b \in Block : InRound(b) => b \in 0 .. cap[0]-1
<1> USE RankFacts, SizeFacts
<1>1. pc[0] # "clear"
  BY DEF RootArrived, InvLeft
<1>2. Round < MaxCalls => Round + 1 \in Calls /\ BlocksOf[Round + 1] \in Nat /\ cap[0] \in Nat
  BY CompletedFacts DEF Calls, TypeOK
<1>3. Round < MaxCalls => BlocksOf[Round + 1] <= cap[0]
  <2>1. CASE Left(0)
    BY <1>2, <2>1, CompletedFacts DEF Left, InvCap
  <2>2. CASE ~Left(0)
    <3>1. pc[0] \in {"waitLast", "copyOut"}
      BY <2>2 DEF RootArrived
    <3>2. call[0] = Round + 1
      BY <2>2, <3>1, RoundCall
    <3> QED BY <3>1, <3>2 DEF InvCap
  <2> QED BY <2>1, <2>2
<1> QED BY <1>1, <1>2, <1>3 DEF InRound

-----------------------------------------------------------------------------
(* One lemma per action. *)

(* A rank that has left and sees its word at 0 sees the reset. *)
LEMMA StepWaitOwn ==
  ASSUME IInv, TypeOK', NEW r \in Rank, WaitOwn(r)
  PROVE  IInv'
<1> USE RankFacts, SizeFacts
<1> USE DEF IInv
<1>1. SameCalls
  BY DEF WaitOwn, SameCalls, Completed, TypeOK
<1>2. SameRound /\ \A q \in Rank : Left(q)' <=> Left(q)
  BY <1>1, SameCallsFacts
<1>3. SameProg
  BY <1>2 DEF WaitOwn, SameProg, Prog, PastAdd, TypeOK
<1>4. RootArrived' <=> RootArrived
  BY <1>2, CompletedFacts DEF WaitOwn, RootArrived, TypeOK
<1>5. InvRounds'
  BY <1>1, FrameRounds
<1>6. InvWords'
  BY <1>2 DEF WaitOwn, InvWords, WordAt, PastAdd, TypeOK
<1>7. InvLeft'
  BY <1>2 DEF WaitOwn, InvLeft, InvWords, WordAt, PastAdd, TypeOK
<1>8. InvGate'
  BY <1>2, <1>4 DEF WaitOwn, InvGate, TypeOK
<1>9. InvCollect'
  BY <1>2 DEF WaitOwn, InvCollect, TypeOK
<1>10. InvChain'
  BY <1>2, <1>3, FrameChain
<1>11. InvFlags'
  BY <1>2, <1>3, FrameFlags DEF WaitOwn, TypeOK
<1>12. InvCap'
  BY <1>1, FrameCap DEF WaitOwn, TypeOK
<1>13. InvData'
  BY <1>2, <1>3, <1>4, FrameData DEF WaitOwn, TypeOK
<1>14. InvReg'
  BY <1>2, FrameReg DEF WaitOwn, TypeOK
<1>15. InvOut'
  BY <1>2 DEF WaitOwn, InvOut, PastAdd, TypeOK
<1>16. ReductionCorrect'
  BY DEF WaitOwn, ReductionCorrect, TypeOK
<1> QED BY <1>5, <1>6, <1>7, <1>8, <1>9, <1>10, <1>11, <1>12, <1>13, <1>14, <1>15, <1>16

(* The word of rank 0 is 1 only between its arrival and its leaving. *)
LEMMA StepWaitRoot ==
  ASSUME IInv, TypeOK', NEW r \in Rank, WaitRoot(r)
  PROVE  IInv'
<1> USE RankFacts, SizeFacts
<1> USE DEF IInv
<1>1. SameCalls
  BY DEF WaitRoot, SameCalls, Completed, TypeOK
<1>2. SameRound /\ \A q \in Rank : Left(q)' <=> Left(q)
  BY <1>1, SameCallsFacts
<1>3. SameProg
  BY <1>2 DEF WaitRoot, SameProg, Prog, PastAdd, TypeOK
<1>4. RootArrived' <=> RootArrived
  BY <1>2, CompletedFacts DEF WaitRoot, RootArrived, TypeOK
<1>5. InvRounds'
  BY <1>1, FrameRounds
<1>6. InvWords'
  BY <1>2 DEF WaitRoot, InvWords, WordAt, PastAdd, TypeOK
<1>7. InvLeft'
  <2>1. ~Left(r)
    BY WordFacts DEF WaitRoot, InvLeft, InvCollect
  <2> QED BY <1>2, <2>1 DEF WaitRoot, InvLeft, PastAdd, TypeOK
<1>8. InvGate'
  BY <1>2, <1>4, WordFacts DEF WaitRoot, InvGate
<1>9. InvCollect'
  BY <1>2 DEF WaitRoot, InvCollect, TypeOK
<1>10. InvChain'
  BY <1>2, <1>3, FrameChain
<1>11. InvFlags'
  BY <1>2, <1>3, FrameFlags DEF WaitRoot, TypeOK
<1>12. InvCap'
  BY <1>1, FrameCap DEF WaitRoot, TypeOK
<1>13. InvData'
  BY <1>2, <1>3, <1>4, FrameData DEF WaitRoot, TypeOK
<1>14. InvReg'
  BY <1>2, FrameReg DEF WaitRoot, TypeOK
<1>15. InvOut'
  BY <1>2 DEF WaitRoot, InvOut, PastAdd, TypeOK
<1>16. ReductionCorrect'
  BY DEF WaitRoot, ReductionCorrect, TypeOK
<1> QED BY <1>5, <1>6, <1>7, <1>8, <1>9, <1>10, <1>11, <1>12, <1>13, <1>14, <1>15, <1>16

(* The word of the last rank is 2 only when it has added every block. *)
LEMMA StepWaitLast ==
  ASSUME IInv, TypeOK', NEW r \in Rank, WaitLast(r)
  PROVE  IInv'
<1> USE RankFacts, SizeFacts
<1> USE DEF IInv
<1>1. SameCalls
  BY DEF WaitLast, SameCalls, Completed, TypeOK
<1>2. SameRound /\ \A q \in Rank : Left(q)' <=> Left(q)
  BY <1>1, SameCallsFacts
<1>3. SameProg
  BY <1>2 DEF WaitLast, SameProg, Prog, PastAdd, TypeOK
<1>4. RootArrived' <=> RootArrived
  BY <1>2, CompletedFacts DEF WaitLast, RootArrived, TypeOK
<1>5. InvRounds'
  BY <1>1, FrameRounds
<1>6. InvWords'
  BY <1>2 DEF WaitLast, InvWords, WordAt, PastAdd, TypeOK
<1>7. InvLeft'
  BY <1>2 DEF WaitLast, InvLeft, PastAdd, TypeOK
<1>8. InvGate'
  BY <1>2, <1>4 DEF WaitLast, InvGate, TypeOK
<1>9. InvCollect'
  BY <1>2 DEF WaitLast, InvCollect, TypeOK
<1>10. InvChain'
  BY <1>2, <1>3, FrameChain
<1>11. InvFlags'
  BY <1>2, <1>3, FrameFlags DEF WaitLast, TypeOK
<1>12. InvCap'
  BY <1>1 DEF WaitLast, InvCap, SameCalls, TypeOK
<1>13. InvData'
  BY <1>2, <1>3, <1>4, FrameData DEF WaitLast, TypeOK
<1>14. InvReg'
  BY <1>2, FrameReg DEF WaitLast, TypeOK
<1>15. InvOut'
  BY <1>2, WordFacts DEF WaitLast, InvOut, PastAdd, TypeOK
<1>16. ReductionCorrect'
  BY DEF WaitLast, ReductionCorrect, TypeOK
<1> QED BY <1>5, <1>6, <1>7, <1>8, <1>9, <1>10, <1>11, <1>12, <1>13, <1>14, <1>15, <1>16

(* Rank 0 cannot pass the last word before the last rank has returned. *)
LEMMA StepWaitZero ==
  ASSUME IInv, TypeOK', NEW r \in Rank, WaitZero(r)
  PROVE  IInv'
<1> USE RankFacts, SizeFacts
<1> USE DEF IInv
<1>1. SameCalls
  BY DEF WaitZero, SameCalls, Completed, TypeOK
<1>2. SameRound /\ \A q \in Rank : Left(q)' <=> Left(q)
  BY <1>1, SameCallsFacts
<1>3. SameProg
  BY <1>2 DEF WaitZero, SameProg, Prog, PastAdd, TypeOK
<1>4. RootArrived' <=> RootArrived
  BY <1>2, CompletedFacts DEF WaitZero, RootArrived, TypeOK
<1>5. InvRounds'
  BY <1>1, FrameRounds
<1>6. InvWords'
  BY <1>2 DEF WaitZero, InvWords, WordAt, PastAdd, TypeOK
<1>7. InvLeft'
  BY <1>2, CompletedFacts DEF WaitZero, InvLeft, InvWords, WordAt, PastAdd, TypeOK
<1>8. InvGate'
  BY <1>2, <1>4 DEF WaitZero, InvGate, TypeOK
<1>9. InvCollect'
  BY <1>2 DEF WaitZero, InvCollect, TypeOK
<1>10. InvChain'
  BY <1>2, <1>3, FrameChain
<1>11. InvFlags'
  BY <1>2, <1>3, FrameFlags DEF WaitZero, TypeOK
<1>12. InvCap'
  BY <1>1 DEF WaitZero, InvCap, SameCalls, TypeOK
<1>13. InvData'
  <2>1. pc[0] # "copyIn" /\ copied[0] = {}
    BY DEF WaitZero, InvOut, TypeOK
  <2>2. \A q \in Rank, b \in Block : InRound(b) => (Stored(q, b)' <=> Stored(q, b))
    BY <1>3, <1>4, <2>1 DEF WaitZero, Stored, SameProg, TypeOK
  <2>3. \A q \in Rank : q < Last => q+1 \in Rank
    OBVIOUS
  <2> QED BY <1>2, <2>2, <2>3, SameInRound DEF WaitZero, InvData, SameRound
<1>14. InvReg'
  BY <1>2, FrameReg DEF WaitZero, TypeOK
<1>15. InvOut'
  BY <1>2 DEF WaitZero, InvOut, PastAdd, TypeOK
<1>16. ReductionCorrect'
  BY DEF WaitZero, ReductionCorrect, TypeOK
<1> QED BY <1>5, <1>6, <1>7, <1>8, <1>9, <1>10, <1>11, <1>12, <1>13, <1>14, <1>15, <1>16

(* The last rank has copied every block out. *)
LEMMA StepStartWaitLeft ==
  ASSUME IInv, TypeOK', NEW r \in Rank, StartWaitLeft(r)
  PROVE  IInv'
<1> USE RankFacts, SizeFacts
<1> USE DEF IInv
<1>1. SameCalls
  BY DEF StartWaitLeft, SameCalls, Completed, TypeOK
<1>2. SameRound /\ \A q \in Rank : Left(q)' <=> Left(q)
  BY <1>1, SameCallsFacts
<1>3. SameProg
  BY <1>2 DEF StartWaitLeft, SameProg, Prog, PastAdd, TypeOK
<1>4. RootArrived' <=> RootArrived
  BY <1>2, CompletedFacts DEF StartWaitLeft, RootArrived, TypeOK
<1>5. InvRounds'
  BY <1>1, FrameRounds
<1>6. InvWords'
  BY <1>2 DEF StartWaitLeft, InvWords, WordAt, PastAdd, TypeOK
<1>7. InvLeft'
  BY <1>2 DEF StartWaitLeft, InvLeft, PastAdd, TypeOK
<1>8. InvGate'
  BY <1>2, <1>4 DEF StartWaitLeft, InvGate, TypeOK
<1>9. InvCollect'
  BY <1>2 DEF StartWaitLeft, InvCollect, TypeOK
<1>10. InvChain'
  BY <1>2, <1>3, FrameChain
<1>11. InvFlags'
  BY <1>2, <1>3, FrameFlags DEF StartWaitLeft, TypeOK
<1>12. InvCap'
  BY <1>1, FrameCap DEF StartWaitLeft, TypeOK
<1>13. InvData'
  BY <1>2, <1>3, <1>4, FrameData DEF StartWaitLeft, TypeOK
<1>14. InvReg'
  BY <1>2, FrameReg DEF StartWaitLeft, TypeOK
<1>15. InvOut'
  <2>1. copied'[r] = {}
    BY DEF StartWaitLeft, TypeOK
  <2>2. \A c \in Active(call[r]) : recv[r][c] = SumUpTo(call[r], Last)
    BY DEF StartWaitLeft, InvOut
  <2> QED BY <2>1, <2>2 DEF StartWaitLeft, InvOut, PastAdd, TypeOK
<1>16. ReductionCorrect'
  BY DEF StartWaitLeft, ReductionCorrect, TypeOK
<1> QED BY <1>5, <1>6, <1>7, <1>8, <1>9, <1>10, <1>11, <1>12, <1>13, <1>14, <1>15, <1>16

(* A word is 3 only when its rank has left. *)
LEMMA StepWaitLeft ==
  ASSUME IInv, TypeOK', NEW r \in Rank, WaitLeft(r)
  PROVE  IInv'
<1> USE RankFacts, SizeFacts
<1> USE DEF IInv
<1>1. SameCalls
  BY DEF WaitLeft, SameCalls, Completed, TypeOK
<1>2. SameRound /\ \A q \in Rank : Left(q)' <=> Left(q)
  BY <1>1, SameCallsFacts
<1>3. SameProg
  BY <1>2 DEF WaitLeft, SameProg, Prog, PastAdd, TypeOK
<1>4. RootArrived' <=> RootArrived
  BY <1>2, CompletedFacts DEF WaitLeft, RootArrived, TypeOK
<1>5. InvRounds'
  BY <1>1, FrameRounds
<1>6. InvWords'
  BY <1>2 DEF WaitLeft, InvWords, WordAt, PastAdd, TypeOK
<1>7. InvLeft'
  BY <1>2 DEF WaitLeft, InvLeft, PastAdd, TypeOK
<1>8. InvGate'
  BY <1>2, <1>4 DEF WaitLeft, InvGate, TypeOK
<1>9. InvCollect'
  <2>1. r = Last /\ wi[Last] \in 0 .. Last-1 /\ wi[Last] \in Rank /\ Left(wi[Last])
    BY WordFacts DEF WaitLeft, TypeOK
  <2>2. \A q \in Rank : q < wi[Last] => Left(q)
    BY <2>1, CompletedFacts DEF WaitLeft, InvCollect
  <2>3. wi[Last] = Last - 1 => \A q \in Rank \ {Last} : Left(q)
    BY <2>1, <2>2
  <2>4. wi[Last] # Last - 1 => pc'[Last] = "waitLeft" /\ wi'[Last] = wi[Last] + 1
    BY <2>1 DEF WaitLeft, TypeOK
  <2>5. wi[Last] # Last - 1 => \A q \in Rank : q < wi'[Last] => Left(q)
    BY <2>1, <2>2, <2>4
  <2>6. wi[Last] = Last - 1 => pc'[Last] = "reset"
    BY <2>1 DEF WaitLeft, TypeOK
  <2> QED BY <1>2, <2>3, <2>4, <2>5, <2>6 DEF InvCollect
<1>10. InvChain'
  BY <1>2, <1>3, FrameChain
<1>11. InvFlags'
  BY <1>2, <1>3, FrameFlags DEF WaitLeft, TypeOK
<1>12. InvCap'
  BY <1>1, FrameCap DEF WaitLeft, TypeOK
<1>13. InvData'
  BY <1>2, <1>3, <1>4, FrameData DEF WaitLeft, TypeOK
<1>14. InvReg'
  BY <1>2, FrameReg DEF WaitLeft, TypeOK
<1>15. InvOut'
  BY <1>2 DEF WaitLeft, InvOut, PastAdd, TypeOK
<1>16. ReductionCorrect'
  BY DEF WaitLeft, ReductionCorrect, TypeOK
<1> QED BY <1>5, <1>6, <1>7, <1>8, <1>9, <1>10, <1>11, <1>12, <1>13, <1>14, <1>15, <1>16

(* A call that makes rank 0 enlarge the mapping comes after the round. *)
LEMMA StepCall ==
  ASSUME IInv, TypeOK', NEW r \in Rank, Call(r), ResizesSynced
  PROVE  IInv'
<1> USE RankFacts, SizeFacts
<1> USE DEF IInv
<1>1. SameCalls
  BY DEF Call, SameCalls, Completed, TypeOK, Entry
<1>2. SameRound /\ \A q \in Rank : Left(q)' <=> Left(q)
  BY <1>1, SameCallsFacts
<1>3. SameProg
  BY <1>2 DEF Call, SameProg, Prog, PastAdd, TypeOK, Entry
<1>4. RootArrived' <=> RootArrived
  BY <1>2, CompletedFacts DEF Call, RootArrived, TypeOK, Entry
<1>5. InvRounds'
  BY <1>1, FrameRounds
<1>6. InvWords'
  BY <1>2 DEF Call, InvWords, WordAt, PastAdd, TypeOK, Entry
<1>7. InvLeft'
  <2>1. Left(0) /\ r = 0 => ~(BlocksOf[call[r] + 1] > cap[r])
    <3>1. SUFFICES ASSUME Left(0), r = 0, BlocksOf[call[r] + 1] > cap[r] PROVE FALSE
      OBVIOUS
    <3>2. Completed(0) = call[0] /\ call[0] + 1 \in Calls /\ call[0] \in Nat
      BY <3>1, CompletedFacts DEF Call, Calls, TypeOK
    <3>3. \A j \in 1 .. call[0] : BlocksOf[j] < BlocksOf[call[0] + 1]
      BY <3>1, <3>2 DEF InvCap, Calls, TypeOK
    <3>4. BlocksOf[call[0] + 1] > InitBlocks
      BY <3>1, <3>2 DEF InvCap, TypeOK
    <3>5. call[0] + 1 \in Synced
      BY <3>2, <3>3, <3>4 DEF ResizesSynced
    <3> QED BY <3>1, <3>2, <3>5, CompletedFacts DEF Call, Left, Round
  <2> QED BY <1>2, <2>1 DEF Call, InvLeft, Entry, PastAdd, TypeOK
<1>8. InvGate'
  BY <1>2, <1>4 DEF Call, InvGate, TypeOK, Entry
<1>9. InvCollect'
  BY <1>2 DEF Call, InvCollect, TypeOK, Entry
<1>10. InvChain'
  BY <1>2, <1>3, FrameChain
<1>11. InvFlags'
  BY <1>2, <1>3, FrameFlags DEF Call, TypeOK, Entry
<1>12. InvCap'
  <2>1. CASE r = 0
    <3>1. pc'[0] = IF BlocksOf[call[0] + 1] > cap[0] THEN "resize" ELSE "waitZero"
      BY <2>1 DEF Call, Entry, TypeOK
    <3>2. call'[0] = call[0] + 1 /\ cap' = cap /\ call[0] + 1 \in Calls
      BY <2>1 DEF Call, Calls, TypeOK
    <3>3. BlocksOf[call[0] + 1] \in Int /\ cap[0] \in Int
      BY <3>2 DEF TypeOK
    <3>4. Completed(0)' = Completed(0)
      BY <1>1 DEF SameCalls
    <3> QED BY <3>1, <3>2, <3>3, <3>4 DEF InvCap
  <2>2. CASE r # 0
    BY <1>1, <2>2, FrameCap DEF Call, TypeOK
  <2> QED BY <2>1, <2>2
<1>13. InvData'
  BY <1>2, <1>3, <1>4, FrameData DEF Call, Entry, TypeOK
<1>14. InvReg'
  BY <1>2, FrameReg DEF Call, TypeOK, Entry
<1>15. InvOut'
  BY <1>2 DEF Call, InvOut, PastAdd, TypeOK, Entry
<1>16. ReductionCorrect'
  BY DEF Call, ReductionCorrect, TypeOK, Entry
<1> QED BY <1>5, <1>6, <1>7, <1>8, <1>9, <1>10, <1>11, <1>12, <1>13, <1>14, <1>15, <1>16

(* Only rank 0 touches the flags, and it clears them before it goes on. *)
LEMMA StepResize ==
  ASSUME IInv, TypeOK', NEW r \in Rank, Resize(r)
  PROVE  IInv'
<1> USE RankFacts, SizeFacts
<1> USE DEF IInv
<1>1. SameCalls
  BY DEF Resize, SameCalls, Completed, TypeOK
<1>2. SameRound /\ \A q \in Rank : Left(q)' <=> Left(q)
  BY <1>1, SameCallsFacts
<1>3. SameProg
  BY <1>2 DEF Resize, SameProg, Prog, PastAdd, TypeOK
<1>4. RootArrived' <=> RootArrived
  BY <1>2, CompletedFacts DEF Resize, RootArrived, TypeOK
<1>5. InvRounds'
  BY <1>1, FrameRounds
<1>6. InvWords'
  BY <1>2 DEF Resize, InvWords, WordAt, PastAdd, TypeOK
<1>7. InvLeft'
  BY <1>2 DEF Resize, InvLeft, PastAdd, TypeOK
<1>8. InvGate'
  BY <1>2, <1>4 DEF Resize, InvGate, TypeOK
<1>9. InvCollect'
  BY <1>2 DEF Resize, InvCollect, TypeOK
<1>10. InvChain'
  BY <1>2, <1>3, FrameChain
<1>11. InvFlags'
  <2>1. CASE r = 0
    BY <2>1 DEF Resize, InvFlags, TypeOK
  <2>2. CASE r # 0
    BY <1>2, <1>3, <2>2, FrameFlags DEF Resize, TypeOK
  <2> QED BY <2>1, <2>2
<1>12. InvCap'
  <2>1. CASE r = 0
    BY <1>1, <2>1 DEF Resize, InvCap, SameCalls, Calls, TypeOK
  <2>2. CASE r # 0
    BY <1>1, <2>2, FrameCap DEF Resize, TypeOK
  <2> QED BY <2>1, <2>2
<1>13. InvData'
  BY <1>2, <1>3, <1>4, FrameData DEF Resize, TypeOK
<1>14. InvReg'
  BY <1>2, FrameReg DEF Resize, TypeOK
<1>15. InvOut'
  BY <1>2 DEF Resize, InvOut, PastAdd, TypeOK
<1>16. ReductionCorrect'
  BY DEF Resize, ReductionCorrect, TypeOK
<1> QED BY <1>5, <1>6, <1>7, <1>8, <1>9, <1>10, <1>11, <1>12, <1>13, <1>14, <1>15, <1>16

(* No rank has begun the round when rank 0 clears the words. *)
LEMMA StepClear ==
  ASSUME IInv, TypeOK', NEW r \in Rank, Clear(r)
  PROVE  IInv'
<1> USE RankFacts, SizeFacts
<1> USE DEF IInv
<1>1. SameCalls
  BY DEF Clear, SameCalls, Completed, TypeOK
<1>2. SameRound /\ \A q \in Rank : Left(q)' <=> Left(q)
  BY <1>1, SameCallsFacts
<1>3. SameProg
  BY <1>2 DEF Clear, SameProg, Prog, PastAdd, TypeOK
<1>4. RootArrived' <=> RootArrived
  BY <1>2, CompletedFacts DEF Clear, RootArrived, TypeOK
<1>5. InvRounds'
  BY <1>1, FrameRounds
<1>6. InvWords'
  <2>1. ~RootArrived /\ ~Left(0) /\ r = 0
    BY DEF Clear, InvLeft, RootArrived, TypeOK
  <2> QED BY <1>2, <2>1 DEF Clear, InvWords, InvGate, WordAt, PastAdd, TypeOK
<1>7. InvLeft'
  BY <1>2 DEF Clear, InvLeft, PastAdd, TypeOK
<1>8. InvGate'
  BY <1>2, <1>4 DEF Clear, InvGate, TypeOK
<1>9. InvCollect'
  BY <1>2 DEF Clear, InvCollect, TypeOK
<1>10. InvChain'
  BY <1>2, <1>3, FrameChain
<1>11. InvFlags'
  <2>1. ~RootArrived
    BY DEF Clear, InvLeft, RootArrived, TypeOK
  <2>2. \A q \in Rank \ {0}, b \in Block : InRound(b) => Prog(q, b)' = 0
    BY <1>3, <2>1 DEF InvGate, Prog, SameProg, PastAdd
  <2>3. \A b \in 0 .. cap[0]-1 : b \in Block
    BY CapFacts
  <2>4. \A q \in 1 .. Last-1 : q \in Rank \ {0}
    OBVIOUS
  <2>5. \A b \in 0 .. cap[0]-1, q \in 1 .. Last-1 : blockState'[b][q] = 0
    BY <2>3, <2>4 DEF Clear, TypeOK
  <2>6. cap' = cap
    BY DEF Clear
  <2> QED BY <1>2, <2>2, <2>3, <2>4, <2>5, <2>6, SameInRound DEF InvFlags
<1>12. InvCap'
  BY <1>1 DEF Clear, InvCap, SameCalls, TypeOK
<1>13. InvData'
  <2>1. ~RootArrived /\ pc'[0] # "copyIn"
    BY DEF Clear, InvLeft, RootArrived, TypeOK
  <2>2. \A q \in Rank \ {0}, b \in Block : InRound(b) => Prog(q, b)' = 0
    BY <1>3, <2>1 DEF InvGate, Prog, SameProg, PastAdd
  <2>3. \A q \in Rank, b \in Block : InRound(b) => ~Stored(q, b)'
    BY <1>4, <2>1, <2>2 DEF Stored
  <2> QED BY <1>2, <2>3, SameInRound DEF InvData
<1>14. InvReg'
  BY <1>2, FrameReg DEF Clear, TypeOK
<1>15. InvOut'
  BY <1>2 DEF Clear, InvOut, PastAdd, TypeOK
<1>16. ReductionCorrect'
  BY DEF Clear, ReductionCorrect, TypeOK
<1> QED BY <1>5, <1>6, <1>7, <1>8, <1>9, <1>10, <1>11, <1>12, <1>13, <1>14, <1>15, <1>16

(* The words of the others are 0; every block of rank 0 is in. *)
LEMMA StepArriveRoot ==
  ASSUME IInv, TypeOK', NEW r \in Rank, ArriveRoot(r)
  PROVE  IInv'
<1> USE RankFacts, SizeFacts
<1> USE DEF IInv
<1>1. SameCalls
  BY DEF ArriveRoot, SameCalls, Completed, TypeOK
<1>2. SameRound /\ \A q \in Rank : Left(q)' <=> Left(q)
  BY <1>1, SameCallsFacts
<1>3. SameProg
  BY <1>2 DEF ArriveRoot, SameProg, Prog, PastAdd, TypeOK
<1>4. RootArrived'
  BY DEF ArriveRoot, RootArrived, TypeOK
<1>5. r = 0 /\ ~Left(0)
  BY DEF ArriveRoot, InvLeft, TypeOK
<1>6. InvRounds'
  BY <1>1, FrameRounds
<1>7. InvWords'
  <2>1. \A q \in Rank \ {0} : state'[q] = state[q] /\ (WordAt(q)' = WordAt(q))
    BY <1>5 DEF ArriveRoot, WordAt, TypeOK
  <2>2. state'[0] = 1 /\ WordAt(0)' = 1
    BY <1>5 DEF ArriveRoot, WordAt, PastAdd, TypeOK
  <2>3. pc'[Last] = pc[Last] /\ wi' = wi
    BY <1>5 DEF ArriveRoot, TypeOK
  <2> QED BY <1>2, <1>5, <2>1, <2>2, <2>3 DEF InvWords
<1>8. InvLeft'
  BY <1>2 DEF ArriveRoot, InvLeft, PastAdd, TypeOK
<1>9. InvGate'
  BY <1>2, <1>4 DEF ArriveRoot, InvGate, TypeOK
<1>10. InvCollect'
  BY <1>2 DEF ArriveRoot, InvCollect, TypeOK
<1>11. InvChain'
  BY <1>2, <1>3, FrameChain
<1>12. InvFlags'
  BY <1>2, <1>3, FrameFlags DEF ArriveRoot, TypeOK
<1>13. InvCap'
  BY <1>1 DEF ArriveRoot, InvCap, SameCalls, TypeOK
<1>14. InvData'
  <2>1. \A c \in Block : InRound(c) => c \in copied[0] /\ pc[0] = "copyIn"
    BY <1>5, RoundCall DEF ArriveRoot
  <2>2. \A q \in Rank, c \in Block : InRound(c) => (Stored(q, c)' <=> Stored(q, c))
    BY <1>3, <1>4, <2>1 DEF Stored, SameProg
  <2>3. \A q \in Rank : q < Last => q+1 \in Rank
    OBVIOUS
  <2> QED BY <1>2, <2>2, <2>3, SameInRound DEF ArriveRoot, InvData, SameRound
<1>15. InvReg'
  BY <1>2, FrameReg DEF ArriveRoot, TypeOK
<1>16. InvOut'
  BY <1>2 DEF ArriveRoot, InvOut, PastAdd, TypeOK
<1>17. ReductionCorrect'
  BY DEF ArriveRoot, ReductionCorrect, TypeOK
<1> QED BY <1>6, <1>7, <1>8, <1>9, <1>10, <1>11, <1>12, <1>13, <1>14, <1>15, <1>16, <1>17

(* The flags of the round start from no progress. *)
LEMMA StepArrive ==
  ASSUME IInv, TypeOK', NEW r \in Rank, Arrive(r)
  PROVE  IInv'
<1> USE RankFacts, SizeFacts
<1> USE DEF IInv
<1>1. SameCalls
  BY DEF Arrive, SameCalls, Completed, TypeOK
<1>2. SameRound /\ \A q \in Rank : Left(q)' <=> Left(q)
  BY <1>1, SameCallsFacts
<1>3. SameProg
  BY <1>2 DEF Arrive, SameProg, Prog, PastAdd, TypeOK
<1>4. RootArrived' <=> RootArrived
  BY <1>2, CompletedFacts DEF Arrive, RootArrived, TypeOK
<1>5. r # 0 /\ ~Left(r)
  BY DEF Arrive, InvLeft, TypeOK
<1>6. InvRounds'
  BY <1>1, FrameRounds
<1>7. InvWords'
  <2>1. \A q \in Rank \ {r} : state'[q] = state[q] /\ (WordAt(q)' = WordAt(q))
    BY DEF Arrive, WordAt, TypeOK
  <2>2. state'[r] = 1 /\ WordAt(r)' = 1
    BY DEF Arrive, WordAt, PastAdd, TypeOK
  <2>3. (pc'[Last] = "reset" <=> pc[Last] = "reset") /\ wi' = wi
    BY DEF Arrive, TypeOK
  <2> QED BY <1>2, <1>5, <2>1, <2>2, <2>3 DEF InvWords
<1>8. InvLeft'
  BY <1>2 DEF Arrive, InvLeft, PastAdd, TypeOK
<1>9. InvGate'
  BY <1>2, <1>4 DEF Arrive, InvGate, TypeOK
<1>10. InvCollect'
  BY <1>2 DEF Arrive, InvCollect, TypeOK
<1>11. InvChain'
  BY <1>2, <1>3, FrameChain
<1>12. InvFlags'
  BY <1>2, <1>3, FrameFlags DEF Arrive, TypeOK
<1>13. InvCap'
  BY <1>1, FrameCap DEF Arrive, TypeOK
<1>14. InvData'
  BY <1>2, <1>3, <1>4, FrameData DEF Arrive, TypeOK
<1>15. InvReg'
  <2>1. \A q \in Rank, c \in Block : pc'[q] = "add" /\ bstep'[q][c] = 2 => pc[q] = "add" /\ bstep[q][c] = 2
    BY DEF Arrive, TypeOK
  <2> QED BY <1>2, <2>1, SameInRound DEF Arrive, InvReg, SameRound
<1>16. InvOut'
  BY <1>2 DEF Arrive, InvOut, PastAdd, TypeOK
<1>17. ReductionCorrect'
  BY DEF Arrive, ReductionCorrect, TypeOK
<1> QED BY <1>6, <1>7, <1>8, <1>9, <1>10, <1>11, <1>12, <1>13, <1>14, <1>15, <1>16, <1>17

(* The blocks of the round are all added, and stay so. *)
LEMMA StepAdded ==
  ASSUME IInv, TypeOK', NEW r \in Rank, Added(r)
  PROVE  IInv'
<1> USE RankFacts, SizeFacts
<1> USE DEF IInv
<1>1. SameCalls
  BY DEF Added, SameCalls, Completed, TypeOK
<1>2. SameRound /\ \A q \in Rank : Left(q)' <=> Left(q)
  BY <1>1, SameCallsFacts
<1>3. SameProg
  <2>1. r # 0 /\ ~Left(r)
    BY DEF Added, InvLeft, TypeOK
  <2>2. \A b \in Block : InRound(b) => bstep[r][b] = 5
    BY <2>1, RoundCall DEF Added
  <2> QED BY <1>2, <2>1, <2>2 DEF Added, SameProg, Prog, PastAdd, TypeOK
<1>4. RootArrived' <=> RootArrived
  BY <1>2, CompletedFacts DEF Added, RootArrived, TypeOK
<1>5. r # 0 /\ ~Left(r)
  BY DEF Added, InvLeft, TypeOK
<1>6. InvRounds'
  BY <1>1, FrameRounds
<1>7. InvWords'
  <2>1. \A q \in Rank \ {r} : state'[q] = state[q] /\ (WordAt(q)' = WordAt(q))
    BY DEF Added, WordAt, TypeOK
  <2>2. state'[r] = 2 /\ WordAt(r)' = 2
    BY <1>5 DEF Added, WordAt, PastAdd, TypeOK
  <2>3. (pc'[Last] = "reset" <=> pc[Last] = "reset") /\ wi' = wi
    BY DEF Added, TypeOK
  <2> QED BY <1>2, <1>5, <2>1, <2>2, <2>3 DEF InvWords
<1>8. InvLeft'
  BY <1>2 DEF Added, InvLeft, PastAdd, TypeOK
<1>9. InvGate'
  BY <1>2, <1>4 DEF Added, InvGate, TypeOK
<1>10. InvCollect'
  BY <1>2 DEF Added, InvCollect, TypeOK
<1>11. InvChain'
  BY <1>2, <1>3, FrameChain
<1>12. InvFlags'
  BY <1>2, <1>3, FrameFlags DEF Added, TypeOK
<1>13. InvCap'
  BY <1>1, FrameCap DEF Added, TypeOK
<1>14. InvData'
  BY <1>2, <1>3, <1>4, FrameData DEF Added, TypeOK
<1>15. InvReg'
  BY <1>2, FrameReg DEF Added, TypeOK
<1>16. InvOut'
  BY <1>2 DEF Added, InvOut, PastAdd, TypeOK
<1>17. ReductionCorrect'
  BY DEF Added, ReductionCorrect, TypeOK
<1> QED BY <1>6, <1>7, <1>8, <1>9, <1>10, <1>11, <1>12, <1>13, <1>14, <1>15, <1>16, <1>17

(* The flag of the previous rank says that it is done with the block. *)
LEMMA StepBlockWait ==
  ASSUME IInv, TypeOK', NEW r \in Rank, NEW b \in Block, BlockWait(r, b)
  PROVE  IInv'
<1> USE RankFacts, SizeFacts
<1> USE DEF IInv
<1>1. SameCalls
  BY DEF BlockWait, SameCalls, Completed
<1>2. SameRound /\ \A q \in Rank : Left(q)' <=> Left(q)
  BY <1>1, SameCallsFacts
<1>3. r # 0 /\ pc[r] = "add" /\ ~Left(r) /\ call[r] = Round + 1 /\ InRound(b)
  <2>1. r # 0 /\ pc[r] = "add" /\ ~Left(r)
    BY DEF BlockWait, InvLeft, TypeOK
  <2> QED BY <2>1, RoundCall DEF BlockWait
<1>4. (RootArrived' <=> RootArrived) /\ RootArrived
  BY <1>2, <1>3 DEF BlockWait, RootArrived, InvGate
<1>5. pc' = pc /\ call' = call /\ wi' = wi /\ cap' = cap /\ copied' = copied /\ recv' = recv /\ state' = state
  BY DEF BlockWait
<1>6. \A q \in Rank, c \in Block : Prog(q, c)' = IF q = r /\ c = b THEN 1 ELSE Prog(q, c)
  <2>1. bstep' = [bstep EXCEPT ![r][b] = 1]
    BY DEF BlockWait
  <2> QED BY <1>2, <1>3, <1>5, <2>1 DEF Prog, PastAdd, TypeOK
<1>7. Prog(r, b) = bstep[r][b] /\ bstep[r][b] = 0
  BY <1>3 DEF BlockWait, Prog, PastAdd
<1>8. InvRounds'
  BY <1>1, FrameRounds
<1>9. InvWords'
  BY <1>2, <1>5 DEF InvWords, WordAt
<1>10. InvLeft'
  BY <1>2, <1>5 DEF InvLeft
<1>11. InvGate'
  BY <1>4 DEF InvGate
<1>12. InvCollect'
  BY <1>2, <1>5 DEF InvCollect
<1>13. InvChain'
  <2>1. SUFFICES ASSUME NEW c \in Block, NEW s \in Rank, NEW q \in 1 .. s-1,
                              InRound(c), Prog(s, c)' >= 1
                       PROVE  Prog(q, c)' = 5
    BY <1>2, SameInRound DEF InvChain
  <2>2. q \in Rank /\ q # s /\ s - 1 \in Nat /\ Prog(s, c) \in 0 .. 5 /\ Prog(q, c) \in 0 .. 5
    BY ProgType
  <2>3. CASE s = r /\ c = b
    <3>1. blockState[b][r-1] = 1 /\ r-1 \in 1 .. Last-1 /\ r-1 \in Rank
      BY <2>2, <2>3 DEF BlockWait
    <3>2. pc[0] # "clear" /\ b \in 0 .. cap[0]-1
      BY <1>3, <1>4, RootCap
    <3>3. Prog(r-1, b) = 5
      BY <3>1, <3>2 DEF InvFlags
    <3>4. q # r-1 => Prog(q, b) = 5
      BY <2>2, <2>3, <3>1, <3>3, <1>3 DEF InvChain
    <3> QED BY <1>6, <2>2, <2>3, <3>3, <3>4
  <2>4. CASE ~(s = r /\ c = b)
    <3>1. Prog(q, c) = 5
      BY <1>6, <2>1, <2>4 DEF InvChain
    <3> QED BY <1>6, <1>7, <2>2, <3>1
  <2> QED BY <2>3, <2>4
<1>14. InvFlags'
  <2>1. \A c \in 0 .. cap[0]-1 : c \in Block
    BY CapFacts
  <2>2. \A q \in 1 .. Last-1 : q \in Rank /\ q+1 \in Rank
    OBVIOUS
  <2>3. \A q \in Rank : Prog(q, b) \in 0 .. 5
    BY ProgType
  <2> QED BY <1>2, <1>5, <1>6, <1>7, <2>1, <2>2, <2>3, SameInRound DEF InvFlags, BlockWait
<1>15. InvCap'
  BY <1>1, <1>5, FrameCap
<1>16. InvData'
  <2>1. \A q \in Rank, c \in Block : Stored(q, c)' <=> Stored(q, c)
    BY <1>4, <1>5, <1>6, <1>7 DEF Stored
  <2>2. \A q \in Rank : q < Last => q+1 \in Rank
    OBVIOUS
  <2>3. address' = address
    BY DEF BlockWait
  <2> QED BY <1>2, <2>1, <2>2, <2>3, SameInRound DEF InvData, SameRound
<1>17. InvReg'
  <2>1. reg' = reg /\ bstep' = [bstep EXCEPT ![r][b] = 1]
    BY DEF BlockWait
  <2>2. \A q \in Rank, c \in Block : bstep'[q][c] = 2 => bstep[q][c] = 2
    BY <2>1 DEF TypeOK
  <2>3. SUFFICES ASSUME NEW c \in Block, NEW q \in Rank \ {0}, InRound(c), pc[q] = "add", bstep'[q][c] = 2
                 PROVE  reg[q][c] = SumUpTo(Round + 1, q-1)
    BY <1>2, <1>5, <2>1, SameInRound DEF InvReg, SameRound
  <2> QED BY <2>2, <2>3 DEF InvReg
<1>18. InvOut'
  BY <1>5 DEF InvOut
<1>19. ReductionCorrect'
  BY <1>5 DEF ReductionCorrect
<1> QED BY <1>8, <1>9, <1>10, <1>11, <1>12, <1>13, <1>14, <1>15, <1>16, <1>17, <1>18, <1>19

(* The block holds the sum over the ranks below. *)
LEMMA StepBlockLoad ==
  ASSUME IInv, TypeOK', NEW r \in Rank, NEW b \in Block, BlockLoad(r, b)
  PROVE  IInv'
<1> USE RankFacts, SizeFacts
<1> USE DEF IInv
<1>1. SameCalls
  BY DEF BlockLoad, SameCalls, Completed
<1>2. SameRound /\ \A q \in Rank : Left(q)' <=> Left(q)
  BY <1>1, SameCallsFacts
<1>3. r # 0 /\ pc[r] = "add" /\ ~Left(r) /\ call[r] = Round + 1 /\ InRound(b)
  <2>1. r # 0 /\ pc[r] = "add" /\ ~Left(r)
    BY DEF BlockLoad, InvLeft, TypeOK
  <2> QED BY <2>1, RoundCall DEF BlockLoad
<1>4. (RootArrived' <=> RootArrived) /\ RootArrived
  BY <1>2, <1>3 DEF BlockLoad, RootArrived, InvGate
<1>5. pc' = pc /\ call' = call /\ wi' = wi /\ cap' = cap /\ copied' = copied /\ recv' = recv /\ state' = state
  BY DEF BlockLoad
<1>6. \A q \in Rank, c \in Block : Prog(q, c)' = IF q = r /\ c = b THEN 2 ELSE Prog(q, c)
  <2>1. bstep' = [bstep EXCEPT ![r][b] = 2]
    BY DEF BlockLoad
  <2> QED BY <1>2, <1>3, <1>5, <2>1 DEF Prog, PastAdd, TypeOK
<1>7. Prog(r, b) = bstep[r][b] /\ bstep[r][b] = 1
  BY <1>3 DEF BlockLoad, Prog, PastAdd
<1>8. InvRounds'
  BY <1>1, FrameRounds
<1>9. InvWords'
  BY <1>2, <1>5 DEF InvWords, WordAt
<1>10. InvLeft'
  BY <1>2, <1>5 DEF InvLeft
<1>11. InvGate'
  BY <1>4 DEF InvGate
<1>12. InvCollect'
  BY <1>2, <1>5 DEF InvCollect
<1>13. InvChain'
  <2>1. SUFFICES ASSUME NEW c \in Block, NEW s \in Rank, NEW q \in 1 .. s-1,
                              InRound(c), Prog(s, c)' >= 1
                       PROVE  Prog(q, c)' = 5
    BY <1>2, SameInRound DEF InvChain
  <2>2. q \in Rank /\ q # s /\ Prog(s, c) \in 0 .. 5 /\ Prog(q, c) \in 0 .. 5
    BY ProgType
  <2>3. Prog(s, c) >= 1
    <3>1. CASE s = r /\ c = b
      BY <1>7, <3>1
    <3>2. CASE ~(s = r /\ c = b)
      BY <1>6, <2>1, <3>2
    <3> QED BY <3>1, <3>2
  <2>4. Prog(q, c) = 5
    BY <2>1, <2>3 DEF InvChain
  <2>5. ~(q = r /\ c = b)
    BY <1>7, <2>4
  <2> QED BY <1>6, <2>2, <2>4, <2>5
<1>14. InvFlags'
  <2>1. \A c \in 0 .. cap[0]-1 : c \in Block
    BY CapFacts
  <2>2. \A q \in 1 .. Last-1 : q \in Rank /\ q+1 \in Rank
    OBVIOUS
  <2>3. \A q \in Rank : Prog(q, b) \in 0 .. 5
    BY ProgType
  <2> QED BY <1>2, <1>5, <1>6, <1>7, <2>1, <2>2, <2>3, SameInRound DEF InvFlags, BlockLoad
<1>15. InvCap'
  BY <1>1, <1>5, FrameCap
<1>16. InvData'
  <2>1. \A q \in Rank, c \in Block : Stored(q, c)' <=> Stored(q, c)
    BY <1>4, <1>5, <1>6, <1>7 DEF Stored
  <2>2. \A q \in Rank : q < Last => q+1 \in Rank
    OBVIOUS
  <2>3. address' = address
    BY DEF BlockLoad
  <2> QED BY <1>2, <2>1, <2>2, <2>3, SameInRound DEF InvData, SameRound
<1>17. InvReg'
  <2>1. Stored(r-1, b) /\ r-1 \in Rank /\ ~Stored(r, b)
    <3>1. r # 1 => r-1 \in 1 .. r-1 /\ r-1 \in Rank
      BY <1>3
    <3>2. r # 1 => Prog(r-1, b) = 5
      BY <1>3, <1>7, <3>1 DEF InvChain
    <3> QED BY <1>3, <1>4, <1>7, <3>1, <3>2 DEF Stored
  <2>2. r-1 < Last /\ (r-1)+1 = r
    BY <1>3
  <2>3. address[b] = SumUpTo(Round + 1, r-1)
    BY <1>3, <2>1, <2>2 DEF InvData
  <2>4. reg' = [reg EXCEPT ![r][b] = address[b]] /\ bstep' = [bstep EXCEPT ![r][b] = 2]
    BY DEF BlockLoad
  <2>5. SUFFICES ASSUME NEW c \in Block, NEW q \in Rank \ {0}, InRound(c), pc[q] = "add", bstep'[q][c] = 2
                 PROVE  reg'[q][c] = SumUpTo(Round + 1, q-1)
    BY <1>2, <1>5, SameInRound DEF InvReg, SameRound
  <2>6. CASE q = r /\ c = b
    BY <2>3, <2>4, <2>6 DEF TypeOK
  <2>7. CASE ~(q = r /\ c = b)
    <3>1. bstep[q][c] = 2 /\ reg'[q][c] = reg[q][c]
      BY <2>4, <2>5, <2>7 DEF TypeOK
    <3> QED BY <2>5, <3>1 DEF InvReg
  <2> QED BY <2>6, <2>7
<1>18. InvOut'
  BY <1>5 DEF InvOut
<1>19. ReductionCorrect'
  BY <1>5 DEF ReductionCorrect
<1> QED BY <1>8, <1>9, <1>10, <1>11, <1>12, <1>13, <1>14, <1>15, <1>16, <1>17, <1>18, <1>19

(* The flag that the rank below had set is taken back. *)
LEMMA StepBlockClear ==
  ASSUME IInv, TypeOK', NEW r \in Rank, NEW b \in Block, BlockClear(r, b)
  PROVE  IInv'
<1> USE RankFacts, SizeFacts
<1> USE DEF IInv
<1>1. SameCalls
  BY DEF BlockClear, SameCalls, Completed
<1>2. SameRound /\ \A q \in Rank : Left(q)' <=> Left(q)
  BY <1>1, SameCallsFacts
<1>3. r # 0 /\ pc[r] = "add" /\ ~Left(r) /\ call[r] = Round + 1 /\ InRound(b)
  <2>1. r # 0 /\ pc[r] = "add" /\ ~Left(r)
    BY DEF BlockClear, InvLeft, TypeOK
  <2> QED BY <2>1, RoundCall DEF BlockClear
<1>4. (RootArrived' <=> RootArrived) /\ RootArrived
  BY <1>2, <1>3 DEF BlockClear, RootArrived, InvGate
<1>5. pc' = pc /\ call' = call /\ wi' = wi /\ cap' = cap /\ copied' = copied /\ recv' = recv /\ state' = state
  BY DEF BlockClear
<1>6. \A q \in Rank, c \in Block : Prog(q, c)' = IF q = r /\ c = b THEN 4 ELSE Prog(q, c)
  <2>1. bstep' = [bstep EXCEPT ![r][b] = 4]
    BY DEF BlockClear
  <2> QED BY <1>2, <1>3, <1>5, <2>1 DEF Prog, PastAdd, TypeOK
<1>7. Prog(r, b) = bstep[r][b] /\ bstep[r][b] = 3
  BY <1>3 DEF BlockClear, Prog, PastAdd
<1>8. InvRounds'
  BY <1>1, FrameRounds
<1>9. InvWords'
  BY <1>2, <1>5 DEF InvWords, WordAt
<1>10. InvLeft'
  BY <1>2, <1>5 DEF InvLeft
<1>11. InvGate'
  BY <1>4 DEF InvGate
<1>12. InvCollect'
  BY <1>2, <1>5 DEF InvCollect
<1>13. InvChain'
  <2>1. SUFFICES ASSUME NEW c \in Block, NEW s \in Rank, NEW q \in 1 .. s-1,
                              InRound(c), Prog(s, c)' >= 1
                       PROVE  Prog(q, c)' = 5
    BY <1>2, SameInRound DEF InvChain
  <2>2. q \in Rank /\ q # s /\ Prog(s, c) \in 0 .. 5 /\ Prog(q, c) \in 0 .. 5
    BY ProgType
  <2>3. Prog(s, c) >= 1
    <3>1. CASE s = r /\ c = b
      BY <1>7, <3>1
    <3>2. CASE ~(s = r /\ c = b)
      BY <1>6, <2>1, <3>2
    <3> QED BY <3>1, <3>2
  <2>4. Prog(q, c) = 5
    BY <2>1, <2>3 DEF InvChain
  <2>5. ~(q = r /\ c = b)
    BY <1>7, <2>4
  <2> QED BY <1>6, <2>2, <2>4, <2>5
<1>14. InvFlags'
  <2>1. \A c \in 0 .. cap[0]-1 : c \in Block
    BY CapFacts
  <2>2. \A q \in 1 .. Last-1 : q \in Rank /\ q+1 \in Rank /\ q # q+1
    OBVIOUS
  <2>3. \A q \in Rank, c \in Block : Prog(q, c) \in 0 .. 5
    BY ProgType
  <2>4. \A c \in Block, q \in Rank : blockState'[c][q] = IF c = b /\ q = r-1 THEN 0 ELSE blockState[c][q]
    BY <1>3 DEF BlockClear, TypeOK
  <2>5. r - 1 + 1 = r
    BY <1>3
  <2>6. SUFFICES ASSUME pc[0] # "clear", NEW c \in 0 .. cap[0]-1, NEW q \in 1 .. Last-1
                 PROVE  blockState'[c][q] = IF InRound(c) /\ Prog(q, c)' = 5 /\ Prog(q+1, c)' < 4
                                            THEN 1 ELSE 0
    BY <1>2, <1>5, SameInRound DEF InvFlags
  <2>7. blockState[c][q] = IF InRound(c) /\ Prog(q, c) = 5 /\ Prog(q+1, c) < 4 THEN 1 ELSE 0
    BY <2>6 DEF InvFlags
  <2> QED BY <1>3, <1>6, <1>7, <2>1, <2>2, <2>3, <2>4, <2>5, <2>7
<1>15. InvCap'
  BY <1>1, <1>5, FrameCap
<1>16. InvData'
  <2>1. \A q \in Rank, c \in Block : Stored(q, c)' <=> Stored(q, c)
    BY <1>4, <1>5, <1>6, <1>7 DEF Stored
  <2>2. \A q \in Rank : q < Last => q+1 \in Rank
    OBVIOUS
  <2>3. address' = address
    BY DEF BlockClear
  <2> QED BY <1>2, <2>1, <2>2, <2>3, SameInRound DEF InvData, SameRound
<1>17. InvReg'
  <2>1. reg' = reg /\ bstep' = [bstep EXCEPT ![r][b] = 4]
    BY DEF BlockClear
  <2>2. \A q \in Rank, c \in Block : bstep'[q][c] = 2 => bstep[q][c] = 2
    BY <2>1 DEF TypeOK
  <2>3. SUFFICES ASSUME NEW c \in Block, NEW q \in Rank \ {0}, InRound(c), pc[q] = "add", bstep'[q][c] = 2
                 PROVE  reg[q][c] = SumUpTo(Round + 1, q-1)
    BY <1>2, <1>5, <2>1, SameInRound DEF InvReg, SameRound
  <2> QED BY <2>2, <2>3 DEF InvReg
<1>18. InvOut'
  BY <1>5 DEF InvOut
<1>19. ReductionCorrect'
  BY <1>5 DEF ReductionCorrect
<1> QED BY <1>8, <1>9, <1>10, <1>11, <1>12, <1>13, <1>14, <1>15, <1>16, <1>17, <1>18, <1>19

(* The rank above has not begun the block. *)
LEMMA StepBlockSet ==
  ASSUME IInv, TypeOK', NEW r \in Rank, NEW b \in Block, BlockSet(r, b)
  PROVE  IInv'
<1> USE RankFacts, SizeFacts
<1> USE DEF IInv
<1>1. SameCalls
  BY DEF BlockSet, SameCalls, Completed
<1>2. SameRound /\ \A q \in Rank : Left(q)' <=> Left(q)
  BY <1>1, SameCallsFacts
<1>3. r # 0 /\ pc[r] = "add" /\ ~Left(r) /\ call[r] = Round + 1 /\ InRound(b)
  <2>1. r # 0 /\ pc[r] = "add" /\ ~Left(r)
    BY DEF BlockSet, InvLeft, TypeOK
  <2> QED BY <2>1, RoundCall DEF BlockSet
<1>4. (RootArrived' <=> RootArrived) /\ RootArrived
  BY <1>2, <1>3 DEF BlockSet, RootArrived, InvGate
<1>5. pc' = pc /\ call' = call /\ wi' = wi /\ cap' = cap /\ copied' = copied /\ recv' = recv /\ state' = state
  BY DEF BlockSet
<1>6. \A q \in Rank, c \in Block : Prog(q, c)' = IF q = r /\ c = b THEN 5 ELSE Prog(q, c)
  <2>1. bstep' = [bstep EXCEPT ![r][b] = 5]
    BY DEF BlockSet
  <2> QED BY <1>2, <1>3, <1>5, <2>1 DEF Prog, PastAdd, TypeOK
<1>7. Prog(r, b) = bstep[r][b] /\ bstep[r][b] = 4
  BY <1>3 DEF BlockSet, Prog, PastAdd
<1>8. InvRounds'
  BY <1>1, FrameRounds
<1>9. InvWords'
  BY <1>2, <1>5 DEF InvWords, WordAt
<1>10. InvLeft'
  BY <1>2, <1>5 DEF InvLeft
<1>11. InvGate'
  BY <1>4 DEF InvGate
<1>12. InvCollect'
  BY <1>2, <1>5 DEF InvCollect
<1>13. InvChain'
  <2>1. SUFFICES ASSUME NEW c \in Block, NEW s \in Rank, NEW q \in 1 .. s-1,
                              InRound(c), Prog(s, c)' >= 1
                       PROVE  Prog(q, c)' = 5
    BY <1>2, SameInRound DEF InvChain
  <2>2. q \in Rank /\ q # s /\ Prog(s, c) \in 0 .. 5 /\ Prog(q, c) \in 0 .. 5
    BY ProgType
  <2>3. Prog(s, c) >= 1
    <3>1. CASE s = r /\ c = b
      BY <1>7, <3>1
    <3>2. CASE ~(s = r /\ c = b)
      BY <1>6, <2>1, <3>2
    <3> QED BY <3>1, <3>2
  <2>4. Prog(q, c) = 5
    BY <2>1, <2>3 DEF InvChain
  <2>5. ~(q = r /\ c = b)
    BY <1>7, <2>4
  <2> QED BY <1>6, <2>2, <2>4, <2>5
<1>14. InvFlags'
  <2>1. \A c \in 0 .. cap[0]-1 : c \in Block
    BY CapFacts
  <2>2. \A q \in 1 .. Last-1 : q \in Rank /\ q+1 \in Rank /\ q # q+1
    OBVIOUS
  <2>3. \A q \in Rank, c \in Block : Prog(q, c) \in 0 .. 5
    BY ProgType
  <2>4. \A c \in Block, q \in Rank : blockState'[c][q] = IF c = b /\ q = r THEN 1 ELSE blockState[c][q]
    BY DEF BlockSet, TypeOK
  <2>5. r # Last => Prog(r+1, b) = 0
    <3>1. r # Last => r+1 \in Rank /\ r \in 1 .. (r+1)-1
      BY <1>3
    <3>2. r # Last /\ Prog(r+1, b) >= 1 => Prog(r, b) = 5
      BY <1>3, <3>1 DEF InvChain
    <3> QED BY <1>7, <2>3, <3>1, <3>2
  <2>6. SUFFICES ASSUME pc[0] # "clear", NEW c \in 0 .. cap[0]-1, NEW q \in 1 .. Last-1
                 PROVE  blockState'[c][q] = IF InRound(c) /\ Prog(q, c)' = 5 /\ Prog(q+1, c)' < 4
                                            THEN 1 ELSE 0
    BY <1>2, <1>5, SameInRound DEF InvFlags
  <2>7. blockState[c][q] = IF InRound(c) /\ Prog(q, c) = 5 /\ Prog(q+1, c) < 4 THEN 1 ELSE 0
    BY <2>6 DEF InvFlags
  <2> QED BY <1>3, <1>6, <1>7, <2>1, <2>2, <2>3, <2>4, <2>5, <2>7
<1>15. InvCap'
  BY <1>1, <1>5, FrameCap
<1>16. InvData'
  <2>1. \A q \in Rank, c \in Block : Stored(q, c)' <=> Stored(q, c)
    BY <1>4, <1>5, <1>6, <1>7 DEF Stored
  <2>2. \A q \in Rank : q < Last => q+1 \in Rank
    OBVIOUS
  <2>3. address' = address
    BY DEF BlockSet
  <2> QED BY <1>2, <2>1, <2>2, <2>3, SameInRound DEF InvData, SameRound
<1>17. InvReg'
  <2>1. reg' = reg /\ bstep' = [bstep EXCEPT ![r][b] = 5]
    BY DEF BlockSet
  <2>2. \A q \in Rank, c \in Block : bstep'[q][c] = 2 => bstep[q][c] = 2
    BY <2>1 DEF TypeOK
  <2>3. SUFFICES ASSUME NEW c \in Block, NEW q \in Rank \ {0}, InRound(c), pc[q] = "add", bstep'[q][c] = 2
                 PROVE  reg[q][c] = SumUpTo(Round + 1, q-1)
    BY <1>2, <1>5, <2>1, SameInRound DEF InvReg, SameRound
  <2> QED BY <2>2, <2>3 DEF InvReg
<1>18. InvOut'
  BY <1>5 DEF InvOut
<1>19. ReductionCorrect'
  BY <1>5 DEF ReductionCorrect
<1> QED BY <1>8, <1>9, <1>10, <1>11, <1>12, <1>13, <1>14, <1>15, <1>16, <1>17, <1>18, <1>19

(* The stored sum is the one of the ranks up to this one. *)
LEMMA StepBlockStore ==
  ASSUME IInv, TypeOK', NEW r \in Rank, NEW b \in Block, BlockStore(r, b)
  PROVE  IInv'
<1> USE RankFacts, SizeFacts
<1> USE DEF IInv
<1>1. SameCalls
  BY DEF BlockStore, SameCalls, Completed
<1>2. SameRound /\ \A q \in Rank : Left(q)' <=> Left(q)
  BY <1>1, SameCallsFacts
<1>3. r # 0 /\ pc[r] = "add" /\ ~Left(r) /\ call[r] = Round + 1 /\ InRound(b)
  <2>1. r # 0 /\ pc[r] = "add" /\ ~Left(r)
    BY DEF BlockStore, InvLeft, TypeOK
  <2> QED BY <2>1, RoundCall DEF BlockStore
<1>4. (RootArrived' <=> RootArrived) /\ RootArrived
  BY <1>2, <1>3 DEF BlockStore, RootArrived, InvGate
<1>5. pc' = pc /\ call' = call /\ wi' = wi /\ cap' = cap /\ copied' = copied /\ recv' = recv /\ state' = state
  BY DEF BlockStore
<1>6. \A q \in Rank, c \in Block : Prog(q, c)' = IF q = r /\ c = b THEN 3 ELSE Prog(q, c)
  <2>1. bstep' = [bstep EXCEPT ![r][b] = 3]
    BY DEF BlockStore
  <2> QED BY <1>2, <1>3, <1>5, <2>1 DEF Prog, PastAdd, TypeOK
<1>7. Prog(r, b) = bstep[r][b] /\ bstep[r][b] = 2
  BY <1>3 DEF BlockStore, Prog, PastAdd
<1>8. InvRounds'
  BY <1>1, FrameRounds
<1>9. InvWords'
  BY <1>2, <1>5 DEF InvWords, WordAt
<1>10. InvLeft'
  BY <1>2, <1>5 DEF InvLeft
<1>11. InvGate'
  BY <1>4 DEF InvGate
<1>12. InvCollect'
  BY <1>2, <1>5 DEF InvCollect
<1>13. InvChain'
  <2>1. SUFFICES ASSUME NEW c \in Block, NEW s \in Rank, NEW q \in 1 .. s-1,
                              InRound(c), Prog(s, c)' >= 1
                       PROVE  Prog(q, c)' = 5
    BY <1>2, SameInRound DEF InvChain
  <2>2. q \in Rank /\ q # s /\ Prog(s, c) \in 0 .. 5 /\ Prog(q, c) \in 0 .. 5
    BY ProgType
  <2>3. Prog(s, c) >= 1
    <3>1. CASE s = r /\ c = b
      BY <1>7, <3>1
    <3>2. CASE ~(s = r /\ c = b)
      BY <1>6, <2>1, <3>2
    <3> QED BY <3>1, <3>2
  <2>4. Prog(q, c) = 5
    BY <2>1, <2>3 DEF InvChain
  <2>5. ~(q = r /\ c = b)
    BY <1>7, <2>4
  <2> QED BY <1>6, <2>2, <2>4, <2>5
<1>14. InvFlags'
  <2>1. \A c \in 0 .. cap[0]-1 : c \in Block
    BY CapFacts
  <2>2. \A q \in 1 .. Last-1 : q \in Rank /\ q+1 \in Rank
    OBVIOUS
  <2>3. \A q \in Rank : Prog(q, b) \in 0 .. 5
    BY ProgType
  <2> QED BY <1>2, <1>5, <1>6, <1>7, <2>1, <2>2, <2>3, SameInRound DEF InvFlags, BlockStore
<1>15. InvCap'
  BY <1>1, <1>5, FrameCap
<1>16. InvData'
  <2>1. SUFFICES ASSUME NEW c \in Block, NEW q \in Rank, InRound(c), Stored(q, c)', q < Last => ~Stored(q+1, c)'
                 PROVE  address'[c] = SumUpTo(Round + 1, q)
    BY <1>2, SameInRound DEF InvData, SameRound
  <2>2. \A s \in Rank, d \in Block : ~(s = r /\ d = b) => (Stored(s, d)' <=> Stored(s, d))
    BY <1>4, <1>5, <1>6 DEF Stored
  <2>3. q < Last => q+1 \in Rank
    OBVIOUS
  <2>4. CASE c # b
    <3>1. address'[c] = address[c]
      BY <2>4 DEF BlockStore, TypeOK
    <3> QED BY <2>1, <2>2, <2>3, <2>4, <3>1 DEF InvData
  <2>5. CASE c = b
    <3>1. Stored(r, b)'
      BY <1>3, <1>6 DEF Stored
    <3>2. \A s \in 1 .. r-1 : s \in Rank /\ Stored(s, b)'
      <4>1. \A s \in 1 .. r-1 : s \in Rank /\ s # 0 /\ s # r /\ Prog(s, b) = 5
        BY <1>3, <1>7 DEF InvChain
      <4> QED BY <1>6, <4>1 DEF Stored
    <3>3. \A s \in Rank : s > r => ~Stored(s, b)'
      <4>1. \A s \in Rank : s > r => s # 0 /\ s # r /\ Prog(s, b) = 0
        <5>1. \A s \in Rank : s > r /\ Prog(s, b) >= 1 => Prog(r, b) = 5
          BY <1>3 DEF InvChain
        <5> QED BY <1>3, <1>7, <5>1, ProgType
      <4> QED BY <1>6, <4>1 DEF Stored
    <3>4. q = r
      <4>1. ~(q > r)
        BY <2>1, <2>5, <3>3
      <4>2. q < r => q+1 = r \/ q+1 \in 1 .. r-1
        BY <1>3
      <4> QED BY <2>1, <2>5, <3>1, <3>2, <4>1, <4>2
    <3>5. reg[r][b] = SumUpTo(Round + 1, r-1)
      BY <1>3, <1>7 DEF InvReg
    <3>6. address'[b] = Append(reg[r][b], Contribution(r, call[r]))
      <4>1. address' = [address EXCEPT ![b] = Append(reg[r][b], Contribution(r, call[r]))]
        BY DEF BlockStore
      <4>2. DOMAIN address = Block
        BY DEF TypeOK
      <4> QED BY <4>1, <4>2
    <3>7. call[r] \in Calls
      BY <1>3, CompletedFacts
    <3> QED BY <1>3, <2>5, <3>4, <3>5, <3>6, <3>7, SumStep
  <2> QED BY <2>4, <2>5
<1>17. InvReg'
  <2>1. reg' = reg /\ bstep' = [bstep EXCEPT ![r][b] = 3]
    BY DEF BlockStore
  <2>2. \A q \in Rank, c \in Block : bstep'[q][c] = 2 => bstep[q][c] = 2
    BY <2>1 DEF TypeOK
  <2>3. SUFFICES ASSUME NEW c \in Block, NEW q \in Rank \ {0}, InRound(c), pc[q] = "add", bstep'[q][c] = 2
                 PROVE  reg[q][c] = SumUpTo(Round + 1, q-1)
    BY <1>2, <1>5, <2>1, SameInRound DEF InvReg, SameRound
  <2> QED BY <2>2, <2>3 DEF InvReg
<1>18. InvOut'
  BY <1>5 DEF InvOut
<1>19. ReductionCorrect'
  BY <1>5 DEF ReductionCorrect
<1> QED BY <1>8, <1>9, <1>10, <1>11, <1>12, <1>13, <1>14, <1>15, <1>16, <1>17, <1>18, <1>19

(* Rank 0 fills the block while nobody else can touch it. *)
LEMMA StepCopyIn ==
  ASSUME IInv, TypeOK', NEW r \in Rank, NEW b \in Block, CopyIn(r, b)
  PROVE  IInv'
<1> USE RankFacts, SizeFacts
<1> USE DEF IInv
<1>1. SameCalls
  BY DEF CopyIn, SameCalls, Completed
<1>2. SameRound /\ \A q \in Rank : Left(q)' <=> Left(q)
  BY <1>1, SameCallsFacts
<1>3. pc' = pc /\ call' = call /\ wi' = wi /\ cap' = cap /\ bstep' = bstep /\ reg' = reg /\ recv' = recv /\ state' = state /\ blockState' = blockState
  BY DEF CopyIn
<1>4. r = 0 /\ pc[0] = "copyIn" /\ ~Left(0) /\ ~RootArrived /\ call[0] = Round + 1
  BY RoundCall DEF CopyIn, InvLeft, RootArrived, TypeOK
<1>5. SameProg /\ (RootArrived' <=> RootArrived)
  BY <1>2, <1>3 DEF SameProg, Prog, RootArrived
<1>6. \A q \in Rank \ {0}, c \in Block : Prog(q, c) = 0
  BY <1>4 DEF InvGate, Prog, PastAdd
<1>7. InvRounds'
  BY <1>1, FrameRounds
<1>8. InvWords'
  BY <1>2, <1>3 DEF InvWords, WordAt
<1>9. InvLeft'
  BY <1>2, <1>3 DEF InvLeft
<1>10. InvGate'
  BY <1>2, <1>3, <1>5 DEF InvGate
<1>11. InvCollect'
  BY <1>2, <1>3 DEF InvCollect
<1>12. InvChain'
  BY <1>2, <1>5, FrameChain
<1>13. InvFlags'
  BY <1>2, <1>3, <1>5, FrameFlags
<1>14. InvCap'
  BY <1>1, <1>3, FrameCap
<1>15. InvData'
  <2>1. SUFFICES ASSUME NEW c \in Block, NEW q \in Rank, InRound(c), Stored(q, c)'
                 PROVE  address'[c] = SumUpTo(Round + 1, q)
    BY <1>2, SameInRound DEF InvData, SameRound
  <2>2. \A s \in Rank \ {0} : ~Stored(s, c) /\ ~Stored(s, c)'
    BY <1>5, <1>6, <2>1 DEF Stored, SameProg
  <2>3. q = 0
    BY <2>1, <2>2
  <2>4. copied'[0] = copied[0] \cup {b} /\ address' = [address EXCEPT ![b] = SumUpTo(call[0], 0)]
    BY <1>4 DEF CopyIn, TypeOK
  <2>5. CASE c = b
    BY <1>4, <2>3, <2>4, <2>5 DEF TypeOK
  <2>6. CASE c # b
    <3>1. Stored(0, c)
      BY <1>4, <1>5, <2>1, <2>3, <2>4, <2>6 DEF Stored
    <3>2. address[c] = SumUpTo(Round + 1, 0)
      BY <2>1, <2>2, <3>1 DEF InvData
    <3> QED BY <2>3, <2>4, <2>6, <3>2 DEF TypeOK
  <2> QED BY <2>5, <2>6
<1>16. InvReg'
  BY <1>2, <1>3, FrameReg
<1>17. InvOut'
  BY <1>3, <1>4 DEF InvOut, CopyIn, TypeOK
<1>18. ReductionCorrect'
  BY <1>3 DEF ReductionCorrect
<1> QED BY <1>7, <1>8, <1>9, <1>10, <1>11, <1>12, <1>13, <1>14, <1>15, <1>16, <1>17, <1>18

(* The last rank has stored: the block holds the sum over all ranks. *)
LEMMA StepCopyOut ==
  ASSUME IInv, TypeOK', NEW r \in Rank, NEW b \in Block, CopyOut(r, b)
  PROVE  IInv'
<1> USE RankFacts, SizeFacts
<1> USE DEF IInv
<1>1. SameCalls
  BY DEF CopyOut, SameCalls, Completed
<1>2. SameRound /\ \A q \in Rank : Left(q)' <=> Left(q)
  BY <1>1, SameCallsFacts
<1>3. pc' = pc /\ call' = call /\ wi' = wi /\ cap' = cap /\ bstep' = bstep /\ reg' = reg /\ address' = address /\ state' = state /\ blockState' = blockState
  BY DEF CopyOut
<1>4. SameProg /\ (RootArrived' <=> RootArrived)
  BY <1>2, <1>3 DEF SameProg, Prog, RootArrived
<1>5. pc[r] = "copyOut" /\ ~Left(r) /\ call[r] = Round + 1 /\ InRound(b)
  BY RoundCall DEF CopyOut, InvLeft
<1>6. address[b] = SumUpTo(call[r], Last)
  <2>1. Stored(Last, b)
    BY <1>5 DEF InvOut, Stored, Prog
  <2> QED BY <1>5, <2>1 DEF InvData
<1>7. InvRounds'
  BY <1>1, FrameRounds
<1>8. InvWords'
  BY <1>2, <1>3 DEF InvWords, WordAt
<1>9. InvLeft'
  BY <1>2, <1>3 DEF InvLeft
<1>10. InvGate'
  BY <1>2, <1>3, <1>4 DEF InvGate
<1>11. InvCollect'
  BY <1>2, <1>3 DEF InvCollect
<1>12. InvChain'
  BY <1>2, <1>4, FrameChain
<1>13. InvFlags'
  BY <1>2, <1>3, <1>4, FrameFlags
<1>14. InvCap'
  BY <1>1, <1>3, FrameCap
<1>15. InvData'
  <2>1. \A q \in Rank, c \in Block : InRound(c) => (Stored(q, c)' <=> Stored(q, c))
    BY <1>3, <1>4 DEF Stored, SameProg, CopyOut, RootArrived, TypeOK
  <2>2. \A q \in Rank : q < Last => q+1 \in Rank
    OBVIOUS
  <2> QED BY <1>2, <1>3, <2>1, <2>2, SameInRound DEF InvData, SameRound
<1>16. InvReg'
  BY <1>2, <1>3, FrameReg
<1>17. InvOut'
  <2>1. copied' = [copied EXCEPT ![r] = @ \cup {b}] /\ recv' = [recv EXCEPT ![r][b] = address[b]]
    BY DEF CopyOut
  <2>2. \A q \in Rank \ {r} : copied'[q] = copied[q] /\ recv'[q] = recv[q]
    BY <2>1 DEF TypeOK
  <2>3. \A c \in copied'[r] : recv'[r][c] = SumUpTo(call[r], Last)
    BY <1>5, <1>6, <2>1 DEF InvOut, TypeOK
  <2> QED BY <1>3, <1>5, <2>2, <2>3 DEF InvOut
<1>18. ReductionCorrect'
  <2>1. \A q \in Rank \ {r} : recv'[q] = recv[q]
    BY DEF CopyOut, TypeOK
  <2> QED BY <1>3, <1>5, <2>1 DEF ReductionCorrect
<1> QED BY <1>7, <1>8, <1>9, <1>10, <1>11, <1>12, <1>13, <1>14, <1>15, <1>16, <1>17, <1>18

(* A rank leaves only after the last rank has added every block. *)
LEMMA StepLeave ==
  ASSUME IInv, TypeOK', NEW r \in Rank, Leave(r)
  PROVE  IInv'
<1> USE RankFacts, SizeFacts
<1> USE DEF IInv
<1>1. r # Last /\ pc[r] = "copyOut" /\ ~Left(r) /\ call[r] = Round + 1 /\ Completed(r) = Round
  BY RoundCall, CompletedFacts DEF Leave, InvLeft, InvRounds, Left
<1>2. SameRound /\ \A q \in Rank \ {r} : Completed(q)' = Completed(q) /\ (Left(q)' <=> Left(q))
  BY <1>1 DEF Leave, SameRound, Round, Left, Completed, TypeOK
<1>3. Left(r)' /\ Completed(r)' = Round + 1
  BY <1>1, <1>2 DEF Leave, Left, SameRound, Completed, TypeOK
<1>4. pc' = [pc EXCEPT ![r] = "idle"] /\ call' = call /\ wi' = wi /\ cap' = cap /\ bstep' = bstep /\ reg' = reg /\ recv' = recv /\ address' = address /\ blockState' = blockState
  BY DEF Leave
<1>5. SameProg
  BY <1>1, <1>2, <1>3, <1>4 DEF SameProg, Prog, PastAdd, TypeOK
<1>6. (RootArrived' <=> RootArrived) /\ pc[Last] \in PastAdd /\ pc'[Last] = pc[Last]
  BY <1>1, <1>2, <1>3, <1>4 DEF RootArrived, InvOut, TypeOK
<1>7. InvRounds'
  BY <1>2, <1>3 DEF InvRounds, SameRound
<1>8. InvWords'
  <2>1. \A q \in Rank \ {r} : state'[q] = state[q] /\ WordAt(q)' = WordAt(q)
    BY DEF Leave, WordAt, TypeOK
  <2>2. state'[r] = 3
    BY DEF Leave, TypeOK
  <2>3. pc[Last] # "reset"
    BY <1>1 DEF InvCollect
  <2> QED BY <1>2, <1>3, <1>4, <1>6, <2>1, <2>2, <2>3 DEF InvWords
<1>9. InvLeft'
  BY <1>2, <1>3, <1>4, <1>6 DEF InvLeft, TypeOK
<1>10. InvGate'
  <2>1. r # 0 => RootArrived
    BY <1>1 DEF InvGate
  <2> QED BY <1>2, <1>3, <1>4, <1>6, <2>1 DEF InvGate, RootArrived, TypeOK
<1>11. InvCollect'
  BY <1>2, <1>3, <1>4, <1>6 DEF InvCollect
<1>12. InvChain'
  BY <1>2, <1>5, FrameChain
<1>13. InvFlags'
  BY <1>1, <1>2, <1>4, <1>5, FrameFlags DEF TypeOK
<1>14. InvCap'
  <2>1. CASE r = 0
    <3>1. BlocksOf[call[0]] <= cap[0] /\ Completed(0)' = call[0]
      BY <1>1, <1>3, <2>1 DEF InvCap
    <3>2. \A k \in Calls : k <= call[0] => k <= Completed(0) \/ k = call[0]
      BY <1>1, <2>1, CompletedFacts DEF Calls, TypeOK
    <3>3. pc'[0] = "idle"
      BY <1>4, <2>1 DEF TypeOK
    <3> QED BY <1>4, <3>1, <3>2, <3>3 DEF InvCap
  <2>2. CASE r # 0
    BY <1>2, <1>4, <2>2 DEF InvCap, TypeOK
  <2> QED BY <2>1, <2>2
<1>15. InvData'
  <2>1. \A q \in Rank, c \in Block : InRound(c) => (Stored(q, c)' <=> Stored(q, c))
    BY <1>1, <1>4, <1>5, <1>6 DEF Stored, SameProg, Leave, RootArrived, TypeOK
  <2>2. \A q \in Rank : q < Last => q+1 \in Rank
    OBVIOUS
  <2> QED BY <1>2, <1>4, <2>1, <2>2, SameInRound DEF InvData, SameRound
<1>16. InvReg'
  BY <1>2, <1>4, FrameReg DEF TypeOK
<1>17. InvOut'
  <2>1. copied' = [copied EXCEPT ![r] = {}]
    BY DEF Leave
  <2> QED BY <1>1, <1>4, <1>6, <2>1 DEF InvOut, TypeOK
<1>18. ReductionCorrect'
  <2>1. \A c \in Active(call[r]) : recv[r][c] = SumUpTo(call[r], Last)
    BY DEF Leave, InvOut
  <2> QED BY <1>4, <2>1 DEF ReductionCorrect, TypeOK
<1> QED BY <1>7, <1>8, <1>9, <1>10, <1>11, <1>12, <1>13, <1>14, <1>15, <1>16, <1>17, <1>18

(* The word of a rank that has left goes back to 0. *)
LEMMA StepResetOne ==
  ASSUME IInv, TypeOK', NEW r \in Rank, Reset(r), wi[r] # Last
  PROVE  IInv'
<1> USE RankFacts, SizeFacts
<1> USE DEF IInv
<1>1. r = Last /\ pc[Last] = "reset" /\ wi[Last] \in 0 .. Last-1
  BY DEF Reset, TypeOK
<1>2. pc' = pc /\ call' = call /\ cap' = cap /\ bstep' = bstep /\ reg' = reg /\ recv' = recv /\ address' = address /\ blockState' = blockState /\ copied' = copied
  BY <1>1 DEF Reset, TypeOK
<1>3. wi'[Last] = wi[Last] + 1 /\ state' = [state EXCEPT ![wi[Last]] = 0]
  BY <1>1 DEF Reset, TypeOK
<1>4. SameCalls
  BY <1>2 DEF SameCalls, Completed
<1>5. SameRound /\ \A q \in Rank : Left(q)' <=> Left(q)
  BY <1>4, SameCallsFacts
<1>6. SameProg /\ (RootArrived' <=> RootArrived)
  BY <1>2, <1>5 DEF SameProg, Prog, RootArrived
<1>7. InvRounds'
  BY <1>4, FrameRounds
<1>8. InvWords'
  <2>1. \A q \in Rank : WordAt(q)' = WordAt(q)
    BY <1>2 DEF WordAt
  <2>2. wi[Last] \in Rank /\ Left(wi[Last])
    BY <1>1 DEF InvCollect
  <2>3. \A q \in Rank : state'[q] = IF q = wi[Last] THEN 0 ELSE state[q]
    BY <1>3, <2>2 DEF TypeOK
  <2>4. \A q \in Rank : q < wi[Last] + 1 <=> q < wi[Last] \/ q = wi[Last]
    BY <1>1
  <2> QED BY <1>1, <1>2, <1>3, <1>5, <2>1, <2>2, <2>3, <2>4 DEF InvWords
<1>9. InvLeft'
  <2>1. \A q \in Rank : q < wi[Last] => q < wi'[Last]
    BY <1>1, <1>3
  <2> QED BY <1>2, <1>5, <2>1 DEF InvLeft
<1>10. InvGate'
  BY <1>2, <1>5, <1>6 DEF InvGate
<1>11. InvCollect'
  BY <1>1, <1>2, <1>5 DEF InvCollect
<1>12. InvChain'
  BY <1>5, <1>6, FrameChain
<1>13. InvFlags'
  BY <1>2, <1>5, <1>6, FrameFlags
<1>14. InvCap'
  BY <1>2, <1>4, FrameCap
<1>15. InvData'
  BY <1>2, <1>5, <1>6, FrameData
<1>16. InvReg'
  BY <1>2, <1>5, FrameReg
<1>17. InvOut'
  BY <1>2 DEF InvOut
<1>18. ReductionCorrect'
  BY <1>2 DEF ReductionCorrect
<1> QED BY <1>7, <1>8, <1>9, <1>10, <1>11, <1>12, <1>13, <1>14, <1>15, <1>16, <1>17, <1>18

(* The last word goes back to 0, and with it the next round begins. *)
LEMMA StepResetLast ==
  ASSUME IInv, TypeOK', NEW r \in Rank, Reset(r), wi[r] = Last
  PROVE  IInv'
<1> USE RankFacts, SizeFacts
<1> USE DEF IInv
<1>1. r = Last /\ pc[Last] = "reset" /\ wi[Last] = Last /\ ~Left(Last)
  BY CompletedFacts DEF Reset, TypeOK
<1>2. \A q \in Rank \ {Last} : Left(q)
  BY <1>1 DEF InvCollect
<1>3. pc' = [pc EXCEPT ![Last] = "idle"] /\ call' = call /\ cap' = cap /\ bstep' = bstep /\ reg' = reg /\ recv' = recv /\ address' = address /\ blockState' = blockState /\ copied' = copied /\ state' = [state EXCEPT ![Last] = 0]
  BY <1>1 DEF Reset
<1>4. \A q \in Rank \ {Last} : Completed(q)' = Completed(q) /\ Completed(q) = Round + 1
  BY <1>2, <1>3 DEF Completed, Left, TypeOK
<1>5. Round' = Round + 1 /\ Completed(Last)' = Round + 1 /\ call[Last] = Round + 1
  BY <1>1, <1>3, CompletedFacts DEF Completed, Round, TypeOK
<1>6. \A q \in Rank : ~Left(q)'
  BY <1>4, <1>5, CompletedFacts DEF Left
<1>7. \A q \in Rank : pc'[q] \in {"idle", "resize", "waitZero", "waitOwn", "waitRoot"}
  BY <1>2, <1>3 DEF InvLeft, TypeOK
<1>8. (\A q \in Rank, c \in Block : Prog(q, c)' = 0) /\ ~RootArrived'
  BY <1>6, <1>7 DEF Prog, PastAdd, RootArrived
<1>9. InvRounds'
  BY <1>4, <1>5 DEF InvRounds
<1>10. InvWords'
  <2>1. \A q \in Rank : WordAt(q)' = 0
    BY <1>7 DEF WordAt, PastAdd
  <2>2. \A q \in Rank : state'[q] = 0
    BY <1>1, <1>2, <1>3 DEF InvWords, TypeOK
  <2> QED BY <1>6, <2>1, <2>2 DEF InvWords
<1>11. InvLeft'
  BY <1>6 DEF InvLeft
<1>12. InvGate'
  <2>1. \A q \in Rank \ {0} : pc'[q] # "waitZero"
    BY DEF TypeOK
  <2> QED BY <1>6, <1>7, <2>1 DEF InvGate
<1>13. InvCollect'
  BY <1>7 DEF InvCollect
<1>14. InvChain'
  <2>1. \A q \in Rank : \A s \in 1 .. q-1 : s \in Rank
    OBVIOUS
  <2> QED BY <1>8, <2>1 DEF InvChain
<1>15. InvFlags'
  <2>1. \A c \in 0 .. cap[0]-1 : c \in Block
    BY CapFacts
  <2>2. \A q \in 1 .. Last-1 : q \in Rank /\ q+1 \in Rank
    OBVIOUS
  <2>3. \A q \in Rank, c \in Block : Prog(q, c) = 5
    BY <1>1, <1>2 DEF Prog, PastAdd
  <2>4. pc[0] # "clear"
    BY <1>3, <1>7 DEF TypeOK
  <2>5. \A c \in 0 .. cap[0]-1, q \in 1 .. Last-1 : blockState[c][q] = 0
    BY <2>1, <2>2, <2>3, <2>4 DEF InvFlags
  <2> QED BY <1>3, <1>8, <2>1, <2>2, <2>5 DEF InvFlags
<1>16. InvCap'
  BY <1>1, <1>3, <1>4 DEF InvCap, TypeOK
<1>17. InvData'
  <2>1. \A q \in Rank, c \in Block : ~Stored(q, c)'
    BY <1>7, <1>8 DEF Stored
  <2> QED BY <2>1 DEF InvData
<1>18. InvReg'
  BY <1>7 DEF InvReg
<1>19. InvOut'
  BY <1>1, <1>3, <1>7 DEF InvOut, TypeOK
<1>20. ReductionCorrect'
  <2>1. \A c \in Active(call[Last]) : recv[Last][c] = SumUpTo(call[Last], Last)
    BY <1>1 DEF InvOut
  <2> QED BY <1>3, <2>1 DEF ReductionCorrect, TypeOK
<1> QED BY <1>9, <1>10, <1>11, <1>12, <1>13, <1>14, <1>15, <1>16, <1>17, <1>18, <1>19, <1>20

-----------------------------------------------------------------------------
(* The invariant holds initially and is kept by every step. *)

LEMMA InvInit == Init => IInv
<1> SUFFICES ASSUME Init PROVE IInv
  OBVIOUS
<1> USE RankFacts, SizeFacts
<1>1. TypeOK
  BY TypeInit
<1>2. /\ \A r \in Rank : pc[r] = "idle" /\ call[r] = 0 /\ state[r] = 0 /\ copied[r] = {}
      /\ \A b \in Block : \A r \in Rank : blockState[b][r] = 0
      /\ cap[0] = InitBlocks
  BY DEF Init
<1>3. Round = 0 /\ \A r \in Rank : Completed(r) = 0 /\ ~Left(r)
  BY <1>2 DEF Round, Completed, Left
<1>4. ~RootArrived /\ \A r \in Rank, b \in Block : Prog(r, b) = 0 /\ ~Stored(r, b)
  BY <1>2, <1>3 DEF RootArrived, Prog, PastAdd, Stored
<1>5. InvRounds /\ InvLeft /\ InvGate /\ InvCollect
  BY <1>2, <1>3 DEF InvRounds, InvLeft, InvGate, InvCollect
<1>6. InvWords
  BY <1>2, <1>3 DEF InvWords, WordAt, PastAdd
<1>7. InvChain
  <2>1. \A r \in Rank : \A q \in 1 .. r-1 : q \in Rank
    OBVIOUS
  <2> QED BY <1>4, <2>1 DEF InvChain
<1>8. InvFlags
  <2>1. \A r \in 1 .. Last-1 : r \in Rank /\ r+1 \in Rank
    OBVIOUS
  <2> QED BY <1>1, <1>2, <1>4, <2>1, CapFacts DEF InvFlags
<1>9. InvCap
  BY <1>2, <1>3 DEF InvCap, Calls
<1>10. InvData /\ InvReg
  BY <1>2, <1>4 DEF InvData, InvReg
<1>11. InvOut /\ ReductionCorrect
  BY <1>2 DEF InvOut, ReductionCorrect
<1> QED BY <1>1, <1>5, <1>6, <1>7, <1>8, <1>9, <1>10, <1>11 DEF IInv

LEMMA InvStutter == IInv /\ UNCHANGED vars => IInv'
<1> SUFFICES ASSUME IInv, UNCHANGED vars PROVE IInv'
  OBVIOUS
<1> USE RankFacts DEF IInv
<1>1. /\ pc' = pc /\ call' = call /\ wi' = wi /\ cap' = cap /\ bstep' = bstep /\ reg' = reg
      /\ copied' = copied /\ recv' = recv /\ state' = state /\ blockState' = blockState
      /\ address' = address
  BY DEF vars
<1>2. SameCalls
  BY <1>1 DEF SameCalls, Completed
<1>3. SameRound /\ \A q \in Rank : Left(q)' <=> Left(q)
  BY <1>2, SameCallsFacts
<1>4. SameProg /\ (RootArrived' <=> RootArrived)
  BY <1>1, <1>3 DEF SameProg, Prog, RootArrived
<1>5. TypeOK'
  BY <1>1 DEF TypeOK
<1>6. InvRounds' /\ InvChain' /\ InvFlags' /\ InvCap' /\ InvData' /\ InvReg'
  BY <1>1, <1>2, <1>3, <1>4, FrameRounds, FrameChain, FrameFlags, FrameCap, FrameData, FrameReg
<1>7. InvWords' /\ InvLeft' /\ InvGate' /\ InvCollect'
  BY <1>1, <1>3, <1>4 DEF InvWords, WordAt, InvLeft, InvGate, InvCollect
<1>8. InvOut' /\ ReductionCorrect'
  BY <1>1 DEF InvOut, ReductionCorrect
<1> QED BY <1>5, <1>6, <1>7, <1>8

LEMMA InvStep == ResizesSynced /\ IInv /\ [Next]_vars => IInv'
<1> SUFFICES ASSUME ResizesSynced, IInv, [Next]_vars PROVE IInv'
  OBVIOUS
<1>1. TypeOK'
  BY TypeStep DEF IInv
<1>2. CASE UNCHANGED vars
  BY <1>2, InvStutter
<1>3. CASE Next
  <2>1. PICK r \in Rank : RankStep(r)
    BY <1>3 DEF Next
  <2>2. CASE \E b \in Block : BlockStep(r, b)
    BY <1>1, <2>2, StepCopyIn, StepCopyOut, StepBlockWait, StepBlockLoad, StepBlockStore,
       StepBlockClear, StepBlockSet DEF BlockStep
  <2>3. CASE Call(r) \/ Resize(r) \/ Clear(r) \/ WaitZero(r) \/ ArriveRoot(r)
    BY <1>1, <2>3, StepCall, StepResize, StepClear, StepWaitZero, StepArriveRoot
  <2>4. CASE WaitOwn(r) \/ WaitRoot(r) \/ Arrive(r) \/ Added(r) \/ WaitLast(r)
    BY <1>1, <2>4, StepWaitOwn, StepWaitRoot, StepArrive, StepAdded, StepWaitLast
  <2>5. CASE Leave(r) \/ StartWaitLeft(r) \/ WaitLeft(r) \/ Reset(r)
    BY <1>1, <2>5, StepLeave, StepStartWaitLeft, StepWaitLeft, StepResetOne, StepResetLast
  <2> QED BY <2>1, <2>2, <2>3, <2>4, <2>5 DEF RankStep
<1> QED BY <1>2, <1>3

LEMMA Invariance ==
  ASSUME ResizesSynced
  PROVE  Spec => []IInv
<1>1. IInv /\ [Next]_vars => IInv'
  BY InvStep
<1> QED BY <1>1, InvInit, PTL DEF Spec

(* When no mapping grows under a running call, reduceAdd returns the sum   *)
(* over all ranks at every rank, in every block, for any number of ranks,  *)
(* calls, blocks and threads (shm_reduction.cpp:83-145).                   *)
THEOREM Correct ==
  ASSUME ResizesSynced
  PROVE  Spec => []ReductionCorrect
<1>1. IInv => ReductionCorrect
  BY DEF IInv
<1> QED BY <1>1, Invariance, PTL

(* Under the same condition no two ranks ever access a block of the data   *)
(* area at once, one of them writing.                                      *)
THEOREM NoRace ==
  ASSUME ResizesSynced
  PROVE  Spec => []RaceFree
<1>1. ASSUME IInv PROVE RaceFree
  <2> USE RankFacts DEF IInv
  <2>1. SUFFICES ASSUME NEW b \in Block, NEW r \in Rank, NEW q \in Rank, q # r,
                        Writing(r, b), Writing(q, b) \/ Reading(q, b)
                 PROVE  FALSE
    BY <1>1 DEF RaceFree
  <2>2. ASSUME NEW s \in Rank, Writing(s, b), s # 0
        PROVE  InRound(b) /\ Prog(s, b) \in {1, 2} /\ ~Left(s) /\ RootArrived
    <3>1. pc[s] = "add" /\ ~Left(s)
      BY <1>1, <2>2 DEF Writing, InvLeft, TypeOK
    <3>2. InRound(b) /\ bstep[s][b] \in {1, 2}
      BY <1>1, <2>2, <3>1, RoundCall DEF Writing
    <3> QED BY <1>1, <2>2, <3>1, <3>2 DEF Prog, PastAdd, InvGate
  <2>3. ASSUME Writing(0, b) PROVE ~RootArrived
    BY <1>1, <2>3 DEF Writing, TypeOK, InvLeft, RootArrived
  <2>4. ASSUME NEW s \in Rank, Reading(s, b)
        PROVE  InRound(b) /\ Prog(Last, b) = 5 /\ RootArrived
    <3>1. pc[s] = "copyOut" /\ ~Left(s)
      BY <1>1, <2>4 DEF Reading, InvLeft
    <3>2. InRound(b)
      BY <1>1, <2>4, <3>1, RoundCall DEF Reading
    <3>3. Prog(Last, b) = 5
      BY <1>1, <3>1 DEF InvOut, Prog
    <3> QED BY <1>1, <3>1, <3>2, <3>3 DEF InvGate, RootArrived
  <2>5. ASSUME NEW s \in Rank, s # 0, Writing(s, b), NEW u \in Rank, u > s
        PROVE  Prog(u, b) = 0
    <3>1. s \in 1 .. u-1 /\ Prog(s, b) # 5
      BY <2>2, <2>5
    <3> QED BY <1>1, <2>2, <2>5, <3>1, ProgType DEF InvChain
  <2>6. CASE r = 0 \/ (q = 0 /\ Writing(q, b))
    BY <2>1, <2>2, <2>3, <2>4, <2>6
  <2>7. CASE r # 0 /\ q # 0 /\ Writing(q, b)
    <3>1. Prog(r, b) \in {1, 2} /\ Prog(q, b) \in {1, 2}
      BY <2>1, <2>2, <2>7
    <3>2. r < q => Prog(q, b) = 0
      BY <2>1, <2>5, <2>7
    <3>3. q < r => Prog(r, b) = 0
      BY <2>1, <2>5, <2>7
    <3> QED BY <2>1, <3>1, <3>2, <3>3
  <2>8. CASE r # 0 /\ Reading(q, b)
    <3>1. Prog(r, b) \in {1, 2} /\ Prog(Last, b) = 5
      BY <2>1, <2>2, <2>4, <2>8
    <3>2. r < Last => Prog(Last, b) = 0
      BY <2>1, <2>5, <2>8
    <3> QED BY <3>1, <3>2
  <2> QED BY <2>1, <2>6, <2>7, <2>8
<1> QED BY <1>1, Invariance, PTL

-----------------------------------------------------------------------------
(* Refinement of the all-reduce. *)

(* A step that neither starts nor ends a call is invisible. *)
LEMMA Invisible ==
  ASSUME call' = call,
         \A q \in Rank : pc'[q] = "idle" <=> pc[q] = "idle",
         \A q \in Rank : pc[q] = "idle" => recv'[q] = recv[q]
  PROVE  UNCHANGED AR!vars
<1>1. \A q \in Rank : Completed(q)' = Completed(q)
  BY DEF Completed
<1>2. \A q \in Rank : Result(q)' = Result(q)
  BY DEF Result
<1>3. [q \in Rank |-> Completed(q)]' = [q \in Rank |-> Completed(q)]
  BY <1>1
<1>4. [q \in Rank |-> Result(q)]' = [q \in Rank |-> Result(q)]
  BY <1>2
<1> QED BY <1>3, <1>4 DEF AR!vars

(* When a rank has copied out, every rank has made the call. *)
LEMMA AllCalled ==
  ASSUME IInv, NEW r \in Rank, ~Left(r), pc[r] # "idle", pc[Last] \in PastAdd, NEW q \in Rank
  PROVE  call[r] = Round + 1 /\ call[q] >= call[r]
<1> USE RankFacts, SizeFacts DEF IInv
<1>1. call[r] = Round + 1 /\ call[r] \in Calls /\ 0 \in Block /\ InRound(0)
  BY RoundCall
<1>2. call[q] \in Nat /\ call[r] \in Nat
  BY DEF TypeOK
<1>3. CASE Left(q)
  BY <1>1, <1>2, <1>3, CompletedFacts DEF Left
<1>4. CASE ~Left(q)
  <2>1. RootArrived
    BY CompletedFacts DEF InvGate, PastAdd
  <2>2. Prog(Last, 0) = 5
    BY DEF Prog
  <2>3. q # 0 => Prog(q, 0) = 5
    BY <1>1, <2>2 DEF InvChain
  <2>4. pc[q] # "idle"
    BY <1>4, <2>1, <2>3 DEF RootArrived, Prog, PastAdd
  <2> QED BY <1>1, <1>2, <1>4, <2>4, RoundCall
<1> QED BY <1>1, <1>3, <1>4

(* A rank that returns does so with the sum, after every rank has called. *)
LEMMA Returns ==
  ASSUME IInv, IInv', NEW r \in Rank, ~Left(r), pc[r] # "idle", pc[Last] \in PastAdd,
         pc' = [pc EXCEPT ![r] = "idle"], call' = call, recv' = recv
  PROVE  AR!Return(r)
<1> USE RankFacts, SizeFacts DEF IInv
<1>1. call[r] = Round + 1 /\ call[r] \in Calls /\ call[r] \in Nat /\ call[r] > 0
  BY RoundCall DEF Calls
<1>2. Completed(r) = call[r] - 1 /\ Completed(r)' = call[r]
  BY DEF Completed, TypeOK
<1>3. \A q \in Rank : call[q] >= call[r]
  BY AllCalled
<1>4. \A q \in Rank \ {r} : Completed(q)' = Completed(q) /\ Result(q)' = Result(q)
  BY DEF Completed, Result, TypeOK
<1>5. Result(r)' = [b \in Active(call[r]) |-> SumUpTo(call[r], Last)]
  <2>1. pc'[r] = "idle" /\ call'[r] > 0
    BY <1>1 DEF TypeOK
  <2>2. \A b \in Active(call[r]) : recv'[r][b] = SumUpTo(call[r], Last)
    BY <2>1 DEF ReductionCorrect
  <2>3. Result(r)' = [b \in Active(call[r]) |-> recv'[r][b]]
    BY <2>1 DEF Result
  <2> QED BY <2>2, <2>3
<1>6. [q \in Rank |-> Completed(q)]' = [[q \in Rank |-> Completed(q)] EXCEPT ![r] = @ + 1]
  <2>1. Completed(r)' = [q \in Rank |-> Completed(q)][r] + 1
    BY <1>1, <1>2
  <2> DEFINE done == [q \in Rank |-> Completed(q)]
  <2>2. \A q \in Rank : Completed(q)' = IF q = r THEN done[r] + 1 ELSE done[q]
    BY <1>4, <2>1
  <2> QED BY <2>2
<1>7. [q \in Rank |-> Result(q)]'
        = [[q \in Rank |-> Result(q)] EXCEPT ![r] = [b \in Active(call[r]) |-> SumUpTo(call[r], Last)]]
  BY <1>4, <1>5
<1>8. [k \in Calls |-> [b \in Active(k) |-> SumUpTo(k, Last)]][call[r]]
        = [b \in Active(call[r]) |-> SumUpTo(call[r], Last)]
  BY <1>1
<1> QED BY <1>1, <1>2, <1>3, <1>6, <1>7, <1>8 DEF AR!Return

LEMMA Begins ==
  ASSUME IInv, NEW r \in Rank, Call(r)
  PROVE  AR!Call(r)
<1> USE RankFacts, SizeFacts DEF IInv
<1>1. pc[r] = "idle" /\ pc'[r] # "idle" /\ call'[r] = call[r] + 1 /\ call[r] \in Nat
  BY DEF Call, Entry, TypeOK
<1>2. Completed(r) = call[r] /\ Completed(r)' = Completed(r)
  BY <1>1 DEF Completed
<1>3. \A q \in Rank \ {r} : Completed(q)' = Completed(q) /\ Result(q)' = Result(q)
  BY DEF Call, Completed, Result, TypeOK
<1>4. Result(r)' = <<>>
  BY <1>1 DEF Result
<1>5. [q \in Rank |-> Completed(q)]' = [q \in Rank |-> Completed(q)]
  BY <1>2, <1>3
<1>6. [q \in Rank |-> Result(q)]' = [[q \in Rank |-> Result(q)] EXCEPT ![r] = <<>>]
  BY <1>3, <1>4
<1> QED BY <1>2, <1>5, <1>6 DEF AR!Call, Call

(* For any number of ranks, calls, blocks and threads, and as long as no   *)
(* mapping grows under a running call, ShmReduction::reduceAdd is an       *)
(* all-reduce: no rank returns before every rank has called, and each      *)
(* return delivers the sum of that call's contributions.                   *)
THEOREM Refinement ==
  ASSUME ResizesSynced
  PROVE  Spec => ImplementsAllReduce
<1> USE RankFacts
<1>1. Init => AR!Init
  <2> SUFFICES ASSUME Init PROVE AR!Init
    OBVIOUS
  <2>1. \A r \in Rank : Completed(r) = 0 /\ Result(r) = <<>>
    BY DEF Init, Completed, Result
  <2> QED BY <2>1 DEF Init, AR!Init
<1>2. ASSUME IInv, IInv', [Next]_vars PROVE [AR!Next]_(AR!vars)
  <2>1. CASE UNCHANGED vars
    BY <2>1, Invisible DEF vars
  <2>2. ASSUME NEW r \in Rank, Call(r) PROVE AR!Next
    BY <1>2, <2>2, Begins DEF AR!Next
  <2>3. ASSUME NEW r \in Rank, Leave(r) PROVE AR!Next
    <3>1. ~Left(r) /\ pc[r] # "idle" /\ pc[Last] \in PastAdd
      BY <1>2, <2>3 DEF Leave, IInv, InvLeft, InvOut
    <3> QED BY <1>2, <2>3, <3>1, Returns DEF Leave, AR!Next
  <2>4. ASSUME NEW r \in Rank, Reset(r), wi[r] = Last PROVE AR!Next
    <3>1. ~Left(r) /\ pc[r] # "idle" /\ pc[Last] \in PastAdd
      BY <1>2, <2>4 DEF Reset, IInv, InvLeft, TypeOK, PastAdd
    <3> QED BY <1>2, <2>4, <3>1, Returns DEF Reset, AR!Next
  <2>5. ASSUME NEW r \in Rank, Reset(r), wi[r] # Last PROVE UNCHANGED AR!vars
    BY <1>2, <2>5, Invisible DEF Reset, IInv, TypeOK
  <2>6. ASSUME NEW r \in Rank, Resize(r) \/ Clear(r) \/ WaitZero(r) \/ ArriveRoot(r)
        PROVE  UNCHANGED AR!vars
    BY <1>2, <2>6, Invisible DEF Resize, Clear, WaitZero, ArriveRoot, IInv, TypeOK
  <2>7. ASSUME NEW r \in Rank, WaitOwn(r) \/ WaitRoot(r) \/ Arrive(r) \/ Added(r)
        PROVE  UNCHANGED AR!vars
    BY <1>2, <2>7, Invisible DEF WaitOwn, WaitRoot, Arrive, Added, IInv, TypeOK
  <2>8. ASSUME NEW r \in Rank, WaitLast(r) \/ StartWaitLeft(r) \/ WaitLeft(r)
        PROVE  UNCHANGED AR!vars
    BY <1>2, <2>8, Invisible DEF WaitLast, StartWaitLeft, WaitLeft, IInv, TypeOK
  <2>9. ASSUME NEW r \in Rank, NEW b \in Block, BlockStep(r, b) PROVE UNCHANGED AR!vars
    <3>1. call' = call /\ pc' = pc
      BY <2>9 DEF BlockStep, CopyIn, CopyOut, BlockWait, BlockLoad, BlockStore, BlockClear, BlockSet
    <3>2. recv' = recv \/ (pc[r] # "idle" /\ recv' = [recv EXCEPT ![r][b] = address[b]])
      BY <2>9 DEF BlockStep, CopyIn, CopyOut, BlockWait, BlockLoad, BlockStore, BlockClear, BlockSet
    <3>3. \A q \in Rank : pc[q] = "idle" => recv'[q] = recv[q]
      BY <1>2, <3>2 DEF IInv, TypeOK
    <3> QED BY <3>1, <3>3, Invisible
  <2> QED BY <1>2, <2>1, <2>2, <2>3, <2>4, <2>5, <2>6, <2>7, <2>8, <2>9 DEF Next, RankStep
<1> QED BY <1>1, <1>2, Invariance, PTL DEF Spec, ImplementsAllReduce, AR!Spec

=============================================================================
