---------------------------- MODULE ShmReduction ----------------------------
(***************************************************************************)
(* The shared-memory all-reduce of src/utils/shm_reduction.{h,cpp}.        *)
(*                                                                         *)
(* N processes (ranks) of one tensor-parallel group map the same memory:   *)
(* one state word per rank, one flag byte per (block, rank) and the data   *)
(* area.  Every synchronisation is a spin on one of those words.  Rank 0   *)
(* copies its buffer in; the ranks 1, 2, ... add theirs block by block,    *)
(* each block handed from rank r-1 to rank r through a flag byte; every    *)
(* rank copies the sum out; the last rank returns the words to 0.          *)
(*                                                                         *)
(* Shared memory is read and written one word, or one block, per step, so  *)
(* every interleaving of the ranks (and of the OpenMP threads of a rank,   *)
(* which work on different blocks) is a behaviour.  A block of the data    *)
(* area is the sequence of the contributions added into it: floating-point *)
(* addition is not associative, so the order is part of the result.        *)
(* Memory is sequentially consistent; x86 may delay a store, but every     *)
(* hand-over here is a data store followed by a flag store, whose order    *)
(* x86 keeps.                                                              *)
(***************************************************************************)
EXTENDS Integers, Sequences

CONSTANTS
  N,          \* rankSize
  MaxCalls,   \* bound: number of reduceAdd calls each rank makes
  MaxBlocks,  \* bound: largest buffer, in blocks of SHM_BLOCK_SIZE elements
  BlocksOf,   \* BlocksOf[k]: size of the buffer of call k, in blocks
  InitBlocks, \* MAX_SHM_SIZE: what the mapping holds at first, in blocks
  Synced,     \* calls before which the ranks run a collective that waits for all
  ChunkStart  \* ChunkStart[r]: the first blocks of the chunks of rank r's threads

Rank  == 0 .. N-1
Last  == N-1
Calls == 1 .. MaxCalls
Block == 0 .. MaxBlocks-1

(* Blocks of the buffer of call k. *)
Active(k) == 0 .. BlocksOf[k]-1

ASSUME NAssumption == N \in Nat /\ N >= 2
ASSUME SizeAssumption ==
  /\ MaxCalls \in Nat
  /\ MaxBlocks \in Nat \ {0}
  /\ InitBlocks \in 1 .. MaxBlocks
  /\ BlocksOf \in [Calls -> 1 .. MaxBlocks]
ASSUME SyncedAssumption == Synced \subseteq Calls
ASSUME ChunkAssumption ==
  /\ ChunkStart \in [Rank -> SUBSET Block]
  /\ \A r \in Rank : 0 \in ChunkStart[r]

(* A contribution: what rank r added in its call k. *)
Contribution(r, k) == [rank |-> r, call |-> k]

(* Contributions of the ranks 0..r in call k, in rank order. *)
SumUpTo(k, r) == [i \in 1 .. r+1 |-> Contribution(i-1, k)]

VARIABLES
  pc,         \* pc[r]: where rank r is in Messenger::reduceAdd / ShmReduction::reduceAdd
  call,       \* call[r]: calls rank r has started
  wi,         \* wi[r]: index of rank r's loop over the state words
  cap,        \* cap[r]: shmCtx_.nbytes of rank r, in blocks
  bstep,      \* bstep[r][b]: progress of rank r's thread on block b (0 .. 5)
  reg,        \* reg[r][b]: block b as loaded by rank r's thread
  copied,     \* copied[r]: blocks multiThreadCopy has copied
  recv,       \* recv[r]: recvBuf, per block
  state,      \* shared: state words
  blockState, \* shared: blockState[b][r] flag bytes
  address     \* shared: data area, per block

locals == <<pc, call, wi, cap, bstep, reg, copied, recv>>
shared == <<state, blockState, address>>
vars   == <<pc, call, wi, cap, bstep, reg, copied, recv, state, blockState, address>>

(* Calls rank r has returned from. *)
Completed(r) == IF pc[r] = "idle" THEN call[r] ELSE call[r] - 1

(* First program point of ShmReduction::reduceAdd. *)
Entry(r) == IF r = 0 THEN "waitZero" ELSE "waitOwn"

-----------------------------------------------------------------------------
(* ShmReduction::ShmReduction: rank 0 creates and zeroes the memory before *)
(* the broadcast of its file descriptor lets the others map it.            *)
Init ==
  /\ pc = [r \in Rank |-> "idle"]
  /\ call = [r \in Rank |-> 0]
  /\ wi = [r \in Rank |-> 0]
  /\ cap = [r \in Rank |-> InitBlocks]
  /\ bstep = [r \in Rank |-> [b \in Block |-> 0]]
  /\ reg = [r \in Rank |-> [b \in Block |-> <<>>]]
  /\ copied = [r \in Rank |-> {}]
  /\ recv = [r \in Rank |-> [b \in Block |-> <<>>]]
  /\ state = [r \in Rank |-> 0]
  /\ blockState = [b \in Block |-> [r \in Rank |-> 0]]
  /\ address = [b \in Block |-> <<>>]

(* Messenger::reduceAdd, tuned path: a buffer larger than the mapping      *)
(* makes the rank resize it first.  When call k is in Synced the caller    *)
(* has run a collective since call k-1 (the allgatherv of the searcher).   *)
Call(r) ==
  /\ pc[r] = "idle"
  /\ call[r] < MaxCalls
  /\ call[r] + 1 \in Synced => \A q \in Rank : Completed(q) >= call[r]
  /\ call' = [call EXCEPT ![r] = @ + 1]
  /\ pc' = [pc EXCEPT ![r] = IF BlocksOf[call[r] + 1] > cap[r] THEN "resize" ELSE Entry(r)]
  /\ wi' = [wi EXCEPT ![r] = 1]
  /\ UNCHANGED <<cap, bstep, reg, copied, recv, state, blockState, address>>

(* ShmResize up to the mmap.  The flag bytes of the added blocks lie where *)
(* data was, so they hold anything until rank 0 clears them.               *)
Resize(r) ==
  /\ pc[r] = "resize"
  /\ cap' = [cap EXCEPT ![r] = BlocksOf[call[r]]]
  /\ pc' = [pc EXCEPT ![r] = IF r = 0 THEN "clear" ELSE "waitOwn"]
  /\ \/ r = 0 /\ blockState' \in [Block -> [Rank -> {0, 1}]]
              /\ \A b \in 0 .. cap[0]-1 : blockState'[b] = blockState[b]
     \/ r # 0 /\ UNCHANGED blockState
  /\ UNCHANGED <<call, wi, bstep, reg, copied, recv, state, address>>

(* ShmResize, rank 0: the two memsets.  The larger flag area covers bytes  *)
(* of the old data area and shifts the new one: no block holds a sum.      *)
Clear(r) ==
  /\ pc[r] = "clear"
  /\ state' = [q \in Rank |-> 0]
  /\ blockState' = [b \in Block |-> IF b < cap[r] THEN [q \in Rank |-> 0] ELSE blockState[b]]
  /\ address' = [b \in Block |-> <<>>]
  /\ pc' = [pc EXCEPT ![r] = "waitZero"]
  /\ UNCHANGED <<call, wi, cap, bstep, reg, copied, recv>>

(* Variants of WaitZero, for mutation: one word too many; no wait at all. *)
WaitZeroTooFar(r) ==
  /\ pc[r] = "waitZero"
  /\ state[wi[r]] = 0
  /\ wi' = [wi EXCEPT ![r] = @ + 1]
  /\ pc' = [pc EXCEPT ![r] = IF wi[r] = Last + 1 THEN "copyIn" ELSE "waitZero"]
  /\ UNCHANGED <<call, cap, bstep, reg, copied, recv, state, blockState, address>>

WaitZeroSkipped(r) ==
  /\ pc[r] = "waitZero"
  /\ wi' = [wi EXCEPT ![r] = Last + 1]
  /\ pc' = [pc EXCEPT ![r] = "copyIn"]
  /\ UNCHANGED <<call, cap, bstep, reg, copied, recv, state, blockState, address>>

(* Rank 0 spins on the words of ranks 1 .. N-1 in turn. *)
WaitZero(r) ==
  /\ pc[r] = "waitZero"
  /\ state[wi[r]] = 0
  /\ wi' = [wi EXCEPT ![r] = @ + 1]
  /\ pc' = [pc EXCEPT ![r] = IF wi[r] = Last THEN "copyIn" ELSE "waitZero"]
  /\ UNCHANGED <<call, cap, bstep, reg, copied, recv, state, blockState, address>>

(* Rank 0: multiThreadCopy of sendBuf into the data area. *)
CopyIn(r, b) ==
  /\ pc[r] = "copyIn"
  /\ b \in Active(call[r]) \ copied[r]
  /\ address' = [address EXCEPT ![b] = SumUpTo(call[r], 0)]
  /\ copied' = [copied EXCEPT ![r] = @ \cup {b}]
  /\ UNCHANGED <<pc, call, wi, cap, bstep, reg, recv, state, blockState>>

(* Rank 0: state[0] = 1, which lets the others start. *)
ArriveRoot(r) ==
  /\ pc[r] = "copyIn"
  /\ copied[r] = Active(call[r])
  /\ state' = [state EXCEPT ![r] = 1]
  /\ copied' = [copied EXCEPT ![r] = {}]
  /\ pc' = [pc EXCEPT ![r] = "waitLast"]
  /\ UNCHANGED <<call, wi, cap, bstep, reg, recv, blockState, address>>

(* Ranks other than 0 spin on their own word, then on the word of rank 0. *)
WaitOwn(r) ==
  /\ pc[r] = "waitOwn"
  /\ state[r] = 0
  /\ pc' = [pc EXCEPT ![r] = "waitRoot"]
  /\ UNCHANGED <<call, wi, cap, bstep, reg, copied, recv, state, blockState, address>>

WaitRoot(r) ==
  /\ pc[r] = "waitRoot"
  /\ state[0] = 1
  /\ pc' = [pc EXCEPT ![r] = "arrive"]
  /\ UNCHANGED <<call, wi, cap, bstep, reg, copied, recv, state, blockState, address>>

Arrive(r) ==
  /\ pc[r] = "arrive"
  /\ state' = [state EXCEPT ![r] = 1]
  /\ bstep' = [bstep EXCEPT ![r] = [b \in Block |-> 0]]
  /\ pc' = [pc EXCEPT ![r] = "add"]
  /\ UNCHANGED <<call, wi, cap, reg, copied, recv, blockState, address>>

-----------------------------------------------------------------------------
(* The body of the OpenMP loop over blocks, ranks other than 0.  A thread  *)
(* takes the blocks of its chunk in order.                                 *)
Started(r, b) == b \notin ChunkStart[r] => bstep[r][b-1] = 5

(* Variant of BlockWait, for mutation: the flag is not waited for. *)
BlockWaitSkipped(r, b) ==
  /\ pc[r] = "add"
  /\ b \in Active(call[r])
  /\ bstep[r][b] = 0
  /\ Started(r, b)
  /\ bstep' = [bstep EXCEPT ![r][b] = 1]
  /\ UNCHANGED <<pc, call, wi, cap, reg, copied, recv, state, blockState, address>>

(* wait_block_until on the flag of the previous rank (not for rank 1). *)
BlockWait(r, b) ==
  /\ pc[r] = "add"
  /\ b \in Active(call[r])
  /\ bstep[r][b] = 0
  /\ Started(r, b)
  /\ r # 1 => blockState[b][r-1] = 1
  /\ bstep' = [bstep EXCEPT ![r][b] = 1]
  /\ UNCHANGED <<pc, call, wi, cap, reg, copied, recv, state, blockState, address>>

BlockLoad(r, b) ==
  /\ pc[r] = "add"
  /\ b \in Active(call[r])
  /\ bstep[r][b] = 1
  /\ reg' = [reg EXCEPT ![r][b] = address[b]]
  /\ bstep' = [bstep EXCEPT ![r][b] = 2]
  /\ UNCHANGED <<pc, call, wi, cap, copied, recv, state, blockState, address>>

BlockStore(r, b) ==
  /\ pc[r] = "add"
  /\ b \in Active(call[r])
  /\ bstep[r][b] = 2
  /\ address' = [address EXCEPT ![b] = Append(reg[r][b], Contribution(r, call[r]))]
  /\ bstep' = [bstep EXCEPT ![r][b] = 3]
  /\ UNCHANGED <<pc, call, wi, cap, reg, copied, recv, state, blockState>>

BlockClear(r, b) ==
  /\ pc[r] = "add"
  /\ b \in Active(call[r])
  /\ bstep[r][b] = 3
  /\ blockState' = [blockState EXCEPT ![b][r-1] = 0]
  /\ bstep' = [bstep EXCEPT ![r][b] = 4]
  /\ UNCHANGED <<pc, call, wi, cap, reg, copied, recv, state, address>>

BlockSet(r, b) ==
  /\ pc[r] = "add"
  /\ b \in Active(call[r])
  /\ bstep[r][b] = 4
  /\ blockState' = [blockState EXCEPT ![b][r] = 1]
  /\ bstep' = [bstep EXCEPT ![r][b] = 5]
  /\ UNCHANGED <<pc, call, wi, cap, reg, copied, recv, state, address>>

(* The implicit barrier at the end of the loop, then state[rank] = 2. *)
Added(r) ==
  /\ pc[r] = "add"
  /\ \A b \in Active(call[r]) : bstep[r][b] = 5
  /\ state' = [state EXCEPT ![r] = 2]
  /\ pc' = [pc EXCEPT ![r] = "waitLast"]
  /\ UNCHANGED <<call, wi, cap, bstep, reg, copied, recv, blockState, address>>

-----------------------------------------------------------------------------
(* Variant of WaitLast, for mutation: waits for the arrival of the last    *)
(* rank only.                                                              *)
WaitLastArrived(r) ==
  /\ pc[r] = "waitLast"
  /\ state[Last] \in {1, 2}
  /\ pc' = [pc EXCEPT ![r] = "copyOut"]
  /\ UNCHANGED <<call, wi, cap, bstep, reg, copied, recv, state, blockState, address>>

(* Every rank spins until the last rank has added, then copies out. *)
WaitLast(r) ==
  /\ pc[r] = "waitLast"
  /\ state[Last] = 2
  /\ pc' = [pc EXCEPT ![r] = "copyOut"]
  /\ UNCHANGED <<call, wi, cap, bstep, reg, copied, recv, state, blockState, address>>

CopyOut(r, b) ==
  /\ pc[r] = "copyOut"
  /\ b \in Active(call[r]) \ copied[r]
  /\ recv' = [recv EXCEPT ![r][b] = address[b]]
  /\ copied' = [copied EXCEPT ![r] = @ \cup {b}]
  /\ UNCHANGED <<pc, call, wi, cap, bstep, reg, state, blockState, address>>

(* state[rank] = 3 and return, ranks other than the last. *)
Leave(r) ==
  /\ pc[r] = "copyOut"
  /\ r # Last
  /\ copied[r] = Active(call[r])
  /\ state' = [state EXCEPT ![r] = 3]
  /\ copied' = [copied EXCEPT ![r] = {}]
  /\ pc' = [pc EXCEPT ![r] = "idle"]
  /\ UNCHANGED <<call, wi, cap, bstep, reg, recv, blockState, address>>

(* The last rank spins on the words of the others in turn ... *)
StartWaitLeft(r) ==
  /\ pc[r] = "copyOut"
  /\ r = Last
  /\ copied[r] = Active(call[r])
  /\ copied' = [copied EXCEPT ![r] = {}]
  /\ wi' = [wi EXCEPT ![r] = 0]
  /\ pc' = [pc EXCEPT ![r] = "waitLeft"]
  /\ UNCHANGED <<call, cap, bstep, reg, recv, state, blockState, address>>

WaitLeft(r) ==
  /\ pc[r] = "waitLeft"
  /\ state[wi[r]] = 3
  /\ pc' = [pc EXCEPT ![r] = IF wi[r] = Last - 1 THEN "reset" ELSE "waitLeft"]
  /\ wi' = [wi EXCEPT ![r] = IF wi[r] = Last - 1 THEN 0 ELSE @ + 1]
  /\ UNCHANGED <<call, cap, bstep, reg, copied, recv, state, blockState, address>>

(* Variant of Reset, for mutation: the last word is not returned to 0. *)
ResetTooShort(r) ==
  /\ pc[r] = "reset"
  /\ state' = [state EXCEPT ![wi[r]] = 0]
  /\ wi' = [wi EXCEPT ![r] = @ + 1]
  /\ pc' = [pc EXCEPT ![r] = IF wi[r] = Last - 1 THEN "idle" ELSE "reset"]
  /\ UNCHANGED <<call, cap, bstep, reg, copied, recv, blockState, address>>

(* ... and then returns all words to 0, one by one. *)
Reset(r) ==
  /\ pc[r] = "reset"
  /\ state' = [state EXCEPT ![wi[r]] = 0]
  /\ wi' = [wi EXCEPT ![r] = @ + 1]
  /\ pc' = [pc EXCEPT ![r] = IF wi[r] = Last THEN "idle" ELSE "reset"]
  /\ UNCHANGED <<call, cap, bstep, reg, copied, recv, blockState, address>>

-----------------------------------------------------------------------------
BlockStep(r, b) ==
  \/ CopyIn(r, b) \/ CopyOut(r, b)
  \/ BlockWait(r, b) \/ BlockLoad(r, b) \/ BlockStore(r, b)
  \/ BlockClear(r, b) \/ BlockSet(r, b)

RankStep(r) ==
  \/ Call(r) \/ Resize(r) \/ Clear(r)
  \/ WaitZero(r) \/ ArriveRoot(r) \/ WaitOwn(r) \/ WaitRoot(r) \/ Arrive(r)
  \/ Added(r) \/ WaitLast(r) \/ Leave(r)
  \/ StartWaitLeft(r) \/ WaitLeft(r) \/ Reset(r)
  \/ \E b \in Block : BlockStep(r, b)

Next == \E r \in Rank : RankStep(r)

Spec == Init /\ [][Next]_vars

(* Every rank is a running process, every block of a rank is some thread's *)
(* work: neither stops for ever while it can move.                         *)
Fairness ==
  \A r \in Rank : WF_vars(RankStep(r)) /\ \A b \in Block : WF_vars(BlockStep(r, b))

FairSpec == Spec /\ Fairness

-----------------------------------------------------------------------------
PC == {"idle", "resize", "clear", "waitZero", "copyIn", "waitOwn", "waitRoot",
       "arrive", "add", "waitLast", "copyOut", "waitLeft", "reset"}

(* Values a data block can hold: sums of contributions. *)
Sums == Seq([rank : Rank, call : Calls])

(* Every variable has its type; only rank 0 runs the code of rank 0, only  *)
(* the last rank the code that resets the words.                           *)
TypeOK ==
  /\ pc \in [Rank -> PC]
  /\ call \in [Rank -> 0 .. MaxCalls]
  /\ wi \in [Rank -> 0 .. N]
  /\ cap \in [Rank -> 1 .. MaxBlocks]
  /\ bstep \in [Rank -> [Block -> 0 .. 5]]
  /\ reg \in [Rank -> [Block -> Sums]]
  /\ copied \in [Rank -> SUBSET Block]
  /\ recv \in [Rank -> [Block -> Sums]]
  /\ state \in [Rank -> 0 .. 3]
  /\ blockState \in [Block -> [Rank -> 0 .. 1]]
  /\ address \in [Block -> Sums]
  /\ \A r \in Rank :
       /\ pc[r] \in {"clear", "waitZero", "copyIn"} => r = 0
       /\ pc[r] \in {"waitOwn", "waitRoot", "arrive", "add"} => r # 0
       /\ pc[r] \in {"waitLeft", "reset"} => r = Last
       /\ pc[r] \in {"resize", "clear", "waitZero"} => wi[r] \in 1 .. Last
       /\ pc[r] = "waitLeft" => wi[r] \in 0 .. Last-1
       /\ pc[r] = "reset" => wi[r] \in 0 .. Last
       /\ pc[r] # "idle" => call[r] >= 1

(* What reduceAdd is for: when it has returned, the receive buffer of the  *)
(* rank holds, in every block, the contributions of all ranks to this very *)
(* call, each once and in rank order, whatever the other ranks have gone   *)
(* on to do meanwhile (shm_reduction.cpp:130-144).                         *)
ReductionCorrect ==
  \A r \in Rank :
    (pc[r] = "idle" /\ call[r] > 0) =>
      \A b \in Active(call[r]) : recv[r][b] = SumUpTo(call[r], Last)

(* Rank r may be writing, or reading out, block b of the data area. *)
Writing(r, b) ==
  \/ pc[r] = "copyIn" /\ b \in Active(call[r]) \ copied[r]
  \/ pc[r] = "add" /\ b \in Active(call[r]) /\ bstep[r][b] \in {1, 2}
Reading(r, b) ==
  pc[r] = "copyOut" /\ b \in Active(call[r]) \ copied[r]

(* The accesses to the data area are plain memory copies and vector loads  *)
(* and stores: the flags must keep a writer of a block apart from every    *)
(* other writer and reader of it (shm_reduction.cpp:97, 113-125, 132).     *)
RaceFree ==
  \A b \in Block : \A r \in Rank : \A q \in Rank \ {r} :
    Writing(r, b) => ~Writing(q, b) /\ ~Reading(q, b)

(* The receive buffer of a rank between calls. *)
Result(r) ==
  IF pc[r] = "idle" /\ call[r] > 0 THEN [b \in Active(call[r]) |-> recv[r][b]] ELSE <<>>

AR == INSTANCE AllReduce WITH
        begun    <- call,
        finished <- [r \in Rank |-> Completed(r)],
        result   <- [r \in Rank |-> Result(r)],
        Answer   <- [k \in Calls |-> [b \in Active(k) |-> SumUpTo(k, Last)]]

(* reduceAdd implements the all-reduce: it returns only after every rank   *)
(* has made the call, with the same sum everywhere.                        *)
ImplementsAllReduce == AR!Spec

(* No spin loop spins for ever: every rank returns from every call.        *)
AllCallsReturn == <>[](\A r \in Rank : pc[r] = "idle" /\ call[r] = MaxCalls)

(* A call that makes rank 0 enlarge the mapping is preceded by a           *)
(* collective that every rank enters after its previous call.              *)
ResizesSynced ==
  \A k \in Calls :
    (BlocksOf[k] > InitBlocks /\ \A j \in 1 .. k-1 : BlocksOf[j] < BlocksOf[k])
      => k \in Synced
-----------------------------------------------------------------------------
(* The inductive invariant.  The last rank is the last to return from a    *)
(* call, so the calls it has returned from number the protocol's rounds:   *)
(* all ranks are in round Round + 1, or have already left it.              *)
Round == Completed(Last)
Left(r) == Completed(r) = Round + 1

PastAdd == {"waitLast", "copyOut", "waitLeft", "reset"}

(* Rank 0 has published its buffer in this round. *)
RootArrived == Left(0) \/ pc[0] \in {"waitLast", "copyOut"}

(* How far rank r is with block b in this round: 0 .. 5. *)
Prog(r, b) ==
  IF Left(r) \/ pc[r] \in PastAdd THEN 5
  ELSE IF pc[r] = "add" THEN bstep[r][b] ELSE 0

(* Block b is part of the buffer of this round. *)
InRound(b) == Round < MaxCalls /\ b < BlocksOf[Round + 1]

(* State word of a rank that has not left the round. *)
WordAt(r) ==
  CASE pc[r] = "add" -> 1
    [] pc[r] \in PastAdd -> (IF r = 0 THEN 1 ELSE 2)
    [] OTHER -> 0

(* Ranks are at most one call apart, and the state words say where they are. *)
InvRounds == \A r \in Rank : Completed(r) \in {Round, Round + 1}
InvWords ==
  \A r \in Rank : state[r] =
    IF ~Left(r) THEN WordAt(r)
    ELSE IF pc[Last] = "reset" /\ r < wi[Last] THEN 0 ELSE 3

(* A rank that has left waits for the others before it does anything. *)
InvLeft ==
  \A r \in Rank : Left(r) =>
    /\ pc[r] \in {"idle", "resize", "waitZero", "waitOwn", "waitRoot"}
    /\ pc[r] = "resize" => r # 0
    /\ pc[r] = "waitRoot" => pc[Last] = "reset" /\ r < wi[Last]
    /\ pc[Last] \in PastAdd
InvGate ==
  \A r \in Rank \ {0} :
    ~RootArrived => ~Left(r) /\ pc[r] \in {"idle", "resize", "waitOwn", "waitRoot"}
InvCollect ==
  \A r \in Rank \ {Last} :
    /\ pc[Last] = "reset" => Left(r)
    /\ pc[Last] = "waitLeft" /\ r < wi[Last] => Left(r)

(* Block b passes through the ranks 1, 2, ... in turn. *)
InvChain ==
  \A b \in Block : \A r \in Rank : \A q \in 1 .. r-1 :
    InRound(b) /\ Prog(r, b) >= 1 => Prog(q, b) = 5
InvFlags ==
  pc[0] # "clear" =>
    \A b \in 0 .. cap[0]-1 : \A r \in 1 .. Last-1 :
      blockState[b][r] = IF InRound(b) /\ Prog(r, b) = 5 /\ Prog(r+1, b) < 4 THEN 1 ELSE 0

(* The mapping of rank 0 holds every buffer it has been used for. *)
InvCap ==
  /\ cap[0] >= InitBlocks
  /\ \A k \in Calls : k <= Completed(0) => BlocksOf[k] <= cap[0]
  /\ pc[0] \notin {"idle", "resize"} => BlocksOf[call[0]] <= cap[0]
  /\ pc[0] = "resize" => BlocksOf[call[0]] > cap[0]

(* The data area holds the sum over the ranks that have stored. *)
Stored(r, b) ==
  IF r = 0 THEN RootArrived \/ (pc[0] = "copyIn" /\ b \in copied[0])
  ELSE Prog(r, b) >= 3
InvData ==
  \A b \in Block : \A r \in Rank :
    (InRound(b) /\ Stored(r, b) /\ (r < Last => ~Stored(r+1, b)))
      => address[b] = SumUpTo(Round + 1, r)
InvReg ==
  \A b \in Block : \A r \in Rank \ {0} :
    (InRound(b) /\ pc[r] = "add" /\ bstep[r][b] = 2) => reg[r][b] = SumUpTo(Round + 1, r-1)

(* What a rank has copied out is the sum over all ranks. *)
InvOut ==
  /\ \A r \in Rank : pc[r] = "copyOut" => pc[Last] \in PastAdd
  /\ \A r \in Rank : pc[r] \notin {"copyIn", "copyOut"} => copied[r] = {}
  /\ \A r \in Rank : pc[r] = "copyOut" =>
       \A b \in copied[r] : recv[r][b] = SumUpTo(call[r], Last)
  /\ \A r \in Rank : pc[r] \in {"waitLeft", "reset"} =>
       \A b \in Active(call[r]) : recv[r][b] = SumUpTo(call[r], Last)

(* The invariant that the step argument needs. *)
IInv ==
  /\ TypeOK
  /\ InvRounds /\ InvWords /\ InvLeft /\ InvGate /\ InvCollect
  /\ InvChain /\ InvFlags /\ InvCap /\ InvData /\ InvReg /\ InvOut
  /\ ReductionCorrect
=============================================================================
