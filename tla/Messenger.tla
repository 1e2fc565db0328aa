------------------------------ MODULE Messenger ------------------------------
(***************************************************************************)
(* The ranks of a group and the collective calls they make                 *)
(* (src/utils/messenger.h, src/comm_helper/comm_helper.cpp): the k-th call *)
(* of a rank meets the k-th call of every other rank, whatever it is.      *)
(* reduceAdd is several such calls: the first time a size is seen both     *)
(* ways to add, shared memory and oneCCL, are timed on a buffer of its     *)
(* own, rank 0 decides and tells the others, and every rank remembers.     *)
(*                                                                         *)
(* A call into shared memory is one collective here; that it is one is     *)
(* what ShmReduction shows of the steps inside.  Each rank enlarges its    *)
(* mapping of the memory on its own, without meeting the others; what rank *)
(* 0 wipes when it does can keep ranks in a call for ever.                 *)
(*                                                                         *)
(* An action is the code of one rank from the return of a collective to    *)
(* the next one it enters.                                                 *)
(***************************************************************************)
EXTENDS Integers, Sequences, SequencesExt

CONSTANTS
  Size,       \* ranks of the group
  Modes,      \* [tunedComm, localRanksFlag]: ENABLE_TUNED_COMM, all ranks on one machine
  ShmSize,    \* bytes of shared memory at the start
  CclLimit    \* 1.0e9: larger buffers are not timed with oneCCL

ASSUME MessengerAssumption ==
  /\ Size \in Nat \ {0, 1}  \* a single rank communicates with nobody
  /\ Modes \subseteq [tunedComm : BOOLEAN, localRanksFlag : BOOLEAN]
  /\ ShmSize \in Nat /\ CclLimit \in Nat

VARIABLES
  mode,   \* the environment all ranks were started in
  pc,     \* pc[r]: the code rank r runs when its last collective returns
  calls,  \* calls[r]: collectives rank r entered
  msgr,   \* msgr[r]: the Messenger of rank r and its running reduceAdd
  lost    \* <<r, k>>: the k-th collective of rank r, in shared memory, never returns

Rank == 0 .. Size-1

(* warmup + nruns *)
TuneRuns == 1 + 3

NewMessenger ==
  [shmSize |-> ShmSize, tuned |-> [n \in {} |-> 0],
   count |-> 0, run |-> 0,      \* of the running reduceAdd
   left |-> 0, ret |-> "next"]  \* calls of reduceAdd to come, and what follows the last

MessengerInit ==
  /\ mode \in Modes
  /\ calls = [r \in Rank |-> <<>>]
  /\ msgr = [r \in Rank |-> NewMessenger]
  /\ lost = {}

-----------------------------------------------------------------------------
(* A broadcast is over for rank 0 when it has sent, for the others when    *)
(* rank 0 has; the other collectives need every rank.                      *)
Returned(r) ==
  LET k == Len(calls[r])
      needed == IF k = 0 THEN {} ELSE IF calls[r][k].op = "broadcast" THEN {0} ELSE Rank
  IN <<r, k>> \notin lost /\ \A s \in needed : Len(calls[s]) >= k

(* What the last broadcast left in the buffer of rank r: rank 0's data. *)
Received(r) == calls[0][Len(calls[r])].data

Enter(r, op, count, data) ==
  calls' = [calls EXCEPT ![r] = Append(@, [op |-> op, count |-> count, data |-> data])]

Broadcast(r, data, count) == Enter(r, "broadcast", count, data)

At(r, label) == pc[r] = label /\ Returned(r)
Goto(r, label) == pc' = [pc EXCEPT ![r] = label]

-----------------------------------------------------------------------------
(* n calls reduceAdd(buf, buf, count) in a row, then ret. *)
Begun(g, n, count, ret) == [g EXCEPT !.left = n, !.count = count, !.ret = ret, !.run = 0]
BeginReduce(r, n, count, ret) ==
  /\ msgr' = [msgr EXCEPT ![r] = Begun(@, n, count, ret)]
  /\ Goto(r, "reduceAdd")

Tuning == mode.tunedComm /\ mode.localRanksFlag

(* reduceAddBase *)
BaseOp(r) ==
  IF ~mode.localRanksFlag \/ msgr[r].count > msgr[r].shmSize THEN "allreduce" ELSE "shm"

(* The memory of rank r is too small, and it enlarges it. *)
Resizing(r) == At(r, "reduceAdd") /\ Tuning /\ msgr[r].count > msgr[r].shmSize

(* Ranks that may still be inside a sum in shared memory that rank 0 has   *)
(* left: it is the last of a forward, since rank 0 is in another one.      *)
Lingering ==
  {s \in Rank \ {0} : /\ calls[s] # <<>> /\ Last(calls[s]).op = "shm"
                     /\ Len(calls[s]) <= Len(calls[0])
                     /\ pc[s] = msgr[s].ret}

(* What becomes of them when rank 0 sets every state word to 0, by         *)
(* ShmReduction: nothing; or the last rank, which leaves when it has seen  *)
(* the others finish, waits for ever, and so may any that still waits for  *)
(* the last; or the last rank was about to clear the words, clears rank    *)
(* 0's of the next call, and nobody returns from that one.                 *)
Wiped ==
  {{}}
  \cup {{<<s, Len(calls[s])>> : s \in S} : S \in {S \in SUBSET Lingering : Size-1 \in S}}
  \cup (IF Size-1 \in Lingering THEN {Rank \X {Len(calls[0]) + 1}} ELSE {})

(* Variant of Resize, for mutation: the others keep the smaller memory. *)
ResizeMaster(r) ==
  /\ Resizing(r)
  /\ msgr' = [msgr EXCEPT ![r].shmSize = IF r = 0 THEN msgr[r].count ELSE @]
  /\ Goto(r, "resized")
  /\ \E w \in (IF r = 0 THEN Wiped ELSE {{}}) : lost' = lost \cup w
  /\ UNCHANGED <<mode, calls>>

(* ShmResize: each rank maps the same memory anew, for the size it asks    *)
(* for; nobody waits.                                                      *)
Resize(r) ==
  /\ Resizing(r)
  /\ msgr' = [msgr EXCEPT ![r].shmSize = msgr[r].count]
  /\ Goto(r, "resized")
  /\ \E w \in (IF r = 0 THEN Wiped ELSE {{}}) : lost' = lost \cup w
  /\ UNCHANGED <<mode, calls>>

(* The size is or is not too large for the memory rank r has. *)
Fits(r) == pc[r] = "resized" \/ (pc[r] = "reduceAdd" /\ msgr[r].count <= msgr[r].shmSize)

(* Times both ways, on commBuf. *)
Tune(r) ==
  /\ (Tuning /\ Fits(r)) \/ pc[r] = "tune"
  /\ Returned(r)
  /\ msgr[r].count \notin DOMAIN msgr[r].tuned
  /\ LET runs == IF msgr[r].count < CclLimit THEN 2 * TuneRuns ELSE TuneRuns
     IN /\ msgr[r].run < runs
        /\ Enter(r, IF msgr[r].run < TuneRuns THEN "shm" ELSE "allreduce", msgr[r].count, "commBuf")
        /\ msgr' = [msgr EXCEPT ![r].run = @ + 1]
        /\ Goto(r, IF msgr[r].run + 1 < runs THEN "tune" ELSE "timed")
  /\ UNCHANGED <<mode, lost>>

(* 1 (oneCCL) only if it was timed, and found faster by rank 0; the others *)
(* have 0 in their buffer.                                                 *)
CommTypes(r) == IF r = 0 /\ msgr[r].count < CclLimit THEN {0, 1} ELSE {0}

Timed(r) ==
  /\ At(r, "timed")
  /\ \E comm_type \in CommTypes(r) : Broadcast(r, comm_type, 1)
  /\ Goto(r, "typed")
  /\ UNCHANGED <<mode, msgr, lost>>

(* Variant of CommType, for mutation: every rank keeps its own answer. *)
CommTypeOwn(r) == calls[r][Len(calls[r])].data

CommType(r) == Received(r)

Typed(r) ==
  /\ At(r, "typed")
  /\ msgr' = [msgr EXCEPT ![r].tuned =
       [n \in DOMAIN @ \cup {msgr[r].count} |-> IF n = msgr[r].count THEN CommType(r) ELSE @[n]]]
  /\ Goto(r, "tuned")
  /\ UNCHANGED <<mode, calls, lost>>

(* The sum that the caller asked for. *)
Reduce(r) ==
  /\ Returned(r)
  /\ \/ /\ Tuning /\ (Fits(r) \/ pc[r] = "tuned")
        /\ msgr[r].count \in DOMAIN msgr[r].tuned
        /\ Enter(r, IF msgr[r].tuned[msgr[r].count] = 0 THEN "shm" ELSE "allreduce", msgr[r].count, "user")
     \/ /\ ~Tuning /\ pc[r] = "reduceAdd"
        /\ Enter(r, BaseOp(r), msgr[r].count, "user")
  /\ msgr' = [msgr EXCEPT ![r].left = @ - 1, ![r].run = 0]
  /\ Goto(r, IF msgr[r].left = 1 THEN msgr[r].ret ELSE "reduceAdd")
  /\ UNCHANGED <<mode, lost>>

ReduceAdd(r) == Resize(r) \/ Tune(r) \/ Timed(r) \/ Typed(r) \/ Reduce(r)

-----------------------------------------------------------------------------
(* Ranks that meet in a collective make the same one: the same operation   *)
(* on as many elements.  Everything a rank decides on its own (that a size *)
(* is too large or not timed yet, which way is faster, that there are no   *)
(* stop words, that the generation is over) has to come out the same way   *)
(* on the others, or one waits for ever, or receives another's data.       *)
CollectivesMatch ==
  \A r, s \in Rank : \A k \in DOMAIN calls[r] \cap DOMAIN calls[s] :
    calls[r][k].op = calls[s][k].op /\ calls[r][k].count = calls[s][k].count

(* Ranks that meet in shared memory have mapped it alike, and as large as  *)
(* what they add: where the words of the blocks end and the data begins    *)
(* follows from the size a rank has asked for, each on its own.  One that  *)
(* has returned may be ahead with the next size.                           *)
ShmMappedAlike ==
  \A r, s \in Rank :
    (/\ Len(calls[r]) = Len(calls[s]) /\ calls[r] # <<>> /\ Last(calls[r]).op = "shm"
     /\ pc[r] # "resized" /\ pc[s] # "resized") =>
      /\ msgr[r].shmSize = msgr[s].shmSize
      /\ Last(calls[r]).count <= msgr[r].shmSize

(* Rank 0 wipes the state words while another rank may be inside a sum     *)
(* only if that sum is of setPrefix: after the forward of a generation or  *)
(* of a batch the ranks meet in an allgatherv, which nobody leaves before  *)
(* all have left the sums.                                                 *)
WipedOnlyInPrefix == Resizing(0) => \A s \in Lingering : msgr[s].ret = "return"
=============================================================================
