------------------------------ MODULE AllReduce ------------------------------
(***************************************************************************)
(* What a sum all-reduce promises to its callers: every rank makes the     *)
(* same calls in the same order, a call returns only after every rank has  *)
(* made it, and it returns the same answer at every rank.  ShmReduction    *)
(* (src/utils/shm_reduction.cpp) is shown to implement this module.        *)
(***************************************************************************)
EXTENDS Naturals

CONSTANTS Rank,      \* the ranks of one tensor-parallel group
          MaxCalls,  \* bound: how many calls each rank makes
          Answer     \* Answer[k]: the value call k returns at every rank

VARIABLES begun,     \* begun[r]: calls rank r has started
          finished,  \* finished[r]: calls rank r has returned from
          result     \* result[r]: rank r's receive buffer; <<>> while a call is open

vars == <<begun, finished, result>>

Init ==
  /\ begun = [r \in Rank |-> 0]
  /\ finished = [r \in Rank |-> 0]
  /\ result = [r \in Rank |-> <<>>]

Call(r) ==
  /\ begun[r] = finished[r]
  /\ begun[r] < MaxCalls
  /\ begun' = [begun EXCEPT ![r] = @ + 1]
  /\ result' = [result EXCEPT ![r] = <<>>]
  /\ UNCHANGED finished

Return(r) ==
  /\ begun[r] = finished[r] + 1
  /\ \A q \in Rank : begun[q] >= begun[r]
  /\ finished' = [finished EXCEPT ![r] = @ + 1]
  /\ result' = [result EXCEPT ![r] = Answer[begun[r]]]
  /\ UNCHANGED begun

Next == \E r \in Rank : Call(r) \/ Return(r)

Spec == Init /\ [][Next]_vars

=============================================================================
