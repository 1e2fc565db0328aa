--------------------------- MODULE MCShmReduction ---------------------------
(* Instances of ShmReduction for TLC. *)
EXTENDS ShmReduction

(* Sizes of the buffers of the successive calls, in blocks. *)
MCGrow == <<1, 3, 2>>
MCGrowAtOnce == <<1, 2>>

(* Odd ranks split the blocks among two threads, even ranks use one. *)
MCChunks == [r \in Rank |-> IF r % 2 = 1 THEN {0, 1} ELSE {0}]

=============================================================================
