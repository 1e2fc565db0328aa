-------------------------- MODULE MCKVCacheTensor --------------------------
(* Instances of KVCacheTensor for TLC. *)
EXTENDS KVCacheTensor

(* Every row of the cache is different; rows and scales are told apart by  *)
(* their line and beam.                                                    *)
MCRow  == (Line \cup {0}) \X Beam
MCGarbage == {<<0, 0>>}
MCOrig == [l \in Line |-> [b \in Beam |-> <<l, b>>]]

(* Every scale is different. *)
MCScales == [k \in 0 .. BatchSize * HeadNum * MaxSeqLen - 1 |-> k]

(* Rows that differ differ in their first eight bytes. *)
MCHeads  == [x \in MCRow |-> x]
=============================================================================
