------------------------- MODULE MCAttentionKernels -------------------------
(* Instances of AttentionKernels. *)
EXTENDS AttentionKernels

C(batching, heads, groupNum, past, input, scale) ==
  [batching |-> batching, heads |-> heads, groupNum |-> groupNum, past |-> past,
   input |-> input, score |-> <<0, 2, 1, 0, 3>>, scale |-> scale]

(* Sharded heads with as many keys as threads, more, and fewer, and with a *)
(* thread to spare; all heads on their own and in groups; prompts that end *)
(* in a part of a tile.  The keys of sharded heads are not int8.           *)
MCCalls ==
  {C(FALSE, 1, 1, p, 1, <<1>>) : p \in {1, 6}} \cup {C(FALSE, 2, g, 2, 1, <<1>>) : g \in {1, 2}}
  \cup {C(b, h, h, 1, 2, <<1, 0>>) : b \in BOOLEAN, h \in {2, 3}} \cup {C(FALSE, 2, 1, 1, 2, <<1, 0>>)}
  \cup {C(FALSE, 1, 1, 0, n, <<1, 0>>) : n \in {4, 5}}

(* An int8 cache: every key has a scale of its own. *)
MCInt8 == {C(FALSE, 1, 1, 2, 1, <<1, 0, 1>>)}
=============================================================================
