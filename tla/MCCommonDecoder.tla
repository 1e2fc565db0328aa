-------------------------- MODULE MCCommonDecoder --------------------------
(* Instances of CommonDecoder. *)
EXTENDS CommonDecoder

S(bs, beams, len) == [bs |-> bs, beams |-> beams, len |-> len]

(* Rotary models, plain and hybrid, and OptDecoder; no input has fewer     *)
(* tokens than beams.                                                      *)
MCModels == [hybrid : BOOLEAN, learned : BOOLEAN]
MCShapes == {S(1, 1, 1), S(1, 1, 2), S(2, 1, 1), S(2, 1, 2), S(1, 2, 2), S(2, 2, 2)}
MCPrefixes == {<<101>>, <<102, 103>>}
=============================================================================
