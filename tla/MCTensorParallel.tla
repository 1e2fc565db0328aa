-------------------------- MODULE MCTensorParallel --------------------------
(* Instances of TensorParallel for TLC. *)
EXTENDS TensorParallel

Shape(s, a, k, im, std, v, n) ==
  [splits |-> s, attHeadNum |-> a, kvHeadNum |-> k, intermediateSize |-> im, standard |-> std,
   vocabSize |-> v, rows |-> n]

(* Sizes of an intermediate layer for each granularity, some with fewer    *)
(* pieces than ranks, and vocabularies that do and do not divide evenly.   *)
Sizes == {<<384, 6, 1>>, <<320, 7, 2>>, <<80, 5, 3>>, <<22, 9, 2>>, <<7, 4, 2>>, <<128, 11, 1>>}

MCShapes ==
  {Shape(s, a, k, z[1], std, z[2], z[3]) :
     s \in 1 .. 4, a \in {4, 6, 8, 12}, k \in {1, 2, 4, 6}, std \in BOOLEAN, z \in Sizes}
MCAligned ==
  {x \in MCShapes : /\ x.attHeadNum % x.kvHeadNum = 0
                    /\ HeadsAligned(x) /\ ColumnsAligned(x)}
=============================================================================
