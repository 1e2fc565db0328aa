--------------------------- MODULE MCTokenSearch ---------------------------
(* Instances of TokenSearch for TLC. *)
EXTENDS TokenSearch

Row5(a, b, c, d, e) == [t \in 0 .. 4 |-> <<a, b, c, d, e>>[t + 1]]

(* Every token can win; ties within and across the parts of the ranks;     *)
(* wins that a penalty of 2 undoes.                                        *)
MCLogitRows == {Row5(6, 2, 2, 6, 0), Row5(-2, 4, -4, 2, 2), Row5(0, 2, 6, 4, 4),
                Row5(-4, -2, -2, -2, -6), Row5(2, 4, 4, 0, 8)}

(* Two batches, of one sample and of two. *)
MCInputs == {<< <<1>> >>, << <<1, 2, 1>>, <<4, 1, 2>> >>}

MCConfigs == {[doSample |-> FALSE, maxLen |-> 6], [doSample |-> TRUE, maxLen |-> 5]}

MCStopWords == {<<2, 3>>, <<4>>, <<1, 1, 2>>}
=============================================================================
