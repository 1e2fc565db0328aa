---------------------------- MODULE MCBeamSearch ----------------------------
(* Instances of BeamSearch for TLC. *)
EXTENDS BeamSearch

Table(a, b, c, d, e) == [t \in 0 .. 4 |-> <<a, b, c, d, e>>[t + 1]]

(* The end is likely, possible or unlikely; sums of different beams can be *)
(* equal.                                                                  *)
MCTables == {Table(-1, -2, -3, -4, -5), Table(-3, -1, -2, -5, -4), Table(-4, -3, -6, -1, -2),
             Table(-2, -5, -1, -3, -9)}

MCPrompts == << <<1>>, <<2>> >>
MCPrompt  == << <<1>> >>

MCConfigs == [maxLen : {4, 5}, lenPenalty : {0, 1}, earlyStopping : BOOLEAN, keep : {1, 2}]
MCOneConfig == {[maxLen |-> 5, lenPenalty |-> 1, earlyStopping |-> FALSE, keep |-> 1]}
=============================================================================
