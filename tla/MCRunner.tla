------------------------------ MODULE MCRunner ------------------------------
(* Instances of Runner for TLC.                                            *)
EXTENDS Runner

CONSTANTS r1, r2, s1        \* model values

(* Two runs at once; or somebody who watches a run that may crash.         *)
Busy    == [runs |-> {r1, r2}, streams |-> {}, output |-> 1, restarts |-> 0]
Watched == [runs |-> {r1}, streams |-> {s1}, output |-> 2, restarts |-> 1]
BusyOrWatched == {Busy, Watched}
=============================================================================
