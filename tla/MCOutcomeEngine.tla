--------------------------- MODULE MCOutcomeEngine ---------------------------
(* Instances of OutcomeEngine for TLC.                                     *)
EXTENDS OutcomeEngine, TLC

(* Runs other than the first are created on demand and people all have the *)
(* same rights: swapping two of either changes nothing.                    *)
Symmetry == Permutations(Runs \ {FirstRun}) \cup Permutations(People)
=============================================================================
