------------------------------ MODULE MCTeams -------------------------------
(* Instances of Teams for TLC.                                             *)
EXTENDS Teams, TLC

CONSTANTS f, a, c1, c2           \* model values

Alike == Permutations(Clients) \cup Permutations(People \ {Founder})
=============================================================================
