------------------------------- MODULE MCJobs -------------------------------
(* Instances of Jobs for TLC.                                              *)
EXTENDS Jobs, TLC

CONSTANTS c1, c2, r1, r2        \* model values

Office == {Creates \cup {"draft", "publish", "go_live"},
           {"create_dry", "go_live", "enable", "disable", "schedule", "unschedule", "delete"},
           {"create_live", "dry_run", "publish", "run_now", "delete"}}
Alike == Permutations(Clients) \cup Permutations(Runs)
=============================================================================
