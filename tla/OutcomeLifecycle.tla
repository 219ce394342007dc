-------------------------- MODULE OutcomeLifecycle --------------------------
(***************************************************************************)
(* What the outcome engine promises of one outcome while no person steps   *)
(* in: it opens, attempts are made within its budget, and then it stops    *)
(* for good, delivered or failed, or waits for a person.  Crashes of the   *)
(* server, late ticks of the recovery loop and verifications under way are *)
(* not seen at this level.  Module OutcomeEngine implements it.            *)
(***************************************************************************)
EXTENDS Naturals

CONSTANT MaxAttempts    \* attempts the budget of the job allows

VARIABLES
    phase,      \* "new", "working", or how the outcome stopped
    started     \* attempts whose container was started

vars == <<phase, started>>

Stopped == {"delivered", "failed", "awaiting_approval", "needs_you"}

Init == phase \in {"new", "working"} /\ started = 0

Open == /\ phase = "new"
        /\ phase' = "working"
        /\ UNCHANGED started

(* A dry run's outcome is opened before its run, every other one by it.    *)
Attempt == /\ phase = "working"
           /\ started < MaxAttempts
           /\ started' = started + 1
           /\ UNCHANGED phase

Stop == /\ phase = "working"
        /\ phase' \in Stopped
        /\ UNCHANGED started

Next == Open \/ Attempt \/ Stop

Spec == Init /\ [][Next]_vars
=============================================================================
