--------------------------- MODULE ConnectorCalls ---------------------------
(***************************************************************************)
(* What the action gateway promises of each connector call an agent makes: *)
(* it is granted, refused, or waits for a person who grants or refuses it; *)
(* only a granted call runs, at most once; its books are closed in the end *)
(* and nothing runs after that.                                            *)
(***************************************************************************)
EXTENDS Integers

CONSTANT Ids        \* calls

VARIABLES
    phase,          \* of each call
    ran             \* how often it ran

Init ==
    /\ phase = [i \in Ids |-> "unseen"]
    /\ ran = [i \in Ids |-> 0]

Move(i, from, to) == phase[i] = from /\ phase' = [phase EXCEPT ![i] = to]

Ask(i)    == /\ \E to \in {"granted", "waiting", "refused"} : Move(i, "unseen", to)
             /\ UNCHANGED ran
Decide(i) == /\ \E to \in {"granted", "refused"} : Move(i, "waiting", to)
             /\ UNCHANGED ran
Close(i)  == Move(i, "granted", "closed") /\ UNCHANGED ran

(* Calls that were sent together run together.                             *)
Run(S) ==
    /\ \A i \in S : phase[i] = "granted" /\ ran[i] = 0
    /\ ran' = [i \in Ids |-> IF i \in S THEN 1 ELSE ran[i]]
    /\ UNCHANGED phase

Next ==
    \/ \E i \in Ids : Ask(i) \/ Decide(i) \/ Close(i)
    \/ \E S \in SUBSET Ids : Run(S)

Spec == Init /\ [][Next]_<<phase, ran>>
=============================================================================
