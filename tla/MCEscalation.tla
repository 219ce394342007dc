---------------------------- MODULE MCEscalation ----------------------------
(* Instances of Escalation for TLC.                                        *)
EXTENDS Escalation

CONSTANTS t1, t2        \* model values
=============================================================================
