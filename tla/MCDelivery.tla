----------------------------- MODULE MCDelivery -----------------------------
(* Instances of Delivery for TLC.                                          *)
EXTENDS Delivery

CONSTANTS v1, u1        \* model values
=============================================================================
