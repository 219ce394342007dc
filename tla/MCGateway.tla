----------------------------- MODULE MCGateway -----------------------------
(* Instances of Gateway for TLC.                                           *)
EXTENDS Gateway, TLC

CONSTANTS r1, q1, u1, u2        \* model values

Tool(first, body) == [meta |-> "", first |-> first, body |-> body, draft |-> FALSE]
GetMessage  == Tool({"read"}, {"read", "message"})
SendMessage == Tool({"message"}, {"message"})

ReadCall == [slug |-> GetMessage, long |-> FALSE]
SendCall == [slug |-> SendMessage, long |-> TRUE]

SomeCalls == {ReadCall, SendCall}

None      == [categories |-> <<>>, tools |-> <<>>]
Strict    == [categories |-> [c \in {"message"} |-> "block"],
              tools |-> GetMessage :> "approve"]
Policies == {None, Strict}

PeopleAlike == Permutations(People)
=============================================================================
