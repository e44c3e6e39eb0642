-------------------------- MODULE MCClientDelivery --------------------------
(***************************************************************************)
(* A small instance of ClientDelivery: an anchor, two successors of it     *)
(* that form a fork, and a successor of one of them.  Every request may be *)
(* answered with every envelope of the instance.                           *)
(***************************************************************************)
EXTENDS ClientDelivery, TLC

CONSTANTS e1, e2, e3, f2

MCRevisionOf == [e \in Envelopes |-> IF e = e1 THEN 1 ELSE IF e = e3 THEN 3 ELSE 2]
MCPreviousOf == [e \in Envelopes |-> IF e = e3 THEN e2 ELSE e1]

MCWindowOf == [q \in Requests |-> <<1, 3>>]
MCResponses == [request : Requests, envelope : Envelopes, from : {1}, until : {3}]

Symmetry == Permutations(Operations) \cup Permutations(Requests) \cup Permutations(Processes)
=============================================================================
