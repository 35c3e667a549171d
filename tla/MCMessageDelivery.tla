------------------------- MODULE MCMessageDelivery -------------------------
(* MessageDelivery for one recipient with two devices. *)
EXTENDS MessageDelivery, TLC

CONSTANTS ua

MCOwner == [s \in Sockets |-> ua]

Symmetry == Permutations(Sockets) \cup Permutations(Messages)
=============================================================================
