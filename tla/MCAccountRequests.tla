------------------------- MODULE MCAccountRequests -------------------------
(* AccountRequests with two requests in flight. *)
EXTENDS AccountRequests, TLC

Symmetry == Permutations(Workers) \cup Permutations(Passwords)
=============================================================================
