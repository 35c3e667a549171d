------------------------ MODULE MCMessageLifecycle ------------------------
(* MessageLifecycle with two requests in flight. *)
EXTENDS MessageLifecycle, TLC

Symmetry == Permutations(Workers) \cup Permutations(Messages)
=============================================================================
