--------------------------- MODULE MCAuthSessions ---------------------------
(* AuthSessions with two requests in flight. *)
EXTENDS AuthSessions, TLC

Symmetry == Permutations(Workers) \cup Permutations(Devices)
=============================================================================
