------------------------ MODULE MCPushNotifications ------------------------
(* PushNotifications with two requests in flight. *)
EXTENDS PushNotifications, TLC

Symmetry == Permutations(Devices) \cup Permutations(Tokens) \cup Permutations(Workers)
=============================================================================
