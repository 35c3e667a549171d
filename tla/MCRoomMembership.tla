-------------------------- MODULE MCRoomMembership --------------------------
(* RoomMembership with two devices of one account and a second account     *)
(* that adds and removes the first.                                        *)
EXTENDS RoomMembership

CONSTANTS ua, ub, a1, a2

MCOwner == [s \in {a1, a2} |-> ua]
=============================================================================
