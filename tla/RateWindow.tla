----------------------------- MODULE RateWindow -----------------------------
(***************************************************************************)
(* What a fixed-window rate limiter promises for one key: of the requests  *)
(* it counts, at most Max pass in a window, and it refuses none while the  *)
(* window has room.  A request it cannot count passes uncounted.           *)
(***************************************************************************)
EXTENDS Naturals

CONSTANTS Requests, Max

VARIABLES
    admitted,   \* requests counted in this window, Max at most
    gate        \* gate[r]: what the limiter has decided about r

vars == <<admitted, gate>>

Init == admitted = 0 /\ gate = [r \in Requests |-> "outside"]

Decide(r, g) == gate[r] = "outside" /\ gate' = [gate EXCEPT ![r] = g]

Admit(r) == Decide(r, "passed") /\ admitted < Max /\ admitted' = admitted + 1

Refuse(r) == Decide(r, "refused") /\ admitted = Max /\ UNCHANGED admitted

\* The limiter does not know whether it has counted r.
Bypass(r) ==
    /\ Decide(r, "uncounted")
    /\ \/ UNCHANGED admitted
       \/ admitted < Max /\ admitted' = admitted + 1

Leave(r) == gate[r] # "outside" /\ gate' = [gate EXCEPT ![r] = "outside"] /\ UNCHANGED admitted

Roll == admitted' = 0 /\ UNCHANGED gate

Next == Roll \/ \E r \in Requests : Admit(r) \/ Refuse(r) \/ Bypass(r) \/ Leave(r)

Spec == Init /\ [][Next]_vars
=============================================================================
