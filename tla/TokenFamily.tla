---------------------------- MODULE TokenFamily ----------------------------
(***************************************************************************)
(* What the refresh tokens of an account promise.  A token is a string     *)
(* that names a device and the second it was signed in.  It is live from   *)
(* the step that issues it, to a sign-in or in exchange for another live   *)
(* token of the device, until it is exchanged itself or revoked.  Once its *)
(* second is over it can be live again only if a request that signed it in *)
(* that second still holds it.                                             *)
(***************************************************************************)
EXTENDS Naturals

CONSTANT Tokens

VARIABLES
    now,
    live,
    signing,    \* tokens that sign-ins have signed and not issued
    renewing    \* tokens that refreshes have signed and not issued

vars == <<now, live, signing, renewing>>

Init == now = 0 /\ live = {} /\ signing = {} /\ renewing = {}

Tick == now' = now + 1 /\ UNCHANGED <<live, signing, renewing>>

SignIn(t) == t.at = now /\ signing' = signing \cup {t} /\ UNCHANGED <<now, live, renewing>>
Renew(t) == t.at = now /\ renewing' = renewing \cup {t} /\ UNCHANGED <<now, live, signing>>

GiveUp(t) ==
    /\ signing' \in {signing, signing \ {t}}
    /\ renewing' \in {renewing, renewing \ {t}}
    /\ UNCHANGED <<now, live>>

\* Another request may hold the same string.
Issue(n) ==
    /\ n \in signing \ live
    /\ live' = live \cup {n}
    /\ signing' \in {signing, signing \ {n}}
    /\ UNCHANGED <<now, renewing>>

\* Within its second a token may be exchanged for the same string.
Exchange(t, n) ==
    /\ t \in live /\ t.dev = n.dev
    /\ n \in renewing /\ n \notin live \ {t}
    /\ live' = (live \ {t}) \cup {n}
    /\ renewing' \in {renewing, renewing \ {n}}
    /\ UNCHANGED <<now, signing>>

Revoke(T) == T \subseteq live /\ live' = live \ T /\ UNCHANGED <<now, signing, renewing>>

Next ==
    \/ Tick
    \/ \E t \in Tokens : SignIn(t) \/ Renew(t) \/ GiveUp(t) \/ Issue(t)
    \/ \E t, n \in Tokens : Exchange(t, n)
    \/ \E T \in SUBSET live : Revoke(T)

Spec == Init /\ [][Next]_vars
=============================================================================
