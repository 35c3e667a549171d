---------------------------- MODULE AuthSessions ----------------------------
(***************************************************************************)
(* The sign-in state of one account: the refresh_tokens rows in Postgres   *)
(* and the session keys in Redis that jwt-access.strategy.ts asks for. The *)
(* operations are those of auth/auth.service.ts and resetPassword of       *)
(* users/users.service.ts.  Sign-ins are with the right password, whatever *)
(* it is; the account has been mailed one reset link.                      *)
(*                                                                         *)
(* A worker serves one request; every query or Redis command is one step.  *)
(* Postgres runs at READ COMMITTED: an uncommitted insert is invisible, a  *)
(* deleted row stays locked until its transaction ends, and a deleteMany   *)
(* removes the rows its scan saw, waiting for those that are locked.       *)
(*                                                                         *)
(* A refresh token is a JWT over the user, the device and the second it    *)
(* was signed in (iat, exp): tokens of a device signed in one second are   *)
(* the same string.  It is signed when the query before it returns, and    *)
(* inserted by a later one.  Expiry of tokens (30 days) is left out; that  *)
(* of session keys is a step.                                              *)
(***************************************************************************)
EXTENDS Naturals, FiniteSets

CONSTANTS
    Devices,        \* the devices the account is used on
    Workers,        \* requests that may be in flight together
    MaxRows,        \* bound: refresh_tokens rows ever created
    MaxTime         \* bound: the last second of the clock

ASSUME BoundsAssumption == MaxRows \in Nat /\ MaxTime \in Nat

VARIABLES
    now,        \* the clock, in seconds
    rows,       \* the committed refresh_tokens rows
    nextId,     \* the id of the next row
    known,      \* the devices rows: the devices the account has signed in on
    session,    \* the devices with a session:user:device key
    linkUsed,   \* the used column of the reset link the account has been mailed
    req,        \* req[w]: the request worker w is serving
    issued,     \* history: the tokens clients have been given
    disturbed,  \* history: revocations in flight during which a device they cover was issued
                \* a token or a session
    out         \* history: devices signed out by a logout nothing disturbed, not signed in since

vars == <<now, rows, nextId, known, session, linkUsed, req, issued, disturbed, out>>
historyVars == <<issued, disturbed, out>>

Token == [dev : Devices, at : 0..MaxTime]
Row == [id : 0..MaxRows, dev : Devices, at : 0..MaxTime]

Stages == {"idle", "login_issue", "login_session",
           "refresh_find", "refresh_delete", "refresh_issue", "refresh_session", "refresh_commit",
           "logout_devices", "logout_scan_all", "logout_scan", "logout_delete", "logout_session",
          "reset_scan", "reset_commit"}

\* devs: the devices the request is about; at: the second of the token it was sent or has
\* signed; ids: the rows it has read.
Idle == [pc |-> "idle", devs |-> {}, at |-> 0, ids |-> {}]

Init ==
    /\ now = 0
    /\ rows = {}
    /\ nextId = 0
    /\ known = {}
    /\ session = {}
    /\ linkUsed = FALSE
    /\ req = [w \in Workers |-> Idle]
    /\ issued = {}
    /\ disturbed = {}
    /\ out = {}

----------------------------------------------------------------------------

At(w, pc) == req[w].pc = pc
GoTo(w, r) == req' = [req EXCEPT ![w] = r]
End(w) == GoTo(w, Idle)
Begin(w, r) == At(w, "idle") /\ GoTo(w, r)

RowsOf(D) == {r \in rows : r.dev \in D}
Ids(R) == {r.id : r \in R}

\* Rows deleted by a refresh that has not committed.
Locked(w, ids) ==
    \E v \in Workers \ {w} :
        req[v].pc \in {"refresh_issue", "refresh_session", "refresh_commit"}
            /\ req[v].ids \cap ids # {}

\* A row with this token that a refresh has inserted and not committed.
Inserting(w, d, t) ==
    \E v \in Workers \ {w} :
        req[v].pc \in {"refresh_session", "refresh_commit"} /\ d \in req[v].devs /\ req[v].at = t

\* An insert waits for a transaction that has inserted or deleted a row with this token.
Settled(w, d, t) ==
    ~Inserting(w, d, t) /\ ~Locked(w, Ids({r \in rows : r.dev = d /\ r.at = t}))

\* The unique key on token; a row the request has deleted itself does not count.
NeverTaken(w, d, t) == FALSE
Taken(w, d, t) == \E r \in rows : r.dev = d /\ r.at = t /\ r.id \notin req[w].ids

Revoking == {"logout_delete", "logout_session", "reset_commit"}
Disturb(D) ==
    disturbed' = disturbed \cup {v \in Workers : req[v].pc \in Revoking /\ req[v].devs \cap D # {}}

Issuing == {"login_issue", "login_session", "refresh_delete", "refresh_issue", "refresh_session",
            "refresh_commit"}

----------------------------------------------------------------------------
(* login: the device row is created or updated, then generateTokens signs, *)
(* inserts the row and sets the session key; register ends the same way.   *)

LoginBegin(w, d) ==
    /\ Begin(w, [Idle EXCEPT !.pc = "login_issue", !.devs = {d}, !.at = now])
    /\ known' = known \cup {d}
    /\ UNCHANGED <<now, rows, nextId, session, linkUsed>>
    /\ UNCHANGED historyVars

LoginIssue(w) ==
    \E d \in req[w].devs :
        /\ At(w, "login_issue")
        /\ Settled(w, d, req[w].at)
        /\ IF Taken(w, d, req[w].at)
           THEN End(w) /\ UNCHANGED <<rows, nextId, disturbed, out>>
           ELSE /\ nextId < MaxRows
                /\ rows' = rows \cup {[id |-> nextId, dev |-> d, at |-> req[w].at]}
                /\ nextId' = nextId + 1
                /\ GoTo(w, [req[w] EXCEPT !.pc = "login_session"])
                /\ Disturb({d})
                /\ out' = out \ {d}
        /\ UNCHANGED <<now, known, session, linkUsed, issued>>

Answered(w) == [dev : req[w].devs, at : {req[w].at}]

LoginSession(w) ==
    /\ At(w, "login_session")
    /\ session' = session \cup req[w].devs
    /\ issued' = issued \cup Answered(w)
    /\ End(w)
    /\ Disturb(req[w].devs)
    /\ UNCHANGED <<now, rows, nextId, known, linkUsed, out>>

----------------------------------------------------------------------------
(* refreshTokens: one transaction. A client may send any token it has been *)
(* given, an old one too: it resends when an answer was lost.              *)

RefreshBegin(w, tok) ==
    /\ Begin(w, [Idle EXCEPT !.pc = "refresh_find", !.devs = {tok.dev}, !.at = tok.at])
    /\ UNCHANGED <<now, rows, nextId, known, session, linkUsed>>
    /\ UNCHANGED historyVars

Presented(w) == {r \in rows : r.dev \in req[w].devs /\ r.at = req[w].at}

RefreshFind(w) ==
    /\ At(w, "refresh_find")
    /\ Presented(w) # {}
    /\ GoTo(w, [req[w] EXCEPT !.pc = "refresh_delete", !.ids = Ids(Presented(w))])
    /\ UNCHANGED <<now, rows, nextId, known, session, linkUsed>>
    /\ UNCHANGED historyVars

\* Reuse detected: deleteMany on the device, then an exception, which rolls the transaction
\* back.
RefreshReuse(w) ==
    /\ At(w, "refresh_find")
    /\ Presented(w) = {}
    /\ ~Locked(w, Ids(RowsOf(req[w].devs)))
    /\ End(w)
    /\ UNCHANGED <<now, rows, nextId, known, session, linkUsed>>
    /\ UNCHANGED historyVars

\* The delete by id waits for a transaction that has deleted the row, and fails when the row
\* is gone.  The new token is signed as it returns.
MayRotateAnything(ids) == TRUE
MayRotate(ids) == ids \subseteq Ids(rows)

RefreshDelete(w) ==
    /\ At(w, "refresh_delete")
    /\ ~Locked(w, req[w].ids)
    /\ IF MayRotate(req[w].ids)
       THEN GoTo(w, [req[w] EXCEPT !.pc = "refresh_issue", !.at = now])
       ELSE End(w)
    /\ UNCHANGED <<now, rows, nextId, known, session, linkUsed>>
    /\ UNCHANGED historyVars

RefreshIssue(w) ==
    \E d \in req[w].devs :
        /\ At(w, "refresh_issue")
        /\ Settled(w, d, req[w].at)
        /\ IF Taken(w, d, req[w].at)
           THEN End(w)
           ELSE GoTo(w, [req[w] EXCEPT !.pc = "refresh_session"])
        /\ UNCHANGED <<now, rows, nextId, known, session, linkUsed>>
        /\ UNCHANGED historyVars

\* The session key is set before the transaction commits.
RefreshSession(w) ==
    /\ At(w, "refresh_session")
    /\ session' = session \cup req[w].devs
    /\ GoTo(w, [req[w] EXCEPT !.pc = "refresh_commit"])
    /\ Disturb(req[w].devs)
    /\ UNCHANGED <<now, rows, nextId, known, linkUsed, issued, out>>

Added(R, ids, r) == R \cup {r}
Exchanged(R, ids, r) == {x \in R : x.id \notin ids} \cup {r}

RefreshCommit(w) ==
    \E d \in req[w].devs :
        /\ At(w, "refresh_commit")
        /\ nextId < MaxRows
        /\ rows' = Exchanged(rows, req[w].ids, [id |-> nextId, dev |-> d, at |-> req[w].at])
        /\ nextId' = nextId + 1
        /\ issued' = issued \cup Answered(w)
        /\ End(w)
        /\ Disturb({d})
        /\ UNCHANGED <<now, known, session, linkUsed, out>>

----------------------------------------------------------------------------
(* logout and logoutAllDevices, behind the question JwtAccessGuard asks for *)
(* the session key of the caller. logoutAllDevices looks for the devices    *)
(* first, deletes the rows of the account whatever their device, and then   *)
(* removes the session keys of the devices it found, one after the other.   *)

SomeScanned(D) == {r \in RowsOf(D) : \A x \in RowsOf(D) : r.id <= x.id}
Scanned(D) == RowsOf(D)

LogoutBegin(w, d) ==
    /\ d \in session
    /\ \/ Begin(w, [Idle EXCEPT !.pc = "logout_scan", !.devs = {d}])
       \/ Begin(w, [Idle EXCEPT !.pc = "logout_devices"])
    /\ UNCHANGED <<now, rows, nextId, known, session, linkUsed>>
    /\ UNCHANGED historyVars

LogoutDevices(w) ==
    /\ At(w, "logout_devices")
    /\ GoTo(w, [req[w] EXCEPT !.pc = "logout_scan_all", !.devs = known])
    /\ UNCHANGED <<now, rows, nextId, known, session, linkUsed>>
    /\ UNCHANGED historyVars

LogoutScan(w) ==
    /\ \/ /\ At(w, "logout_scan")
          /\ GoTo(w, [req[w] EXCEPT !.pc = "logout_delete", !.ids = Ids(Scanned(req[w].devs))])
       \/ /\ At(w, "logout_scan_all")
          /\ GoTo(w, [req[w] EXCEPT !.pc = "logout_delete", !.ids = Ids(Scanned(Devices))])
    /\ UNCHANGED <<now, rows, nextId, known, session, linkUsed>>
    /\ UNCHANGED historyVars

LogoutDelete(w) ==
    /\ At(w, "logout_delete")
    /\ ~Locked(w, req[w].ids)
    /\ rows' = {r \in rows : r.id \notin req[w].ids}
    /\ GoTo(w, [req[w] EXCEPT !.pc = "logout_session"])
    /\ UNCHANGED <<now, nextId, known, session, linkUsed>>
    /\ UNCHANGED historyVars

SessionsKept(d) == session
SessionsWithout(d) == session \ {d}

BeingIssued == UNION {req[v].devs : v \in {x \in Workers : req[x].pc \in Issuing}}

LogoutSession(w) ==
    \E d \in req[w].devs :
        /\ At(w, "logout_session")
        /\ session' = SessionsWithout(d)
        /\ out' = IF w \in disturbed \/ d \in BeingIssued THEN out ELSE out \cup {d}
        /\ IF req[w].devs = {d}
           THEN End(w) /\ disturbed' = disturbed \ {w}
           ELSE GoTo(w, [req[w] EXCEPT !.devs = @ \ {d}]) /\ UNCHANGED disturbed
        /\ UNCHANGED <<now, rows, nextId, known, linkUsed, issued>>

----------------------------------------------------------------------------
(* resetPassword *)

ResetBegin(w) ==
    /\ ~linkUsed
    /\ Begin(w, [Idle EXCEPT !.pc = "reset_scan", !.devs = Devices])
    /\ UNCHANGED <<now, rows, nextId, known, session, linkUsed>>
    /\ UNCHANGED historyVars

\* The transaction holds the lock on the users row until it commits.
UserRowFree == \A v \in Workers : ~At(v, "reset_commit")

ResetScan(w) ==
    /\ At(w, "reset_scan")
    /\ UserRowFree
    /\ GoTo(w, [req[w] EXCEPT !.pc = "reset_commit", !.ids = Ids(Scanned(Devices))])
    /\ UNCHANGED <<now, rows, nextId, known, session, linkUsed>>
    /\ UNCHANGED historyVars

ResetCommit(w) ==
    /\ At(w, "reset_commit")
    /\ ~Locked(w, req[w].ids)
    /\ linkUsed' = TRUE
    /\ rows' = {r \in rows : r.id \notin req[w].ids}
    /\ End(w)
    /\ disturbed' = disturbed \ {w}
    /\ UNCHANGED <<now, nextId, known, session, issued, out>>

----------------------------------------------------------------------------
(* Around the program *)

Tick ==
    /\ now < MaxTime
    /\ now' = now + 1
    /\ UNCHANGED <<rows, nextId, known, session, linkUsed, req>>
    /\ UNCHANGED historyVars

\* A session key lives fifteen minutes.
SessionExpires(d) ==
    /\ d \in session
    /\ session' = session \ {d}
    /\ UNCHANGED <<now, rows, nextId, known, linkUsed, req>>
    /\ UNCHANGED historyVars

\* The server stops, a command is rejected, or a transaction times out: what has not committed
\* is rolled back.
Crash(w) ==
    /\ ~At(w, "idle")
    /\ End(w)
    /\ disturbed' = disturbed \ {w}
    /\ UNCHANGED <<now, rows, nextId, known, session, linkUsed, issued, out>>

----------------------------------------------------------------------------

Step(w) ==
    \/ \E d \in Devices : LoginBegin(w, d)
    \/ LoginIssue(w) \/ LoginSession(w)
    \/ \E tok \in issued : RefreshBegin(w, tok)
    \/ RefreshFind(w) \/ RefreshReuse(w) \/ RefreshDelete(w) \/ RefreshIssue(w)
    \/ RefreshSession(w) \/ RefreshCommit(w)
    \/ \E d \in Devices : LogoutBegin(w, d)
    \/ LogoutDevices(w) \/ LogoutScan(w) \/ LogoutDelete(w) \/ LogoutSession(w)
    \/ ResetBegin(w) \/ ResetScan(w) \/ ResetCommit(w)
    \/ Crash(w)

Next == Tick \/ (\E d \in Devices : SessionExpires(d)) \/ (\E w \in Workers : Step(w))

Spec == Init /\ [][Next]_vars

----------------------------------------------------------------------------
(* Properties *)

\* Every variable has its type; row ids are unique and so are the stored tokens: no pair of
\* concurrent logins and refreshes stores one string twice.
TypeOK ==
    /\ now \in 0..MaxTime
    /\ rows \subseteq Row
    /\ nextId \in 0..MaxRows
    /\ known \subseteq Devices
    /\ session \subseteq Devices
    /\ linkUsed \in BOOLEAN
    /\ req \in [Workers -> [pc : Stages, devs : SUBSET Devices, at : 0..MaxTime, ids : SUBSET (0..MaxRows)]]
    /\ issued \subseteq Token
    /\ disturbed \subseteq Workers
    /\ out \subseteq Devices
    /\ \A r \in rows : r.id < nextId
    /\ \A r, x \in rows : r.id = x.id \/ (r.dev = x.dev /\ r.at = x.at) => r = x

Strings(R) == {[dev |-> r.dev, at |-> r.at] : r \in R}
HeldAt(pcs) == UNION {Answered(w) : w \in {v \in Workers : req[v].pc \in pcs}}

Family == INSTANCE TokenFamily WITH
    Tokens <- Token, live <- Strings(rows), signing <- HeldAt({"login_issue"}),
    renewing <- HeldAt({"refresh_issue", "refresh_session", "refresh_commit"})

\* The stored strings are a family of refresh tokens, whatever sign-ins, refreshes, logouts and
\* resets run at the same time: a refresh takes the token it was sent out of the store in the
\* step that puts the new one there, never puts one there for a token that is gone, and no token
\* that was exchanged or revoked comes back once its second is over, unless a request had signed
\* it by then.
ImplementsTokenFamily == Family!Spec

\* After a logout that overlapped no sign-in and no refresh of the device, the device has
\* neither a stored refresh token nor a session until it signs in again: an old token sent
\* later, by any number of requests, restores nothing.
LoggedOutStaysOut ==
    \A d \in out : RowsOf({d}) = {} /\ d \notin session

\* A password reset that overlapped no issue of a token leaves no refresh token of the account.
UndisturbedResetRevokes ==
    [][\A w \in Workers : ResetCommit(w) /\ w \notin disturbed => rows' = {}]_vars

\* Only a sign-in adds to the stored tokens of a device: however many refreshes present one
\* token, at once, after a lost answer or within its second, they leave no more stored tokens
\* than there were.  This is what remains of "concurrent refreshes can't both succeed with the
\* same token" (auth.service.ts:158): within the token's own second, two can.
OnlySignInsAdd ==
    [][\A d \in Devices : Cardinality(RowsOf({d}))' > Cardinality(RowsOf({d}))
           => \E w \in Workers : LoginIssue(w)]_vars

\* Contradicted: comment at auth.service.ts:167-170, "revoke the entire device family": once
\* reuse is detected the device has no stored refresh token.
ReuseRevokesFamily ==
    [][\A w \in Workers : RefreshReuse(w) => \A d \in req[w].devs : RowsOf({d})' = {}]_vars
=============================================================================
