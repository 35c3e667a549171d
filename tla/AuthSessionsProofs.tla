------------------------- MODULE AuthSessionsProofs -------------------------
(***************************************************************************)
(* That the stored tokens are a token family and that revocations nothing  *)
(* disturbed last, for any devices, requests in flight, rows and seconds.  *)
(***************************************************************************)
EXTENDS AuthSessions, FiniteSetTheorems, TLAPS

----------------------------------------------------------------------------
(* The inductive invariant.                                                *)

Locking == {"refresh_issue", "refresh_session", "refresh_commit"}
Inserted == {"refresh_session", "refresh_commit"}

\* Sign-ins and refreshes are of one device, a refresh is of one row, a reset of all devices;
\* all row ids a request knows have been given out.
RequestFits(w) ==
    LET r == req[w]
    IN  /\ r.pc \in {"login_issue", "login_session", "refresh_find", "refresh_delete"} \cup Locking =>
             \E d \in Devices : r.devs = {d}
        /\ r.pc \in {"login_issue", "logout_devices"} => r.ids = {}
        /\ r.pc \in {"refresh_delete"} \cup Locking => \E i \in 0..MaxRows : r.ids = {i}
        /\ r.pc \in {"reset_scan", "reset_commit"} => r.devs = Devices
        /\ \A i \in r.ids : i < nextId

\* The row a refresh exchanges is its device's; once locked it stays; the new one will be the
\* only one with its token.
RefreshFits(w) ==
    LET r == req[w]
    IN  /\ r.pc \in {"refresh_delete"} \cup Locking => \A x \in rows : x.id \in r.ids => x.dev \in r.devs
        /\ r.pc \in Locking => \A i \in r.ids : \E x \in rows : x.id = i
        /\ r.pc \in Inserted => \A x \in rows : x.dev \in r.devs /\ x.at = r.at => x.id \in r.ids

\* A revocation nothing disturbed takes all rows of its devices, or has taken them.
RevocationFits(w) ==
    LET r == req[w]
    IN  w \notin disturbed =>
          /\ r.pc \in {"logout_delete", "reset_commit"} => \A x \in rows : x.dev \in r.devs => x.id \in r.ids
          /\ r.pc = "logout_session" => \A x \in rows : x.dev \notin r.devs

\* Nothing is being issued to a device that is signed out, but by a sign-in that begins.
IssueFits(w) == req[w].pc \in Issuing \ {"login_issue"} => req[w].devs \cap out = {}

Sound(w) == RequestFits(w) /\ RefreshFits(w) /\ RevocationFits(w) /\ IssueFits(w)

\* Two refreshes lock different rows and insert different tokens.
Apart(v, w) ==
    /\ req[v].pc \in Locking /\ req[w].pc \in Locking => req[v].ids \cap req[w].ids = {}
    /\ req[v].pc \in Inserted /\ req[w].pc \in Inserted =>
         req[v].devs \cap req[w].devs = {} \/ req[v].at # req[w].at

IInv == /\ TypeOK
        /\ LoggedOutStaysOut
        /\ \A w \in Workers : Sound(w)
        /\ \A v \in Workers : \A w \in Workers \ {v} : Apart(v, w)

Requests == [pc : Stages, devs : SUBSET Devices, at : 0..MaxTime, ids : SUBSET (0..MaxRows)]

USE BoundsAssumption DEF At

\* A request that has nothing to do.
LEMMA IdleIsSound == Idle \in Requests /\ Idle.pc = "idle" /\ Idle.ids = {} /\ Idle.devs = {}
  BY DEF Idle, Requests, Stages

\* What it is to rewrite one request.
LEMMA OneRequest ==
    ASSUME TypeOK, NEW w \in Workers, NEW r \in Requests, GoTo(w, r)
    PROVE  /\ req' \in [Workers -> Requests] /\ req'[w] = r
           /\ \A v \in Workers \ {w} : req'[v] = req[v]
  BY DEF GoTo, TypeOK, Requests

\* A request is a record of its fields.
LEMMA RequestTypes ==
    ASSUME TypeOK, NEW w \in Workers
    PROVE  req[w] \in Requests
  BY DEF TypeOK, Requests

LEMMA InitEstablishes == Init => IInv
<1> SUFFICES ASSUME Init PROVE IInv
  OBVIOUS
<1>1. TypeOK
  <2>1. req \in [Workers -> Requests]
    BY IdleIsSound DEF Init
  <2>2. now \in 0..MaxTime /\ nextId \in 0..MaxRows
    BY DEF Init
  <2>3. linkUsed \in BOOLEAN
    BY DEF Init
  <2> QED
    BY <2>1, <2>2, <2>3 DEF Init, TypeOK, Requests
<1>2. \A w \in Workers : req[w] = Idle
  BY DEF Init
<1>3. LoggedOutStaysOut
  BY DEF Init, LoggedOutStaysOut
<1>4. ASSUME NEW w \in Workers PROVE Sound(w)
  BY <1>2, IdleIsSound
     DEF Init, Sound, RequestFits, RefreshFits, RevocationFits, IssueFits, Issuing, Locking, Inserted
<1>5. ASSUME NEW v \in Workers, NEW w \in Workers \ {v} PROVE Apart(v, w)
  BY <1>2, IdleIsSound DEF Apart, Locking, Inserted
<1> QED
  BY <1>1, <1>3, <1>4, <1>5 DEF IInv

----------------------------------------------------------------------------
(* Steps that change a request only.                                       *)

\* Another request stays sound while rows only come to it by disturbing it and leave it unlocked.
LEMMA QuietStep ==
    ASSUME IInv, NEW w \in Workers, NEW r \in Requests, GoTo(w, r),
           UNCHANGED <<rows, nextId, issued, out>>, now' \in 0..MaxTime, linkUsed' \in BOOLEAN,
           known' \subseteq Devices,
           session' \subseteq Devices, session' \cap out = {},
           disturbed \ {w} \subseteq disturbed', disturbed' \subseteq Workers,
           Sound(w)', \A v \in Workers \ {w} : Apart(v, w)'
    PROVE  IInv'
<1>1. /\ req' \in [Workers -> Requests] /\ \A v \in Workers \ {w} : req'[v] = req[v]
  BY OneRequest DEF IInv
<1>2. TypeOK'
  BY <1>1 DEF IInv, TypeOK, Requests
<1>3. LoggedOutStaysOut'
  BY DEF IInv, LoggedOutStaysOut, RowsOf
<1>4. ASSUME NEW v \in Workers \ {w} PROVE Sound(v)'
  <2>1. Sound(v) /\ req'[v] = req[v] /\ (v \in disturbed => v \in disturbed')
    BY <1>1 DEF IInv
  <2> QED
    BY <2>1 DEF Sound, RequestFits, RefreshFits, RevocationFits, IssueFits
<1>5. ASSUME NEW v \in Workers, NEW u \in Workers \ {v} PROVE Apart(v, u)'
  <2>1. CASE u = w
    BY <2>1
  <2>2. CASE v = w
    <3>1. Apart(u, w)'
      BY <2>2
    <3> QED
      BY <2>2, <3>1 DEF Apart
  <2>3. CASE u # w /\ v # w
    <3>1. Apart(v, u) /\ req'[v] = req[v] /\ req'[u] = req[u]
      BY <1>1, <2>3 DEF IInv
    <3> QED
      BY <3>1 DEF Apart
  <2> QED
    BY <2>1, <2>2, <2>3
<1> QED
  BY <1>2, <1>3, <1>4, <1>5 DEF IInv

\* A request that only goes on or ends, and is not locking afterwards.
LEMMA UnlockedStep ==
    ASSUME IInv, NEW w \in Workers, NEW r \in Requests, GoTo(w, r), r.pc \notin Locking,
           UNCHANGED <<rows, nextId, now, session, linkUsed, issued, out>>, known' \subseteq Devices,
           disturbed' = disturbed \/ disturbed' = disturbed \ {w},
           Sound(w)'
    PROVE  IInv'
<1>1. req'[w] = r
  BY OneRequest DEF IInv
<1>2. \A v \in Workers \ {w} : Apart(v, w)'
  BY <1>1 DEF Apart, Locking, Inserted
<1>3. TypeOK /\ LoggedOutStaysOut
  BY DEF IInv
<1> QED
  BY <1>2, <1>3, QuietStep DEF TypeOK, LoggedOutStaysOut

LEMMA EndPreserves ==
    ASSUME IInv, NEW w \in Workers, End(w),
           UNCHANGED <<rows, nextId, now, known, session, linkUsed, issued, out>>,
           disturbed' = disturbed \/ disturbed' = disturbed \ {w}
    PROVE  IInv'
<1>1. GoTo(w, Idle) /\ Idle.pc \notin Locking /\ req'[w] = Idle
  BY IdleIsSound, OneRequest DEF End, Locking, IInv
<1>2. Sound(w)'
  BY <1>1, IdleIsSound
     DEF Sound, RequestFits, RefreshFits, RevocationFits, IssueFits, Issuing, Locking, Inserted
<1>3. known' \subseteq Devices
  BY DEF IInv, TypeOK
<1> QED
  BY <1>1, <1>2, <1>3, IdleIsSound, UnlockedStep

LEMMA BeginningsPreserve ==
    ASSUME IInv, NEW w \in Workers,
           \/ \E d \in Devices : LoginBegin(w, d) \/ LogoutBegin(w, d)
           \/ \E tok \in issued : RefreshBegin(w, tok)
           \/ LogoutDevices(w) \/ ResetBegin(w)
    PROVE  IInv'
<1>1. ASSUME NEW r \in Requests, GoTo(w, r), r.ids = {},
             r.pc \in {"login_issue", "refresh_find", "logout_devices", "logout_scan", "logout_scan_all", "reset_scan"},
             r.pc = "reset_scan" => r.devs = Devices,
             r.pc \in {"login_issue", "refresh_find"} => \E d \in Devices : r.devs = {d},
             UNCHANGED <<rows, nextId, now, session, linkUsed, issued, out, disturbed>>,
             known' \subseteq Devices
      PROVE  IInv'
  <2>1. req'[w] = r
    BY <1>1, OneRequest DEF IInv
  <2>2. Sound(w)'
    BY <1>1, <2>1
       DEF Sound, RequestFits, RefreshFits, RevocationFits, IssueFits, Issuing, Locking, Inserted
  <2> QED
    BY <1>1, <2>2, UnlockedStep DEF Locking
<1>2. known \subseteq Devices /\ now \in 0..MaxTime
  BY DEF IInv, TypeOK
<1>3. ASSUME NEW d \in Devices, LoginBegin(w, d) PROVE IInv'
  <2> DEFINE r == [Idle EXCEPT !.pc = "login_issue", !.devs = {d}, !.at = now]
  <2>1. r \in Requests /\ r.ids = {} /\ r.pc = "login_issue" /\ r.devs = {d}
    BY <1>2, IdleIsSound DEF Requests, Stages
  <2>2. /\ GoTo(w, r) /\ UNCHANGED <<rows, nextId, now, session, linkUsed, issued, out, disturbed>>
        /\ known' = known \cup {d}
    BY <1>3 DEF LoginBegin, Begin, historyVars
  <2> HIDE DEF r
  <2> QED
    BY <1>1, <1>2, <2>1, <2>2
<1>4. ASSUME NEW tok \in issued, RefreshBegin(w, tok) PROVE IInv'
  <2> DEFINE r == [Idle EXCEPT !.pc = "refresh_find", !.devs = {tok.dev}, !.at = tok.at]
  <2>1. tok.dev \in Devices /\ tok.at \in 0..MaxTime
    BY DEF IInv, TypeOK, Token
  <2>2. r \in Requests /\ r.ids = {} /\ r.pc = "refresh_find" /\ r.devs = {tok.dev}
    BY <2>1, IdleIsSound DEF Requests, Stages
  <2>3. GoTo(w, r) /\ UNCHANGED <<rows, nextId, now, known, session, linkUsed, issued, out, disturbed>>
    BY <1>4 DEF RefreshBegin, Begin, historyVars
  <2> HIDE DEF r
  <2> QED
    BY <1>1, <1>2, <2>1, <2>2, <2>3
<1>5. ASSUME NEW d \in Devices, LogoutBegin(w, d) PROVE IInv'
  <2> DEFINE r == [Idle EXCEPT !.pc = "logout_scan", !.devs = {d}]
             q == [Idle EXCEPT !.pc = "logout_devices"]
  <2>1. r \in Requests /\ r.ids = {} /\ r.pc = "logout_scan" /\ q \in Requests /\ q.ids = {} /\ q.pc = "logout_devices"
    BY IdleIsSound DEF Requests, Stages
  <2>2. /\ GoTo(w, r) \/ GoTo(w, q)
        /\ UNCHANGED <<rows, nextId, now, known, session, linkUsed, issued, out, disturbed>>
    BY <1>5 DEF LogoutBegin, Begin, historyVars
  <2> HIDE DEF r, q
  <2> QED
    BY <1>1, <1>2, <2>1, <2>2
<1>6. CASE LogoutDevices(w)
  <2> DEFINE r == [req[w] EXCEPT !.pc = "logout_scan_all", !.devs = known]
  <2>1. req[w] \in Requests /\ req[w].ids = {}
    BY <1>6, RequestTypes DEF LogoutDevices, IInv, Sound, RequestFits
  <2>2. r \in Requests /\ r.ids = {} /\ r.pc = "logout_scan_all"
    BY <1>2, <2>1 DEF Requests, Stages
  <2>3. GoTo(w, r) /\ UNCHANGED <<rows, nextId, now, known, session, linkUsed, issued, out, disturbed>>
    BY <1>6 DEF LogoutDevices, historyVars
  <2> HIDE DEF r
  <2> QED
    BY <1>1, <1>2, <2>2, <2>3
<1>7. CASE ResetBegin(w)
  <2> DEFINE r == [Idle EXCEPT !.pc = "reset_scan", !.devs = Devices]
  <2>1. r \in Requests /\ r.ids = {} /\ r.pc = "reset_scan" /\ r.devs = Devices
    BY IdleIsSound DEF Requests, Stages
  <2>2. GoTo(w, r) /\ UNCHANGED <<rows, nextId, now, known, session, linkUsed, issued, out, disturbed>>
    BY <1>7 DEF ResetBegin, Begin, historyVars
  <2> HIDE DEF r
  <2> QED
    BY <1>1, <1>2, <2>1, <2>2
<1> QED
  BY <1>3, <1>4, <1>5, <1>6, <1>7

\* A scan finds all rows of the devices.
LEMMA ScansPreserve ==
    ASSUME IInv, NEW w \in Workers, ResetScan(w) \/ LogoutScan(w)
    PROVE  IInv'
<1>1. req[w] \in Requests /\ known \subseteq Devices /\ RequestFits(w)
  BY RequestTypes DEF IInv, TypeOK, Sound
<1>2. ASSUME NEW D \in SUBSET Devices
      PROVE  /\ Ids(RowsOf(D)) \in SUBSET (0..MaxRows)
             /\ \A i \in Ids(RowsOf(D)) : i < nextId
             /\ \A x \in rows : x.dev \in D => x.id \in Ids(RowsOf(D))
  BY DEF Ids, RowsOf, IInv, TypeOK, Row
<1>3. PICK pc \in {"logout_delete", "reset_commit"}, D \in SUBSET Devices :
        /\ GoTo(w, [req[w] EXCEPT !.pc = pc, !.ids = Ids(Scanned(D))])
        /\ req[w].devs \subseteq D /\ (pc = "reset_commit" => req[w].devs = Devices)
        /\ UNCHANGED <<rows, nextId, now, known, session, linkUsed, issued, out, disturbed>>
  <2>1. CASE ResetScan(w)
    <3>1. req[w].devs = Devices
      BY <1>1, <2>1 DEF ResetScan, RequestFits
    <3> QED
      BY <2>1, <3>1 DEF ResetScan, historyVars
  <2>2. CASE LogoutScan(w)
    <3>1. req[w].devs \in SUBSET Devices
      BY <1>1 DEF Requests
    <3> QED
      BY <2>2, <3>1 DEF LogoutScan, historyVars
  <2> QED
    BY <2>1, <2>2
<1> DEFINE r == [req[w] EXCEPT !.pc = pc, !.ids = Ids(Scanned(D))]
<1>4. r \in Requests /\ r.pc = pc /\ r.devs = req[w].devs /\ r.ids = Ids(RowsOf(D))
  BY <1>1, <1>2 DEF Requests, Stages, Scanned
<1>5. GoTo(w, r)
  BY <1>3
<1> HIDE DEF r
<1>6. req'[w] = r
  BY <1>4, <1>5, OneRequest DEF IInv
<1>7. (\A i \in r.ids : i < nextId) /\ \A x \in rows : x.dev \in r.devs => x.id \in r.ids
  BY <1>2, <1>3, <1>4
<1>8. Sound(w)'
  BY <1>3, <1>4, <1>6, <1>7
     DEF Sound, RequestFits, RefreshFits, RevocationFits, IssueFits, Issuing, Locking, Inserted
<1> QED
  BY <1>1, <1>3, <1>4, <1>5, <1>8, UnlockedStep DEF Locking

----------------------------------------------------------------------------
(* The steps of a refresh before its commit. *)

\* Tokens are unique: the row presented is one, and its device is not signed out.
LEMMA RefreshFindPreserves ==
    ASSUME IInv, NEW w \in Workers, RefreshFind(w)
    PROVE  IInv'
<1> DEFINE r == [req[w] EXCEPT !.pc = "refresh_delete", !.ids = Ids(Presented(w))]
<1>1. /\ req[w] \in Requests /\ Presented(w) # {} /\ GoTo(w, r)
      /\ UNCHANGED <<rows, nextId, now, known, session, linkUsed, issued, out, disturbed>>
  BY RequestTypes DEF RefreshFind, IInv, historyVars
<1>2. PICK d \in Devices : req[w].devs = {d}
  BY DEF RefreshFind, IInv, Sound, RequestFits
<1>3. PICK x \in rows : x \in Presented(w)
  BY <1>1 DEF Presented
<1>4. x.dev = d /\ x.at = req[w].at /\ x.id \in 0..MaxRows /\ x.id < nextId
  BY <1>2, <1>3 DEF Presented, IInv, TypeOK, Row
<1>5. Presented(w) = {x}
  BY <1>2, <1>3, <1>4 DEF Presented, IInv, TypeOK
<1>6. Ids(Presented(w)) = {x.id}
  BY <1>5 DEF Ids
<1>7. d \notin out
  BY <1>3, <1>4 DEF IInv, LoggedOutStaysOut, RowsOf
<1>8. \A y \in rows : y.id = x.id => y = x
  BY <1>3 DEF IInv, TypeOK
<1>9. r \in Requests /\ r.pc = "refresh_delete" /\ r.devs = {d} /\ r.ids = {x.id}
  BY <1>1, <1>2, <1>4, <1>6 DEF Requests, Stages
<1> HIDE DEF r
<1>10. req'[w] = r
  BY <1>1, <1>9, OneRequest DEF IInv
<1>11. RequestFits(w)'
  BY <1>1, <1>4, <1>9, <1>10 DEF RequestFits, Locking
<1>12. RefreshFits(w)'
  BY <1>1, <1>4, <1>8, <1>9, <1>10 DEF RefreshFits, Locking, Inserted
<1>13. RevocationFits(w)' /\ IssueFits(w)'
  BY <1>1, <1>7, <1>9, <1>10 DEF RevocationFits, IssueFits
<1>14. known' \subseteq Devices
  BY <1>1 DEF IInv, TypeOK
<1> QED
  BY <1>1, <1>9, <1>11, <1>12, <1>13, <1>14, UnlockedStep DEF Sound, Locking

\* The row is there and no other refresh has locked it.
LEMMA RefreshDeletePreserves ==
    ASSUME IInv, NEW w \in Workers, RefreshDelete(w)
    PROVE  IInv'
<1>1. UNCHANGED <<rows, nextId, now, known, session, linkUsed, issued, out, disturbed>>
  BY DEF RefreshDelete, historyVars
<1>2. CASE End(w)
  BY <1>1, <1>2, EndPreserves
<1>3. CASE ~End(w)
  <2> DEFINE r == [req[w] EXCEPT !.pc = "refresh_issue", !.at = now]
  <2>1. GoTo(w, r) /\ MayRotate(req[w].ids) /\ ~Locked(w, req[w].ids) /\ req[w].pc = "refresh_delete"
    BY <1>3 DEF RefreshDelete
  <2>2. req[w] \in Requests /\ Sound(w) /\ now \in 0..MaxTime
    BY RequestTypes DEF IInv, TypeOK
  <2>3. r \in Requests /\ r.pc = "refresh_issue" /\ r.devs = req[w].devs /\ r.ids = req[w].ids
    BY <2>2 DEF Requests, Stages
  <2> HIDE DEF r
  <2>4. req'[w] = r /\ \A v \in Workers \ {w} : req'[v] = req[v]
    BY <2>1, <2>3, OneRequest DEF IInv
  <2>5. RequestFits(w)'
    BY <1>1, <2>1, <2>2, <2>3, <2>4 DEF Sound, RequestFits, Locking
  <2>6. \A i \in r.ids : \E x \in rows : x.id = i
    BY <2>1, <2>3 DEF MayRotate, Ids
  <2>7. RefreshFits(w)'
    BY <1>1, <2>1, <2>2, <2>3, <2>4, <2>6 DEF Sound, RefreshFits, Locking, Inserted
  <2>8. RevocationFits(w)' /\ IssueFits(w)'
    BY <1>1, <2>1, <2>2, <2>3, <2>4 DEF Sound, RevocationFits, IssueFits, Issuing
  <2>9. ASSUME NEW v \in Workers \ {w} PROVE Apart(v, w)'
    BY <2>1, <2>3, <2>4 DEF Apart, Locked, Locking, Inserted
  <2>10. TypeOK /\ LoggedOutStaysOut
    BY DEF IInv
  <2>11. now' \in 0..MaxTime /\ known' \subseteq Devices /\ session' \subseteq Devices /\ disturbed' \subseteq Workers
    BY <1>1, <2>10 DEF TypeOK
  <2>12. linkUsed' \in BOOLEAN
    BY <1>1, <2>10 DEF TypeOK
  <2>13. session' \cap out = {}
    BY <1>1, <2>10 DEF LoggedOutStaysOut
  <2> QED
    BY <1>1, <2>1, <2>3, <2>5, <2>7, <2>8, <2>9, <2>11, <2>12, <2>13, QuietStep DEF Sound
<1> QED
  BY <1>2, <1>3

\* The new token is in no row but the deleted one, and no other refresh has it.
LEMMA RefreshIssuePreserves ==
    ASSUME IInv, NEW w \in Workers, RefreshIssue(w)
    PROVE  IInv'
<1>1. UNCHANGED <<rows, nextId, now, known, session, linkUsed, issued, out, disturbed>>
  BY DEF RefreshIssue, historyVars
<1>2. CASE End(w)
  BY <1>1, <1>2, EndPreserves
<1>3. CASE ~End(w)
  <2> DEFINE r == [req[w] EXCEPT !.pc = "refresh_session"]
  <2>1. PICK d \in req[w].devs :
          GoTo(w, r) /\ ~Taken(w, d, req[w].at) /\ Settled(w, d, req[w].at) /\ req[w].pc = "refresh_issue"
    BY <1>3 DEF RefreshIssue
  <2>2. req[w] \in Requests /\ Sound(w)
    BY RequestTypes DEF IInv
  <2>3. r \in Requests /\ r.pc = "refresh_session" /\ r.devs = req[w].devs /\ r.ids = req[w].ids /\ r.at = req[w].at
    BY <2>2 DEF Requests, Stages
  <2>4. req[w].devs = {d}
    BY <2>1, <2>2 DEF Sound, RequestFits, Locking
  <2> HIDE DEF r
  <2>5. req'[w] = r /\ \A v \in Workers \ {w} : req'[v] = req[v]
    BY <2>1, <2>3, OneRequest DEF IInv
  <2>6. RequestFits(w)'
    BY <1>1, <2>1, <2>2, <2>3, <2>5 DEF Sound, RequestFits, Locking
  <2>7. \A x \in rows : x.dev \in r.devs /\ x.at = r.at => x.id \in r.ids
    BY <2>1, <2>3, <2>4 DEF Taken
  <2>8. RefreshFits(w)'
    BY <1>1, <2>1, <2>2, <2>3, <2>5, <2>7 DEF Sound, RefreshFits, Locking, Inserted
  <2>9. RevocationFits(w)' /\ IssueFits(w)'
    BY <1>1, <2>1, <2>2, <2>3, <2>5 DEF Sound, RevocationFits, IssueFits, Issuing
  <2>10. ASSUME NEW v \in Workers \ {w} PROVE Apart(v, w)'
    <3>1. Apart(v, w) /\ req'[v] = req[v]
      BY <2>5 DEF IInv
    <3>2. req[v].pc \in Inserted => d \notin req[v].devs \/ req[v].at # req[w].at
      BY <2>1 DEF Settled, Inserting, Inserted
    <3> QED
      BY <2>1, <2>3, <2>4, <2>5, <3>1, <3>2 DEF Apart, Locking, Inserted
  <2>11. TypeOK /\ LoggedOutStaysOut
    BY DEF IInv
  <2>12. now' \in 0..MaxTime /\ known' \subseteq Devices /\ session' \subseteq Devices /\ disturbed' \subseteq Workers
    BY <1>1, <2>11 DEF TypeOK
  <2>13. linkUsed' \in BOOLEAN
    BY <1>1, <2>11 DEF TypeOK
  <2>14. session' \cap out = {}
    BY <1>1, <2>11 DEF LoggedOutStaysOut
  <2> QED
    BY <1>1, <2>1, <2>3, <2>6, <2>8, <2>9, <2>10, <2>12, <2>13, <2>14, QuietStep DEF Sound
<1> QED
  BY <1>2, <1>3

\* Adding devices to the disturbed keeps them workers.
LEMMA DisturbTypes ==
    ASSUME TypeOK, NEW D, Disturb(D)
    PROVE  /\ disturbed \subseteq disturbed' /\ disturbed' \subseteq Workers
           /\ \A v \in Workers : req[v].pc \in Revoking /\ req[v].devs \cap D # {} => v \in disturbed'
  BY DEF Disturb, TypeOK

LEMMA RefreshSessionPreserves ==
    ASSUME IInv, NEW w \in Workers, RefreshSession(w)
    PROVE  IInv'
<1> DEFINE r == [req[w] EXCEPT !.pc = "refresh_commit"]
<1>1. /\ GoTo(w, r) /\ req[w].pc = "refresh_session" /\ session' = session \cup req[w].devs
      /\ Disturb(req[w].devs) /\ UNCHANGED <<now, rows, nextId, known, linkUsed, issued, out>>
  BY DEF RefreshSession
<1>2. req[w] \in Requests /\ Sound(w) /\ TypeOK /\ LoggedOutStaysOut
  BY RequestTypes DEF IInv
<1>3. r \in Requests /\ r.pc = "refresh_commit" /\ r.devs = req[w].devs /\ r.ids = req[w].ids /\ r.at = req[w].at
  BY <1>2 DEF Requests, Stages
<1> HIDE DEF r
<1>4. req'[w] = r /\ \A v \in Workers \ {w} : req'[v] = req[v]
  BY <1>1, <1>2, <1>3, OneRequest
<1>5. RequestFits(w)'
  BY <1>1, <1>2, <1>3, <1>4 DEF Sound, RequestFits, Locking
<1>6. RefreshFits(w)'
  BY <1>1, <1>2, <1>3, <1>4 DEF Sound, RefreshFits, Locking, Inserted
<1>7. RevocationFits(w)' /\ IssueFits(w)'
  BY <1>1, <1>2, <1>3, <1>4 DEF Sound, RevocationFits, IssueFits, Issuing
<1>8. ASSUME NEW v \in Workers \ {w} PROVE Apart(v, w)'
  <2>1. Apart(v, w) /\ req'[v] = req[v]
    BY <1>4 DEF IInv
  <2> QED
    BY <1>1, <1>3, <1>4, <2>1 DEF Apart, Locking, Inserted
<1>9. disturbed \subseteq disturbed' /\ disturbed' \subseteq Workers
  BY <1>1, <1>2, DisturbTypes
<1>10. now' \in 0..MaxTime /\ known' \subseteq Devices /\ session' \subseteq Devices
  BY <1>1, <1>2 DEF TypeOK, Requests
<1>11. linkUsed' \in BOOLEAN
  BY <1>1, <1>2 DEF TypeOK
<1>12. session' \cap out = {}
  BY <1>1, <1>2 DEF LoggedOutStaysOut, Sound, IssueFits, Issuing
<1> QED
  BY <1>1, <1>3, <1>5, <1>6, <1>7, <1>8, <1>9, <1>10, <1>11, <1>12, QuietStep DEF Sound

----------------------------------------------------------------------------
(* Steps that change rows or the signed-out devices.                       *)

\* A step that leaves its request unlocked keeps the refreshes apart.
LEMMA ApartStays ==
    ASSUME IInv, NEW w \in Workers, NEW r \in Requests, GoTo(w, r), r.pc \notin Locking
    PROVE  (\A v \in Workers : \A u \in Workers \ {v} : Apart(v, u))'
<1>1. req'[w] = r /\ \A v \in Workers \ {w} : req'[v] = req[v]
  BY OneRequest DEF IInv
<1>2. SUFFICES ASSUME NEW v \in Workers, NEW u \in Workers \ {v} PROVE Apart(v, u)'
  OBVIOUS
<1>3. CASE u = w \/ v = w
  BY <1>1, <1>3 DEF Apart, Locking, Inserted
<1>4. CASE u # w /\ v # w
  <2>1. Apart(v, u) /\ req'[v] = req[v] /\ req'[u] = req[u]
    BY <1>1, <1>4 DEF IInv
  <2> QED
    BY <2>1 DEF Apart
<1> QED
  BY <1>3, <1>4

\* Inserting a row whose token no row and no other refresh has: what others know stays true
\* of the rows, except for the revocations it disturbs.
LEMMA OthersKeepWithNewRow ==
    ASSUME IInv, NEW w \in Workers, NEW v \in Workers \ {w}, NEW x \in Row, x.id = nextId,
           \A y \in rows' : y \in rows \/ y = x,
           \A y \in rows : y \in rows' \/ (req[v].pc \in Locking => y.id \notin req[v].ids),
           req'[v] = req[v], nextId' = nextId + 1, out' \subseteq out, Disturb({x.dev}),
           req[v].pc \in Inserted => x.dev \notin req[v].devs \/ req[v].at # x.at
    PROVE  Sound(v)'
<1>1. Sound(v) /\ TypeOK
  BY DEF IInv
<1>2. nextId \in 0..MaxRows /\ nextId \notin req[v].ids /\ \A i \in req[v].ids : i \in 0..MaxRows /\ i < nextId
  <2>1. \A i \in req[v].ids : i < nextId
    BY <1>1 DEF Sound, RequestFits
  <2>2. nextId \in 0..MaxRows /\ req[v].ids \subseteq 0..MaxRows
    BY <1>1 DEF TypeOK
  <2> QED
    BY <2>1, <2>2
<1>3. RequestFits(v)'
  <2>1. \A i \in req[v].ids : i < nextId'
    BY <1>2
  <2> QED
    BY <1>1, <2>1 DEF Sound, RequestFits
<1>4. RefreshFits(v)'
  <2>1. req[v].pc \in {"refresh_delete"} \cup Locking => \A y \in rows' : y.id \in req[v].ids => y.dev \in req[v].devs
    BY <1>1, <1>2 DEF Sound, RefreshFits
  <2>2. req[v].pc \in Locking => \A i \in req[v].ids : \E y \in rows' : y.id = i
    BY <1>1 DEF Sound, RefreshFits
  <2>3. req[v].pc \in Inserted => \A y \in rows' : y.dev \in req[v].devs /\ y.at = req[v].at => y.id \in req[v].ids
    BY <1>1 DEF Sound, RefreshFits
  <2> QED
    BY <2>1, <2>2, <2>3 DEF RefreshFits
<1>5. RevocationFits(v)'
  <2>1. SUFFICES ASSUME v \notin disturbed' PROVE RevocationFits(v)'
    BY DEF RevocationFits
  <2>2. v \notin disturbed /\ (req[v].pc \in Revoking => x.dev \notin req[v].devs)
    BY <1>1, <2>1, DisturbTypes
  <2> QED
    BY <1>1, <2>2 DEF Sound, RevocationFits, Revoking
<1>6. IssueFits(v)'
  BY <1>1 DEF Sound, IssueFits
<1> QED
  BY <1>3, <1>4, <1>5, <1>6 DEF Sound

\* The rows stay unique when such a row is added.
LEMMA NewRowTypes ==
    ASSUME TypeOK, NEW x \in Row, x.id = nextId, nextId' = nextId + 1, nextId < MaxRows,
           NEW R, R \subseteq rows, rows' = R \cup {x},
           \A y \in R : ~(y.dev = x.dev /\ y.at = x.at)
    PROVE  /\ rows' \subseteq Row /\ nextId' \in 0..MaxRows
           /\ \A y \in rows' : y.id < nextId'
           /\ \A y, z \in rows' : y.id = z.id \/ (y.dev = z.dev /\ y.at = z.at) => y = z
<1>1. rows \subseteq Row /\ nextId \in 0..MaxRows /\ \A y \in R : y.id < nextId /\ y.id \in 0..MaxRows
  BY DEF TypeOK, Row
<1>2. nextId' \in 0..MaxRows /\ \A y \in rows' : y.id < nextId'
  BY <1>1
<1>3. \A y \in R : y.id # x.id
  BY <1>1
<1>4. \A y, z \in R : y.id = z.id \/ (y.dev = z.dev /\ y.at = z.at) => y = z
  BY DEF TypeOK
<1>5. \A y, z \in rows' : y.id = z.id \/ (y.dev = z.dev /\ y.at = z.at) => y = z
  BY <1>3, <1>4
<1> QED
  BY <1>1, <1>2, <1>5

LEMMA LoginIssuePreserves ==
    ASSUME IInv, NEW w \in Workers, LoginIssue(w)
    PROVE  IInv'
<1> DEFINE r == [req[w] EXCEPT !.pc = "login_session"]
<1>1. PICK d \in req[w].devs : LoginIssue(w)!(d)
  BY DEF LoginIssue
<1>2. req[w] \in Requests /\ Sound(w) /\ TypeOK /\ LoggedOutStaysOut
  BY RequestTypes DEF IInv
<1>3. d \in Devices /\ req[w].devs = {d} /\ req[w].ids = {}
  BY <1>1, <1>2 DEF Sound, RequestFits, Requests
<1>4. CASE Taken(w, d, req[w].at)
  BY <1>1, <1>4, EndPreserves
<1>5. CASE ~Taken(w, d, req[w].at)
  <2> DEFINE x == [id |-> nextId, dev |-> d, at |-> req[w].at]
  <2>1. /\ GoTo(w, r) /\ rows' = rows \cup {x} /\ nextId' = nextId + 1 /\ nextId < MaxRows
        /\ Settled(w, d, req[w].at) /\ Disturb({d}) /\ out' = out \ {d}
        /\ UNCHANGED <<now, known, session, linkUsed, issued>>
    BY <1>1, <1>5
  <2>2. x \in Row /\ x.id = nextId /\ x.dev = d /\ x.at = req[w].at
    BY <1>2, <1>3 DEF TypeOK, Row, Requests
  <2>3. r \in Requests /\ r.pc = "login_session" /\ r.devs = {d} /\ r.ids = {}
    BY <1>2, <1>3, <2>2 DEF Requests, Stages
  <2> HIDE DEF r, x
  <2>4. /\ req' \in [Workers -> Requests] /\ req'[w] = r /\ \A v \in Workers \ {w} : req'[v] = req[v]
    BY <1>2, <2>1, <2>3, OneRequest
  <2>5. \A y \in rows : ~(y.dev = x.dev /\ y.at = x.at)
    BY <1>3, <1>5, <2>2 DEF Taken
  <2>6. /\ rows' \subseteq Row /\ nextId' \in 0..MaxRows /\ \A y \in rows' : y.id < nextId'
        /\ \A y, z \in rows' : y.id = z.id \/ (y.dev = z.dev /\ y.at = z.at) => y = z
    BY <1>2, <2>1, <2>2, <2>5, NewRowTypes
  <2>7. disturbed' \subseteq Workers
    BY <1>2, <2>1, DisturbTypes
  <2>8. TypeOK'
    BY <1>2, <2>1, <2>4, <2>6, <2>7 DEF TypeOK, Requests
  <2>9. LoggedOutStaysOut'
    BY <1>2, <2>1, <2>2 DEF LoggedOutStaysOut, RowsOf
  <2>10. Sound(w)'
    <3>1. {d} \cap out' = {}
      BY <2>1
    <3>2. IssueFits(w)'
      BY <2>3, <2>4, <3>1 DEF IssueFits
    <3>3. RequestFits(w)'
      BY <1>3, <2>3, <2>4 DEF RequestFits, Locking
    <3>4. RefreshFits(w)'
      BY <2>3, <2>4 DEF RefreshFits, Locking, Inserted
    <3>5. RevocationFits(w)'
      BY <2>3, <2>4 DEF RevocationFits
    <3> QED
      BY <3>2, <3>3, <3>4, <3>5 DEF Sound
  <2>11. ASSUME NEW v \in Workers \ {w} PROVE Sound(v)'
    <3>1. req[v].pc \in Inserted => x.dev \notin req[v].devs \/ req[v].at # x.at
      BY <2>1, <2>2 DEF Settled, Inserting, Inserted
    <3>2. (\A y \in rows' : y \in rows \/ y = x) /\ (\A y \in rows : y \in rows') /\ out' \subseteq out
      BY <2>1
    <3> QED
      BY <2>1, <2>2, <2>4, <3>1, <3>2, OthersKeepWithNewRow
  <2>12. (\A v \in Workers : \A u \in Workers \ {v} : Apart(v, u))'
    BY <2>1, <2>3, ApartStays DEF Locking
  <2> QED
    BY <2>8, <2>9, <2>10, <2>11, <2>12 DEF IInv
<1> QED
  BY <1>4, <1>5

LEMMA LoginSessionPreserves ==
    ASSUME IInv, NEW w \in Workers, LoginSession(w)
    PROVE  IInv'
<1>1. req[w] \in Requests /\ Sound(w) /\ TypeOK /\ LoggedOutStaysOut
  BY RequestTypes DEF IInv
<1>2. /\ GoTo(w, Idle) /\ req[w].pc = "login_session" /\ session' = session \cup req[w].devs
      /\ issued' = issued \cup Answered(w) /\ Disturb(req[w].devs)
      /\ UNCHANGED <<now, rows, nextId, known, linkUsed, out>>
  BY DEF LoginSession, End
<1>3. /\ req' \in [Workers -> Requests] /\ req'[w] = Idle /\ \A v \in Workers \ {w} : req'[v] = req[v]
  BY <1>1, <1>2, IdleIsSound, OneRequest
<1>4. disturbed \subseteq disturbed' /\ disturbed' \subseteq Workers
  BY <1>1, <1>2, DisturbTypes
<1>5. issued' \subseteq Token /\ session' \subseteq Devices
  BY <1>1, <1>2 DEF Answered, Token, Requests, TypeOK
<1>6. TypeOK'
  BY <1>1, <1>2, <1>3, <1>4, <1>5 DEF TypeOK, Requests
<1>7. LoggedOutStaysOut'
  BY <1>1, <1>2 DEF LoggedOutStaysOut, RowsOf, Sound, IssueFits, Issuing
<1>8. Sound(w)'
  BY <1>3, IdleIsSound
     DEF Sound, RequestFits, RefreshFits, RevocationFits, IssueFits, Issuing, Locking, Inserted
<1>9. ASSUME NEW v \in Workers \ {w} PROVE Sound(v)'
  <2>1. Sound(v) /\ req'[v] = req[v] /\ (v \in disturbed => v \in disturbed')
    BY <1>3, <1>4 DEF IInv
  <2> QED
    BY <1>2, <2>1 DEF Sound, RequestFits, RefreshFits, RevocationFits, IssueFits
<1>10. (\A v \in Workers : \A u \in Workers \ {v} : Apart(v, u))'
  BY <1>2, IdleIsSound, ApartStays DEF Locking
<1> QED
  BY <1>6, <1>7, <1>8, <1>9, <1>10 DEF IInv

LEMMA RefreshCommitPreserves ==
    ASSUME IInv, NEW w \in Workers, RefreshCommit(w)
    PROVE  IInv'
<1>1. PICK d \in req[w].devs : RefreshCommit(w)!(d)
  BY DEF RefreshCommit
<1>2. req[w] \in Requests /\ Sound(w) /\ TypeOK /\ LoggedOutStaysOut
  BY RequestTypes DEF IInv
<1> DEFINE x == [id |-> nextId, dev |-> d, at |-> req[w].at]
<1> DEFINE R == {y \in rows : y.id \notin req[w].ids}
<1>3. d \in Devices /\ req[w].devs = {d} /\ req[w].pc = "refresh_commit" /\ req[w].ids \subseteq 0..MaxRows
  BY <1>1, <1>2 DEF Sound, RequestFits, Requests, Locking
<1>4. /\ GoTo(w, Idle) /\ rows' = R \cup {x} /\ nextId' = nextId + 1 /\ nextId < MaxRows
      /\ issued' = issued \cup Answered(w) /\ Disturb({d})
      /\ UNCHANGED <<now, known, session, linkUsed, out>>
  BY <1>1 DEF End, Exchanged
<1>5. x \in Row /\ x.id = nextId /\ x.dev = d /\ x.at = req[w].at
  BY <1>2, <1>3 DEF TypeOK, Row, Requests
<1>6. \A y \in R : y \in rows /\ y.id \notin req[w].ids
  OBVIOUS
<1>7. R \subseteq rows /\ \A y \in rows : y \in R \/ y.id \in req[w].ids
  OBVIOUS
<1> HIDE DEF x, R
<1>8. /\ req' \in [Workers -> Requests] /\ req'[w] = Idle /\ \A v \in Workers \ {w} : req'[v] = req[v]
  BY <1>2, <1>4, IdleIsSound, OneRequest
<1>9. \A y \in R : ~(y.dev = x.dev /\ y.at = x.at)
  BY <1>2, <1>3, <1>5, <1>6 DEF Sound, RefreshFits, Inserted
<1>10. /\ rows' \subseteq Row /\ nextId' \in 0..MaxRows /\ \A y \in rows' : y.id < nextId'
       /\ \A y, z \in rows' : y.id = z.id \/ (y.dev = z.dev /\ y.at = z.at) => y = z
  BY <1>2, <1>4, <1>5, <1>7, <1>9, NewRowTypes, ZenonT(40)
<1>11. disturbed' \subseteq Workers
  BY <1>2, <1>4, DisturbTypes
<1>12. issued' \subseteq Token
  BY <1>2, <1>3, <1>4 DEF Answered, Token, Requests, TypeOK
<1>13. TypeOK'
  BY <1>2, <1>4, <1>8, <1>10, <1>11, <1>12 DEF TypeOK, Requests
<1>14. d \notin out
  BY <1>2, <1>3 DEF Sound, IssueFits, Issuing
<1>15. LoggedOutStaysOut'
  BY <1>2, <1>4, <1>5, <1>7, <1>14 DEF LoggedOutStaysOut, RowsOf
<1>16. Sound(w)'
  BY <1>8, IdleIsSound
     DEF Sound, RequestFits, RefreshFits, RevocationFits, IssueFits, Issuing, Locking, Inserted
<1>17. ASSUME NEW v \in Workers \ {w} PROVE Sound(v)'
  <2>1. Apart(v, w)
    BY DEF IInv
  <2>2. req[v].pc \in Inserted => x.dev \notin req[v].devs \/ req[v].at # x.at
    BY <1>3, <1>5, <2>1 DEF Apart, Inserted
  <2>3. \A y \in rows : y \in rows' \/ (req[v].pc \in Locking => y.id \notin req[v].ids)
    BY <1>3, <1>4, <1>7, <2>1 DEF Apart, Locking
  <2>4. (\A y \in rows' : y \in rows \/ y = x) /\ out' \subseteq out
    BY <1>4, <1>7
  <2> QED
    BY <1>4, <1>5, <1>8, <2>2, <2>3, <2>4, OthersKeepWithNewRow
<1>18. (\A v \in Workers : \A u \in Workers \ {v} : Apart(v, u))'
  BY <1>4, IdleIsSound, ApartStays DEF Locking
<1> QED
  BY <1>13, <1>15, <1>16, <1>17, <1>18 DEF IInv

----------------------------------------------------------------------------
(* Revocations. *)

\* Other requests keep what they know when a revocation removes rows nobody has locked.
LEMMA OthersKeepWithFewerRows ==
    ASSUME IInv, NEW w \in Workers, NEW v \in Workers \ {w}, ~Locked(w, req[w].ids),
           rows' = {x \in rows : x.id \notin req[w].ids}, req'[v] = req[v],
           UNCHANGED <<nextId, out>>, v \in disturbed => v \in disturbed'
    PROVE  Sound(v)'
<1>1. Sound(v) /\ \A x \in rows' : x \in rows
  BY DEF IInv
<1>2. req[v].pc \in Locking => \A x \in rows : x.id \in req[v].ids => x \in rows'
  BY DEF Locked, Locking
<1>3. RequestFits(v)' /\ RevocationFits(v)' /\ IssueFits(v)'
  BY <1>1 DEF Sound, RequestFits, RevocationFits, IssueFits
<1>4. RefreshFits(v)'
  <2>1. req[v].pc \in {"refresh_delete"} \cup Locking => \A x \in rows' : x.id \in req[v].ids => x.dev \in req[v].devs
    BY <1>1 DEF Sound, RefreshFits
  <2>2. req[v].pc \in Locking => \A i \in req[v].ids : \E x \in rows' : x.id = i
    BY <1>1, <1>2 DEF Sound, RefreshFits
  <2>3. req[v].pc \in Inserted => \A x \in rows' : x.dev \in req[v].devs /\ x.at = req[v].at => x.id \in req[v].ids
    BY <1>1 DEF Sound, RefreshFits
  <2> QED
    BY <2>1, <2>2, <2>3 DEF RefreshFits
<1> QED
  BY <1>3, <1>4 DEF Sound

LEMMA FewerRowsTypes ==
    ASSUME TypeOK, rows' \subseteq rows, UNCHANGED nextId
    PROVE  /\ rows' \subseteq Row /\ nextId' \in 0..MaxRows /\ \A y \in rows' : y.id < nextId'
           /\ \A y, z \in rows' : y.id = z.id \/ (y.dev = z.dev /\ y.at = z.at) => y = z
  BY DEF TypeOK

LEMMA LogoutDeletePreserves ==
    ASSUME IInv, NEW w \in Workers, LogoutDelete(w)
    PROVE  IInv'
<1> DEFINE r == [req[w] EXCEPT !.pc = "logout_session"]
<1>1. req[w] \in Requests /\ Sound(w) /\ TypeOK /\ LoggedOutStaysOut
  BY RequestTypes DEF IInv
<1>2. /\ GoTo(w, r) /\ req[w].pc = "logout_delete" /\ ~Locked(w, req[w].ids)
      /\ rows' = {x \in rows : x.id \notin req[w].ids}
      /\ UNCHANGED <<now, nextId, known, session, linkUsed, issued, disturbed, out>>
  BY DEF LogoutDelete, historyVars
<1>3. r \in Requests /\ r.pc = "logout_session" /\ r.devs = req[w].devs /\ r.ids = req[w].ids
  BY <1>1 DEF Requests, Stages
<1> HIDE DEF r
<1>4. /\ req' \in [Workers -> Requests] /\ req'[w] = r /\ \A v \in Workers \ {w} : req'[v] = req[v]
  BY <1>1, <1>2, <1>3, OneRequest
<1>5. rows' \subseteq rows
  BY <1>2
<1>6. TypeOK'
  BY <1>1, <1>2, <1>4, <1>5, FewerRowsTypes DEF TypeOK, Requests
<1>7. LoggedOutStaysOut'
  BY <1>1, <1>2, <1>5 DEF LoggedOutStaysOut, RowsOf
<1>8. Sound(w)'
  <2>1. RevocationFits(w)'
    BY <1>1, <1>2, <1>3, <1>4 DEF Sound, RevocationFits
  <2>2. RequestFits(w)' /\ RefreshFits(w)' /\ IssueFits(w)'
    BY <1>1, <1>2, <1>3, <1>4 DEF Sound, RequestFits, RefreshFits, IssueFits, Issuing, Locking, Inserted
  <2> QED
    BY <2>1, <2>2 DEF Sound
<1>9. ASSUME NEW v \in Workers \ {w} PROVE Sound(v)'
  BY <1>2, <1>4, OthersKeepWithFewerRows
<1>10. (\A v \in Workers : \A u \in Workers \ {v} : Apart(v, u))'
  BY <1>2, <1>3, ApartStays DEF Locking
<1> QED
  BY <1>6, <1>7, <1>8, <1>9, <1>10 DEF IInv

LEMMA ResetCommitPreserves ==
    ASSUME IInv, NEW w \in Workers, ResetCommit(w)
    PROVE  IInv'
<1>1. TypeOK /\ LoggedOutStaysOut
  BY DEF IInv
<1>2. /\ GoTo(w, Idle) /\ ~Locked(w, req[w].ids) /\ linkUsed' = TRUE /\ disturbed' = disturbed \ {w}
      /\ rows' = {x \in rows : x.id \notin req[w].ids}
      /\ UNCHANGED <<now, nextId, known, session, issued, out>>
  BY DEF ResetCommit, End
<1>3. /\ req' \in [Workers -> Requests] /\ req'[w] = Idle /\ \A v \in Workers \ {w} : req'[v] = req[v]
  BY <1>1, <1>2, IdleIsSound, OneRequest
<1>4. rows' \subseteq rows /\ disturbed' \subseteq Workers
  BY <1>1, <1>2 DEF TypeOK
<1>5. TypeOK'
  <2>1. linkUsed' \in BOOLEAN
    BY <1>2
  <2>2. now' \in 0..MaxTime /\ session' \subseteq Devices /\ issued' \subseteq Token
    BY <1>1, <1>2 DEF TypeOK
  <2>3. known' \subseteq Devices /\ out' \subseteq Devices
    BY <1>1, <1>2 DEF TypeOK
  <2> QED
    BY <1>1, <1>2, <1>3, <1>4, <2>1, <2>2, <2>3, FewerRowsTypes DEF TypeOK, Requests
<1>6. LoggedOutStaysOut'
  BY <1>1, <1>2, <1>4 DEF LoggedOutStaysOut, RowsOf
<1>7. Sound(w)'
  BY <1>3, IdleIsSound
     DEF Sound, RequestFits, RefreshFits, RevocationFits, IssueFits, Issuing, Locking, Inserted
<1>8. ASSUME NEW v \in Workers \ {w} PROVE Sound(v)'
  BY <1>2, <1>3, OthersKeepWithFewerRows
<1>9. (\A v \in Workers : \A u \in Workers \ {v} : Apart(v, u))'
  BY <1>2, IdleIsSound, ApartStays DEF Locking
<1> QED
  BY <1>5, <1>6, <1>7, <1>8, <1>9 DEF IInv

\* The rows of the device are gone, and nothing but a sign-in that begins is on its way to those
\* that are signed out.
LEMMA LogoutSessionPreserves ==
    ASSUME IInv, NEW w \in Workers, LogoutSession(w)
    PROVE  IInv'
<1>1. req[w] \in Requests /\ Sound(w) /\ TypeOK /\ LoggedOutStaysOut
  BY RequestTypes DEF IInv
<1>2. PICK d \in req[w].devs :
        /\ req[w].pc = "logout_session" /\ session' = session \ {d}
        /\ out' = IF w \in disturbed \/ d \in BeingIssued THEN out ELSE out \cup {d}
        /\ IF req[w].devs = {d}
           THEN End(w) /\ disturbed' = disturbed \ {w}
           ELSE GoTo(w, [req[w] EXCEPT !.devs = @ \ {d}]) /\ UNCHANGED disturbed
        /\ UNCHANGED <<now, rows, nextId, known, linkUsed, issued>>
  BY DEF LogoutSession, SessionsWithout
<1>3. PICK r \in Requests :
        /\ GoTo(w, r) /\ r.pc \in {"idle", "logout_session"} /\ r.devs \subseteq req[w].devs
        /\ (\A i \in r.ids : i \in req[w].ids) /\ (r.pc = "logout_session" => UNCHANGED disturbed)
        /\ disturbed \ {w} \subseteq disturbed' /\ disturbed' \subseteq Workers
  <2>1. CASE req[w].devs = {d}
    BY <1>1, <1>2, <2>1, IdleIsSound DEF End, TypeOK
  <2>2. CASE req[w].devs # {d}
    <3> DEFINE r == [req[w] EXCEPT !.devs = @ \ {d}]
    <3>1. r \in Requests /\ r.pc = "logout_session" /\ r.devs = req[w].devs \ {d} /\ r.ids = req[w].ids
      BY <1>1, <1>2 DEF Requests
    <3>2. GoTo(w, r) /\ UNCHANGED disturbed
      BY <1>2, <2>2
    <3> HIDE DEF r
    <3> QED
      BY <1>1, <3>1, <3>2 DEF TypeOK
  <2> QED
    BY <2>1, <2>2
<1>4. /\ req' \in [Workers -> Requests] /\ req'[w] = r /\ \A v \in Workers \ {w} : req'[v] = req[v]
  BY <1>1, <1>3, OneRequest
<1>5. \A e \in out' : e \in out \/ (w \notin disturbed /\ e = d /\ d \notin BeingIssued)
  BY <1>2
<1>6. TypeOK'
  <2>1. session' \subseteq Devices /\ out' \subseteq Devices
    BY <1>1, <1>2, <1>5 DEF TypeOK, Requests
  <2> QED
    BY <1>1, <1>2, <1>3, <1>4, <2>1 DEF TypeOK, Requests
<1>7. LoggedOutStaysOut'
  <2>1. ASSUME NEW e \in out' PROVE (\A x \in rows : x.dev # e) /\ e \notin session'
    <3>1. CASE e \in out
      BY <1>1, <1>2, <3>1 DEF LoggedOutStaysOut, RowsOf
    <3>2. CASE w \notin disturbed /\ e = d
      BY <1>1, <1>2, <3>2 DEF Sound, RevocationFits
    <3> QED
      BY <1>5, <3>1, <3>2
  <2> QED
    BY <1>2, <2>1 DEF LoggedOutStaysOut, RowsOf
<1>8. Sound(w)'
  <2>1. RevocationFits(w)'
    BY <1>1, <1>2, <1>3, <1>4 DEF Sound, RevocationFits
  <2>2. RequestFits(w)' /\ RefreshFits(w)' /\ IssueFits(w)'
    BY <1>1, <1>2, <1>3, <1>4 DEF Sound, RequestFits, RefreshFits, IssueFits, Issuing, Locking, Inserted
  <2> QED
    BY <2>1, <2>2 DEF Sound
<1>9. ASSUME NEW v \in Workers \ {w} PROVE Sound(v)'
  <2>1. Sound(v) /\ req'[v] = req[v] /\ (v \in disturbed => v \in disturbed')
    BY <1>3, <1>4 DEF IInv
  <2>2. RequestFits(v)' /\ RefreshFits(v)' /\ RevocationFits(v)'
    BY <1>2, <2>1 DEF Sound, RequestFits, RefreshFits, RevocationFits
  <2>3. req[v].pc \in Issuing => \A e \in req[v].devs : e \in BeingIssued
    BY DEF BeingIssued
  <2>4. IssueFits(v)'
    BY <1>5, <2>1, <2>3 DEF Sound, IssueFits
  <2> QED
    BY <2>2, <2>4 DEF Sound
<1>10. (\A v \in Workers : \A u \in Workers \ {v} : Apart(v, u))'
  BY <1>3, ApartStays DEF Locking
<1> QED
  BY <1>6, <1>7, <1>8, <1>9, <1>10 DEF IInv

----------------------------------------------------------------------------
(* All steps. *)

\* The clock and the expiry of a session key touch no request and no row.
LEMMA SurroundingsPreserve ==
    ASSUME IInv, Tick \/ (\E d \in Devices : SessionExpires(d)) \/ UNCHANGED vars
    PROVE  IInv'
<1>1. /\ UNCHANGED <<rows, nextId, known, linkUsed, req, issued, disturbed, out>>
      /\ session' \subseteq session
  BY DEF Tick, SessionExpires, vars, historyVars
<1>2. now' \in 0..MaxTime
  BY DEF Tick, SessionExpires, vars, IInv, TypeOK
<1>3. TypeOK'
  BY <1>1, <1>2 DEF IInv, TypeOK
<1>4. LoggedOutStaysOut'
  BY <1>1 DEF IInv, LoggedOutStaysOut, RowsOf
<1>5. ASSUME NEW w \in Workers PROVE Sound(w)'
  BY <1>1 DEF IInv, Sound, RequestFits, RefreshFits, RevocationFits, IssueFits
<1>6. ASSUME NEW v \in Workers, NEW w \in Workers \ {v} PROVE Apart(v, w)'
  BY <1>1 DEF IInv, Apart
<1> QED
  BY <1>3, <1>4, <1>5, <1>6 DEF IInv

LEMMA NextPreserves == IInv /\ [Next]_vars => IInv'
<1> SUFFICES ASSUME IInv, [Next]_vars PROVE IInv'
  OBVIOUS
<1>1. ASSUME NEW w \in Workers, Step(w) PROVE IInv'
  <2>1. CASE \/ \E d \in Devices : LoginBegin(w, d) \/ LogoutBegin(w, d)
             \/ \E tok \in issued : RefreshBegin(w, tok)
             \/ LogoutDevices(w) \/ ResetBegin(w)
    BY <2>1, BeginningsPreserve
  <2>2. CASE ResetScan(w) \/ LogoutScan(w)
    BY <2>2, ScansPreserve
  <2>3. CASE RefreshReuse(w)
    BY <2>3, EndPreserves DEF RefreshReuse, historyVars
  <2>4. CASE Crash(w)
    BY <2>4, EndPreserves DEF Crash
  <2>5. CASE RefreshFind(w) \/ RefreshDelete(w) \/ RefreshIssue(w) \/ RefreshSession(w) \/ RefreshCommit(w)
    BY <2>5, RefreshFindPreserves, RefreshDeletePreserves, RefreshIssuePreserves, RefreshSessionPreserves,
       RefreshCommitPreserves
  <2>6. CASE LoginIssue(w) \/ LoginSession(w)
    BY <2>6, LoginIssuePreserves, LoginSessionPreserves
  <2>7. CASE LogoutDelete(w) \/ LogoutSession(w) \/ ResetCommit(w)
    BY <2>7, LogoutDeletePreserves, LogoutSessionPreserves, ResetCommitPreserves
  <2> QED
    BY <1>1, <2>1, <2>2, <2>3, <2>4, <2>5, <2>6, <2>7 DEF Step
<1>2. CASE Tick \/ (\E d \in Devices : SessionExpires(d)) \/ UNCHANGED vars
  BY <1>2, SurroundingsPreserve
<1> QED
  BY <1>1, <1>2 DEF Next

THEOREM Invariance == Spec => []IInv
<1>1. Init => IInv
  BY InitEstablishes
<1>2. IInv /\ [Next]_vars => IInv'
  BY NextPreserves
<1> QED
  BY <1>1, <1>2, PTL DEF Spec

\* Row ids are unique and so are the stored tokens, whatever logins and refreshes run at once.
THEOREM TypeCorrect == Spec => []TypeOK
<1>1. IInv => TypeOK
  BY DEF IInv
<1> QED
  BY <1>1, Invariance, PTL

\* A logout that overlapped no sign-in and no refresh of the device lasts until the next
\* sign-in (logout, refreshTokens).
THEOREM LoggedOutLast == Spec => []LoggedOutStaysOut
<1>1. IInv => LoggedOutStaysOut
  BY DEF IInv
<1> QED
  BY <1>1, Invariance, PTL

\* A password reset that overlapped no issue of a token leaves none (resetPassword).
THEOREM ResetsRevoke == Spec => UndisturbedResetRevokes
<1>1. ASSUME IInv, [Next]_vars, NEW w \in Workers, ResetCommit(w), w \notin disturbed
      PROVE  rows' = {}
  <2>1. req[w].pc = "reset_commit" /\ rows' = {r \in rows : r.id \notin req[w].ids}
    BY <1>1 DEF ResetCommit
  <2>2. req[w].devs = Devices /\ \A x \in rows : x.dev \in req[w].devs => x.id \in req[w].ids
    BY <1>1, <2>1 DEF IInv, Sound, RequestFits, RevocationFits
  <2>3. \A x \in rows : x.dev \in Devices
    BY <1>1 DEF IInv, TypeOK, Row
  <2> QED
    BY <2>1, <2>2, <2>3
<1>2. IInv /\ [Next]_vars => [\A w \in Workers : ResetCommit(w) /\ w \notin disturbed => rows' = {}]_vars
  BY <1>1
<1> QED
  BY <1>2, Invariance, PTL DEF Spec, UndisturbedResetRevokes

----------------------------------------------------------------------------
(* What steps do to the rows.                                              *)

\* The steps that are neither a commit of tokens nor a revocation leave the rows alone.
LEMMA RowsRest ==
    ASSUME NEW w \in Workers, Step(w), ~LogoutDelete(w), ~ResetCommit(w), ~LoginIssue(w), ~RefreshCommit(w)
    PROVE  UNCHANGED <<rows, nextId>>
<1>1. CASE \/ \E d \in Devices : LoginBegin(w, d) \/ LogoutBegin(w, d)
           \/ \E tok \in issued : RefreshBegin(w, tok)
           \/ ResetBegin(w)
  BY <1>1 DEF LoginBegin, RefreshBegin, LogoutBegin, ResetBegin
<1>2. CASE \/ LoginSession(w) \/ RefreshFind(w) \/ RefreshReuse(w) \/ RefreshDelete(w) \/ RefreshIssue(w)
           \/ RefreshSession(w) \/ LogoutDevices(w) \/ LogoutScan(w) \/ LogoutSession(w) \/ ResetScan(w)
           \/ Crash(w)
  BY <1>2 DEF LoginSession, RefreshFind, RefreshReuse, RefreshDelete, RefreshIssue, RefreshSession,
              LogoutDevices, LogoutScan, LogoutSession, ResetScan, Crash
<1> QED
  BY <1>1, <1>2 DEF Step

\* A sign-in that finds its token untaken adds a row with it.
LEMMA SignInAdds ==
    ASSUME IInv, NEW w \in Workers, LoginIssue(w)
    PROVE  \E d \in Devices :
             /\ req[w].devs = {d} /\ req[w].at \in 0..MaxTime /\ req[w].pc = "login_issue"
             /\ \/ End(w) /\ UNCHANGED rows
                \/ /\ GoTo(w, [req[w] EXCEPT !.pc = "login_session"])
                   /\ \A y \in rows : ~(y.dev = d /\ y.at = req[w].at)
                   /\ \E n : n.dev = d /\ n.at = req[w].at /\ rows' = rows \cup {n}
<1>1. PICK d \in req[w].devs : LoginIssue(w)!(d)
  BY DEF LoginIssue
<1>2. Sound(w) /\ req[w] \in Requests
  BY RequestTypes DEF IInv
<1>3. d \in Devices /\ req[w].devs = {d} /\ req[w].at \in 0..MaxTime /\ req[w].pc = "login_issue" /\ req[w].ids = {}
  BY <1>1, <1>2 DEF Sound, RequestFits, Requests
<1>4. CASE Taken(w, d, req[w].at)
  BY <1>1, <1>3, <1>4
<1>5. CASE ~Taken(w, d, req[w].at)
  <2> DEFINE n == [id |-> nextId, dev |-> d, at |-> req[w].at]
  <2>1. n.dev = d /\ n.at = req[w].at
    OBVIOUS
  <2>2. rows' = rows \cup {n} /\ GoTo(w, [req[w] EXCEPT !.pc = "login_session"])
    BY <1>1, <1>5
  <2> HIDE DEF n
  <2>3. \A y \in rows : ~(y.dev = d /\ y.at = req[w].at)
    BY <1>3, <1>5 DEF Taken
  <2> QED
    BY <1>3, <2>1, <2>2, <2>3
<1> QED
  BY <1>4, <1>5

\* A refresh replaces a stored row by one of the same device, whose token is in no other row.
LEMMA CommitExchanges ==
    ASSUME IInv, NEW w \in Workers, RefreshCommit(w)
    PROVE  \E d \in Devices, x \in rows :
             /\ x.dev = d /\ req[w].devs = {d} /\ req[w].at \in 0..MaxTime /\ req[w].pc = "refresh_commit"
             /\ End(w)
             /\ \A y \in rows : y.dev = d /\ y.at = req[w].at => y = x
             /\ \E n : n.dev = d /\ n.at = req[w].at /\ rows' = (rows \ {x}) \cup {n}
<1>1. PICK d \in req[w].devs : RefreshCommit(w)!(d)
  BY DEF RefreshCommit
<1>2. Sound(w) /\ req[w].pc = "refresh_commit" /\ req[w] \in Requests
  BY <1>1, RequestTypes DEF IInv
<1>3. d \in Devices /\ req[w].devs = {d} /\ req[w].at \in 0..MaxTime
  BY <1>2 DEF Sound, RequestFits, Locking, Requests
<1>4. PICK i \in 0..MaxRows : req[w].ids = {i}
  BY <1>2 DEF Sound, RequestFits, Locking
<1>5. PICK x \in rows : x.id = i /\ x.dev = d
  BY <1>2, <1>3, <1>4 DEF Sound, RefreshFits, Locking
<1>6. \A y \in rows : y.id = i => y = x
  BY <1>5 DEF IInv, TypeOK
<1>7. \A y \in rows : y.dev = d /\ y.at = req[w].at => y = x
  BY <1>2, <1>3, <1>4, <1>6 DEF Sound, RefreshFits, Inserted
<1> DEFINE n == [id |-> nextId, dev |-> d, at |-> req[w].at]
<1>8. n.dev = d /\ n.at = req[w].at
  OBVIOUS
<1>9. rows' = {y \in rows : y.id \notin {i}} \cup {n} /\ End(w)
  BY <1>1, <1>4 DEF Exchanged
<1> HIDE DEF n
<1>10. rows' = (rows \ {x}) \cup {n}
  BY <1>5, <1>6, <1>9
<1> QED
  BY <1>2, <1>3, <1>5, <1>7, <1>8, <1>9, <1>10

\* Revocations remove rows.
LEMMA RevocationRemoves ==
    ASSUME NEW w \in Workers, LogoutDelete(w) \/ ResetCommit(w)
    PROVE  /\ rows' \subseteq rows /\ req[w].pc \in {"logout_delete", "reset_commit"} /\ UNCHANGED now
           /\ GoTo(w, [req[w] EXCEPT !.pc = "logout_session"]) \/ GoTo(w, Idle)
  BY DEF LogoutDelete, ResetCommit, End

LEMMA FiniteRows == Spec => []IsFiniteSet(rows)
<1>1. Init => IsFiniteSet(rows)
  BY FS_EmptySet DEF Init
<1>2. ASSUME IInv, IsFiniteSet(rows), [Next]_vars PROVE IsFiniteSet(rows')
  <2>1. CASE rows' \subseteq rows
    BY <1>2, <2>1, FS_Subset
  <2>2. CASE ~(rows' \subseteq rows)
    <3>1. PICK w \in Workers : Step(w)
      BY <1>2, <2>2 DEF Next, Tick, SessionExpires, vars
    <3>2. LoginIssue(w) \/ RefreshCommit(w)
      BY <2>2, <3>1, RowsRest, RevocationRemoves
    <3>3. \E x, n : rows' = rows \cup {n} \/ rows' = (rows \ {x}) \cup {n}
      BY <1>2, <2>2, <3>2, SignInAdds, CommitExchanges
    <3>4. PICK x, n : rows' = rows \cup {n} \/ rows' = (rows \ {x}) \cup {n}
      BY <3>3
    <3>5. IsFiniteSet(rows \ {x})
      BY <1>2, FS_Subset
    <3> QED
      BY <1>2, <3>4, <3>5, FS_AddElement
  <2> QED
    BY <2>1, <2>2
<1>3. IInv /\ IsFiniteSet(rows) /\ [Next]_vars => IsFiniteSet(rows)'
  BY <1>2
<1> QED
  BY <1>1, <1>3, Invariance, PTL DEF Spec

\* Only a sign-in adds to the stored tokens of a device: a refresh replaces one of them, however
\* many others present the same token (refreshTokens).
THEOREM OnlySignInsAddTokens == Spec => OnlySignInsAdd
<1>1. ASSUME IInv, IsFiniteSet(rows), [Next]_vars, NEW d \in Devices,
             Cardinality(RowsOf({d}))' > Cardinality(RowsOf({d})), \A w \in Workers : ~LoginIssue(w)
      PROVE  FALSE
  <2> DEFINE R == RowsOf({d})
  <2>1. IsFiniteSet(R) /\ Cardinality(R) \in Nat
    BY <1>1, FS_Subset, FS_CardinalityType DEF RowsOf
  <2>2. ASSUME R' \subseteq R PROVE FALSE
    <3>1. Cardinality(R') <= Cardinality(R) /\ Cardinality(R') \in Nat
      BY <2>1, <2>2, FS_Subset, FS_CardinalityType
    <3> QED
      BY <1>1, <2>1, <3>1
  <2>3. PICK w \in Workers : Step(w)
    BY <1>1, <2>2 DEF Next, Tick, SessionExpires, vars, RowsOf
  <2>4. RefreshCommit(w)
    <3>1. rows' \subseteq rows => R' \subseteq R
      BY DEF RowsOf
    <3> QED
      BY <1>1, <2>2, <2>3, <3>1, RowsRest, RevocationRemoves
  <2>5. PICK e, x, n : x \in rows /\ x.dev = e /\ n.dev = e /\ rows' = (rows \ {x}) \cup {n}
    BY <1>1, <2>4, CommitExchanges
  <2>6. e = d
    BY <2>2, <2>5 DEF RowsOf
  <2>7. x \in R /\ R' = (R \ {x}) \cup {n}
    BY <2>5, <2>6 DEF RowsOf
  <2> HIDE DEF R
  <2>8. IsFiniteSet(R \ {x}) /\ Cardinality(R \ {x}) = Cardinality(R) - 1
    BY <2>1, <2>7, FS_RemoveElement
  <2>9. Cardinality((R \ {x}) \cup {n}) <= Cardinality(R)
    <3>1. \/ Cardinality((R \ {x}) \cup {n}) = Cardinality(R \ {x})
          \/ Cardinality((R \ {x}) \cup {n}) = Cardinality(R \ {x}) + 1
      BY <2>8, FS_AddElement
    <3> QED
      BY <2>1, <2>8, <3>1
  <2>10. Cardinality(R') <= Cardinality(R)
    BY <2>7, <2>9
  <2>11. Cardinality(R') \in Nat
    BY <2>7, <2>8, FS_AddElement, FS_CardinalityType
  <2> QED
    BY <1>1, <2>1, <2>10, <2>11 DEF R
<1>2. IInv /\ IsFiniteSet(rows) /\ [Next]_vars
        => [\A d \in Devices : Cardinality(RowsOf({d}))' > Cardinality(RowsOf({d}))
              => \E w \in Workers : LoginIssue(w)]_vars
  BY <1>1
<1> QED
  BY <1>2, Invariance, FiniteRows, PTL DEF Spec, OnlySignInsAdd

----------------------------------------------------------------------------
(* The stored strings implement TokenFamily.                               *)

SignIns == {"login_issue"}

\* The token a request holds at one of these stages.
Hold(r, pcs) == IF r.pc \in pcs THEN [dev : r.devs, at : {r.at}] ELSE {}

LEMMA HeldMeans ==
    ASSUME NEW pcs
    PROVE  \A t : t \in HeldAt(pcs) <=> \E v \in Workers : t \in Hold(req[v], pcs)
  BY DEF HeldAt, Hold, Answered

\* What is held changes with what the one request holds that is rewritten.
LEMMA HeldChanges ==
    ASSUME TypeOK, NEW w \in Workers, NEW r \in Requests, GoTo(w, r), NEW pcs
    PROVE  /\ Hold(r, pcs) = Hold(req[w], pcs) => HeldAt(pcs)' = HeldAt(pcs)
           /\ Hold(req[w], pcs) = {} => HeldAt(pcs)' = HeldAt(pcs) \cup Hold(r, pcs)
           /\ \A t : Hold(req[w], pcs) = {t} /\ Hold(r, pcs) = {} => HeldAt(pcs)' \in {HeldAt(pcs), HeldAt(pcs) \ {t}}
<1>1. req'[w] = r /\ \A v \in Workers \ {w} : req'[v] = req[v]
  BY OneRequest
<1> DEFINE Others == {t \in UNION {Hold(req[v], pcs) : v \in Workers} : \E v \in Workers \ {w} : t \in Hold(req[v], pcs)}
<1>2. HeldAt(pcs) = Others \cup Hold(req[w], pcs)
  <2>1. \A t : t \in Others <=> \E v \in Workers \ {w} : t \in Hold(req[v], pcs)
    OBVIOUS
  <2> HIDE DEF Others
  <2> QED
    BY <2>1, HeldMeans
<1>3. HeldAt(pcs)' = Others \cup Hold(r, pcs)
  <2>1. \A t : t \in Others <=> \E v \in Workers \ {w} : t \in Hold(req[v], pcs)
    OBVIOUS
  <2> HIDE DEF Others
  <2>2. \A t : t \in HeldAt(pcs)' <=> \E v \in Workers : t \in Hold(req'[v], pcs)
    BY DEF HeldAt, Hold, Answered
  <2> QED
    BY <1>1, <2>1, <2>2
<1> HIDE DEF Others
<1>4. ASSUME NEW t, Hold(req[w], pcs) = {t}, Hold(r, pcs) = {}
      PROVE  HeldAt(pcs)' \in {HeldAt(pcs), HeldAt(pcs) \ {t}}
  BY <1>2, <1>3, <1>4
<1> QED
  BY <1>2, <1>3, <1>4

LEMMA OneToken ==
    ASSUME NEW d, NEW a
    PROVE  [dev : {d}, at : {a}] = {[dev |-> d, at |-> a]}
<1>1. ASSUME NEW u \in [dev : {d}, at : {a}] PROVE u = [dev |-> d, at |-> a]
  BY Zenon
<1>2. [dev |-> d, at |-> a] \in [dev : {d}, at : {a}]
  BY Zenon
<1> QED
  BY <1>1, <1>2

\* A request that holds something holds one token of the one device it is about.
LEMMA HoldsOne ==
    ASSUME IInv, NEW w \in Workers, req[w].pc \in SignIns \cup Locking
    PROVE  \E t \in Token : /\ t.at = req[w].at /\ req[w].devs = {t.dev}
                            /\ req[w].pc \in SignIns => Hold(req[w], SignIns) = {t} /\ Hold(req[w], Locking) = {}
                            /\ req[w].pc \in Locking => Hold(req[w], SignIns) = {} /\ Hold(req[w], Locking) = {t}
<1>1. PICK d \in Devices : req[w].devs = {d}
  BY DEF IInv, Sound, RequestFits, SignIns
<1>2. req[w].at \in 0..MaxTime
  BY RequestTypes DEF IInv, Requests
<1> DEFINE t == [dev |-> d, at |-> req[w].at]
<1>3. t \in Token /\ t.at = req[w].at /\ t.dev = d
  BY <1>2 DEF Token
<1>4. [dev : req[w].devs, at : {req[w].at}] = {t}
  BY <1>1, OneToken
<1> HIDE DEF t
<1> QED
  BY <1>1, <1>3, <1>4 DEF Hold, SignIns, Locking

\* A request that goes on or ends without a change of rows gives up what it held, or keeps it,
\* or holds nothing.
LEMMA ReleaseRefines ==
    ASSUME IInv, NEW w \in Workers, NEW r \in Requests, GoTo(w, r), UNCHANGED <<now, rows>>,
           \/ r.pc \notin SignIns \cup Locking
           \/ r.pc \in Locking /\ req[w].pc \in Locking /\ r.devs = req[w].devs /\ r.at = req[w].at
    PROVE  [Family!Next]_(Family!vars)
<1>1. TypeOK /\ Strings(rows)' = Strings(rows)
  BY DEF IInv, Strings
<1>2. CASE Hold(r, SignIns) = Hold(req[w], SignIns) /\ Hold(r, Locking) = Hold(req[w], Locking)
  BY <1>1, <1>2, HeldChanges DEF Family!vars, SignIns, Locking
<1>3. CASE ~(Hold(r, SignIns) = Hold(req[w], SignIns) /\ Hold(r, Locking) = Hold(req[w], Locking))
  <2>1. r.pc \notin SignIns \cup Locking /\ req[w].pc \in SignIns \cup Locking
    BY <1>3 DEF Hold, SignIns, Locking
  <2>2. Hold(r, SignIns) = {} /\ Hold(r, Locking) = {}
    BY <2>1 DEF Hold
  <2>3. PICK t \in Token :
          \/ Hold(req[w], SignIns) = {t} /\ Hold(req[w], Locking) = {}
          \/ Hold(req[w], SignIns) = {} /\ Hold(req[w], Locking) = {t}
    BY <2>1, HoldsOne
  <2>4. /\ HeldAt(SignIns)' \in {HeldAt(SignIns), HeldAt(SignIns) \ {t}}
        /\ HeldAt(Locking)' \in {HeldAt(Locking), HeldAt(Locking) \ {t}}
    BY <1>1, <2>2, <2>3, HeldChanges
  <2>5. Family!GiveUp(t)
    BY <1>1, <2>4 DEF Family!GiveUp, SignIns, Locking
  <2> QED
    BY <2>5 DEF Family!Next
<1> QED
  BY <1>2, <1>3

\* The token of a sign-in or a refresh is signed now.
LEMMA SigningRefines ==
    ASSUME IInv, NEW w \in Workers, NEW r \in Requests, GoTo(w, r), UNCHANGED <<now, rows>>,
           req[w].pc \notin SignIns \cup Locking, NEW d \in Devices, r.devs = {d}, r.at = now,
           r.pc \in {"login_issue", "refresh_issue"}
    PROVE  Family!Next
<1>1. TypeOK /\ Strings(rows)' = Strings(rows) /\ now \in 0..MaxTime
  BY DEF IInv, Strings, TypeOK
<1> DEFINE t == [dev |-> d, at |-> now]
<1>2. t \in Token /\ t.at = now /\ [dev : {d}, at : {now}] = {t}
  BY <1>1, OneToken DEF Token
<1> HIDE DEF t
<1>3. Hold(req[w], SignIns) = {} /\ Hold(req[w], Locking) = {}
  BY DEF Hold
<1>4. /\ HeldAt(SignIns)' = HeldAt(SignIns) \cup Hold(r, SignIns)
      /\ HeldAt(Locking)' = HeldAt(Locking) \cup Hold(r, Locking)
  BY <1>1, <1>3, HeldChanges
<1>5. CASE r.pc = "login_issue"
  <2>1. Hold(r, SignIns) = {t} /\ Hold(r, Locking) = {}
    BY <1>2, <1>5 DEF Hold, SignIns, Locking
  <2>2. Family!SignIn(t)
    BY <1>1, <1>2, <1>4, <2>1 DEF Family!SignIn, SignIns, Locking
  <2> QED
    BY <1>2, <2>2 DEF Family!Next
<1>6. CASE r.pc = "refresh_issue"
  <2>1. Hold(r, SignIns) = {} /\ Hold(r, Locking) = {t}
    BY <1>2, <1>6 DEF Hold, SignIns, Locking
  <2>2. Family!Renew(t)
    BY <1>1, <1>2, <1>4, <2>1 DEF Family!Renew, SignIns, Locking
  <2> QED
    BY <1>2, <2>2 DEF Family!Next
<1> QED
  BY <1>5, <1>6

\* The strings after a row was added.
LEMMA StringsAdd ==
    ASSUME NEW R, NEW n, NEW t, t = [dev |-> n.dev, at |-> n.at]
    PROVE  Strings(R \cup {n}) = Strings(R) \cup {t}
  BY DEF Strings

LEMMA SignInsRefine ==
    ASSUME IInv, NEW w \in Workers, LoginIssue(w)
    PROVE  [Family!Next]_(Family!vars)
<1>1. PICK d \in Devices :
        /\ req[w].devs = {d} /\ req[w].at \in 0..MaxTime /\ req[w].pc = "login_issue"
        /\ \/ End(w) /\ UNCHANGED rows
           \/ /\ GoTo(w, [req[w] EXCEPT !.pc = "login_session"])
              /\ \A y \in rows : ~(y.dev = d /\ y.at = req[w].at)
              /\ \E n : n.dev = d /\ n.at = req[w].at /\ rows' = rows \cup {n}
  BY SignInAdds
<1>2. UNCHANGED now /\ TypeOK /\ req[w] \in Requests
  BY RequestTypes DEF LoginIssue, IInv
<1>3. CASE End(w) /\ UNCHANGED rows
  BY <1>2, <1>3, IdleIsSound, ReleaseRefines DEF End, SignIns, Locking
<1>4. CASE ~(End(w) /\ UNCHANGED rows)
  <2> DEFINE r == [req[w] EXCEPT !.pc = "login_session"]
  <2>1. GoTo(w, r) /\ r \in Requests /\ r.pc = "login_session"
    BY <1>1, <1>2, <1>4 DEF Requests, Stages
  <2> HIDE DEF r
  <2>2. PICK n : n.dev = d /\ n.at = req[w].at /\ rows' = rows \cup {n}
    BY <1>1, <1>4
  <2>3. PICK t \in Token : /\ t.at = req[w].at /\ req[w].devs = {t.dev}
                           /\ Hold(req[w], SignIns) = {t} /\ Hold(req[w], Locking) = {}
    BY <1>1, HoldsOne DEF SignIns
  <2>4. t = [dev |-> n.dev, at |-> n.at]
    BY <1>1, <2>2, <2>3 DEF Token
  <2>5. Strings(rows)' = Strings(rows) \cup {t}
    BY <2>2, <2>4, StringsAdd
  <2>6. t \notin Strings(rows)
    BY <1>1, <1>4, <2>2, <2>4 DEF Strings
  <2>7. Hold(r, SignIns) = {} /\ Hold(r, Locking) = {}
    BY <2>1 DEF Hold, SignIns, Locking
  <2>8. HeldAt(SignIns)' \in {HeldAt(SignIns), HeldAt(SignIns) \ {t}}
    BY <1>2, <2>1, <2>3, <2>7, HeldChanges
  <2>9. HeldAt(Locking)' = HeldAt(Locking)
    BY <1>2, <2>1, <2>3, <2>7, HeldChanges
  <2>10. t \in HeldAt(SignIns)
    BY <2>3, HeldMeans
  <2>11. Family!Issue(t)
    BY <1>2, <2>5, <2>6, <2>8, <2>9, <2>10 DEF Family!Issue, SignIns, Locking
  <2> QED
    BY <2>11 DEF Family!Next
<1> QED
  BY <1>3, <1>4

\* A refresh exchanges the string of its row for the one it has signed.
LEMMA RefreshesRefine ==
    ASSUME IInv, NEW w \in Workers, RefreshCommit(w)
    PROVE  Family!Next
<1>1. PICK d \in Devices, x \in rows :
        /\ x.dev = d /\ req[w].devs = {d} /\ req[w].at \in 0..MaxTime /\ req[w].pc = "refresh_commit"
        /\ End(w)
        /\ \A y \in rows : y.dev = d /\ y.at = req[w].at => y = x
        /\ \E n : n.dev = d /\ n.at = req[w].at /\ rows' = (rows \ {x}) \cup {n}
  BY CommitExchanges
<1>2. UNCHANGED now /\ TypeOK
  BY DEF RefreshCommit, IInv
<1>3. PICK n : n.dev = d /\ n.at = req[w].at /\ rows' = (rows \ {x}) \cup {n}
  BY <1>1
<1>4. PICK t \in Token : /\ t.at = req[w].at /\ req[w].devs = {t.dev}
                         /\ Hold(req[w], SignIns) = {} /\ Hold(req[w], Locking) = {t}
  BY <1>1, HoldsOne DEF Locking
<1>5. t = [dev |-> n.dev, at |-> n.at] /\ t.dev = d
  BY <1>1, <1>3, <1>4 DEF Token
<1> DEFINE old == [dev |-> x.dev, at |-> x.at]
<1>6. old \in Token /\ old.dev = d /\ old \in Strings(rows)
  BY <1>1, <1>2 DEF TypeOK, Row, Token, Strings
<1>7. Strings(rows \ {x}) = Strings(rows) \ {old}
  <2>1. \A y \in rows : y.dev = x.dev /\ y.at = x.at => y = x
    BY <1>2 DEF TypeOK
  <2> QED
    BY <2>1 DEF Strings
<1>8. Strings(rows)' = (Strings(rows) \ {old}) \cup {t}
  BY <1>3, <1>5, <1>7, StringsAdd
<1>9. t \notin Strings(rows) \ {old}
  <2>1. ASSUME NEW y \in rows, t = [dev |-> y.dev, at |-> y.at] PROVE y = x
    BY <1>1, <1>4, <1>5, <2>1
  <2> QED
    BY <2>1 DEF Strings
<1> HIDE DEF old
<1>10. Hold(Idle, SignIns) = Hold(req[w], SignIns) /\ Hold(Idle, Locking) = {}
  BY <1>4, IdleIsSound DEF Hold, SignIns, Locking
<1> DEFINE r == Idle
<1>15. r \in Requests /\ GoTo(w, r) /\ Hold(r, SignIns) = Hold(req[w], SignIns) /\ Hold(r, Locking) = {}
  BY <1>1, <1>10, IdleIsSound DEF End
<1> HIDE DEF r
<1>11. HeldAt(Locking)' \in {HeldAt(Locking), HeldAt(Locking) \ {t}}
  BY <1>2, <1>4, <1>15, HeldChanges
<1>12. HeldAt(SignIns)' = HeldAt(SignIns)
  BY <1>2, <1>15, HeldChanges
<1>13. t \in HeldAt(Locking)
  BY <1>4, HeldMeans
<1>14. Family!Exchange(old, t)
  BY <1>2, <1>5, <1>6, <1>8, <1>9, <1>11, <1>12, <1>13 DEF Family!Exchange, SignIns, Locking
<1> QED
  BY <1>6, <1>14 DEF Family!Next

\* A revocation takes some of the strings.
LEMMA RevocationsRefine ==
    ASSUME IInv, NEW w \in Workers, LogoutDelete(w) \/ ResetCommit(w)
    PROVE  Family!Next
<1>1. /\ rows' \subseteq rows /\ req[w].pc \in {"logout_delete", "reset_commit"} /\ UNCHANGED now
      /\ GoTo(w, [req[w] EXCEPT !.pc = "logout_session"]) \/ GoTo(w, Idle)
  BY RevocationRemoves
<1>2. TypeOK /\ req[w] \in Requests
  BY RequestTypes DEF IInv
<1>3. PICK r \in Requests : GoTo(w, r) /\ r.pc \in {"idle", "logout_session"}
  <2>1. CASE GoTo(w, Idle)
    BY <2>1, IdleIsSound
  <2>2. CASE GoTo(w, [req[w] EXCEPT !.pc = "logout_session"])
    BY <1>2, <2>2 DEF Requests, Stages
  <2> QED
    BY <1>1, <2>1, <2>2
<1>4. HeldAt(SignIns)' = HeldAt(SignIns) /\ HeldAt(Locking)' = HeldAt(Locking)
  <2>1. \A pcs \in {SignIns, Locking} : Hold(r, pcs) = Hold(req[w], pcs)
    BY <1>1, <1>3 DEF Hold, SignIns, Locking
  <2> QED
    BY <1>2, <1>3, <2>1, HeldChanges
<1> DEFINE T == Strings(rows) \ Strings(rows)'
<1>5. T \subseteq Strings(rows) /\ Strings(rows)' = Strings(rows) \ T
  BY <1>1 DEF Strings
<1> HIDE DEF T
<1>6. Family!Revoke(T)
  BY <1>1, <1>4, <1>5 DEF Family!Revoke, SignIns, Locking
<1> QED
  BY <1>5, <1>6 DEF Family!Next

\* Steps of a request that are none of these leave the rows, and hold nothing new.
LEMMA RestsRefine ==
    ASSUME IInv, NEW w \in Workers,
           \/ \E d \in Devices : LogoutBegin(w, d)
           \/ \E tok \in issued : RefreshBegin(w, tok)
           \/ LoginSession(w) \/ RefreshFind(w) \/ RefreshReuse(w) \/ RefreshIssue(w) \/ RefreshSession(w)
           \/ LogoutDevices(w) \/ LogoutScan(w) \/ LogoutSession(w) \/ ResetBegin(w) \/ ResetScan(w)
           \/ Crash(w)
    PROVE  [Family!Next]_(Family!vars)
<1>1. req[w] \in Requests /\ TypeOK
  BY RequestTypes DEF IInv
<1>2. UNCHANGED <<now, rows>>
  BY DEF LogoutBegin, RefreshBegin, LoginSession, RefreshFind, RefreshReuse, RefreshIssue, RefreshSession,
         LogoutDevices, LogoutScan, LogoutSession, ResetBegin, ResetScan, Crash
<1>3. CASE LoginSession(w) \/ RefreshReuse(w) \/ Crash(w)
  BY <1>2, <1>3, IdleIsSound, ReleaseRefines DEF LoginSession, RefreshReuse, Crash, End, SignIns, Locking
<1>4. CASE RefreshIssue(w) \/ RefreshSession(w)
  <2>1. CASE End(w)
    BY <1>2, <2>1, IdleIsSound, ReleaseRefines DEF End, SignIns, Locking
  <2>2. CASE ~End(w)
    <3>1. PICK pc \in {"refresh_session", "refresh_commit"} : GoTo(w, [req[w] EXCEPT !.pc = pc]) /\ req[w].pc \in Locking
      BY <1>4, <2>2 DEF RefreshIssue, RefreshSession, Locking
    <3> DEFINE r == [req[w] EXCEPT !.pc = pc]
    <3>2. r \in Requests /\ r.pc \in Locking /\ r.devs = req[w].devs /\ r.at = req[w].at
      BY <1>1 DEF Requests, Stages, Locking
    <3>3. GoTo(w, r)
      BY <3>1
    <3> HIDE DEF r
    <3> QED
      BY <1>2, <3>1, <3>2, <3>3, ReleaseRefines
  <2> QED
    BY <2>1, <2>2
<1>5. CASE \/ \E d \in Devices : LogoutBegin(w, d)
           \/ \E tok \in issued : RefreshBegin(w, tok)
           \/ RefreshFind(w) \/ LogoutDevices(w) \/ LogoutScan(w) \/ LogoutSession(w)
           \/ ResetBegin(w) \/ ResetScan(w)
  <2>1. req[w].pc \notin SignIns \cup Locking
    BY <1>5, IdleIsSound
       DEF LogoutBegin, RefreshBegin, ResetBegin, Begin, RefreshFind, LogoutDevices, LogoutScan, LogoutSession,
           ResetScan, SignIns, Locking
  <2>2. PICK r : GoTo(w, r) /\ r.pc \notin SignIns \cup Locking
    <3> DEFINE Elsewhere == {"refresh_find", "refresh_delete", "logout_devices", "logout_scan_all", "logout_scan",
                             "logout_delete", "logout_session", "reset_scan", "reset_commit", "idle"}
    <3>1. ASSUME NEW d \in Devices, LogoutBegin(w, d)
          PROVE  \E r : GoTo(w, r) /\ r.pc \in Elsewhere
      <4>1. \/ GoTo(w, [Idle EXCEPT !.pc = "logout_scan", !.devs = {d}])
            \/ GoTo(w, [Idle EXCEPT !.pc = "logout_devices"])
        BY <3>1 DEF LogoutBegin, Begin
      <4>2. CASE GoTo(w, [Idle EXCEPT !.pc = "logout_scan", !.devs = {d}])
        <5> DEFINE r == [Idle EXCEPT !.pc = "logout_scan", !.devs = {d}]
        <5>1. r.pc \in Elsewhere
          BY <1>1, IdleIsSound DEF Requests
        <5>2. GoTo(w, r)
          BY <4>2 DEF Idle
        <5> HIDE DEF r
        <5> QED
          BY <5>1, <5>2
      <4>3. CASE GoTo(w, [Idle EXCEPT !.pc = "logout_devices"])
        <5> DEFINE r == [Idle EXCEPT !.pc = "logout_devices"]
        <5>1. r.pc \in Elsewhere
          BY <1>1, IdleIsSound DEF Requests
        <5>2. GoTo(w, r)
          BY <4>3 DEF Idle
        <5> HIDE DEF r
        <5> QED
          BY <5>1, <5>2
      <4> QED
        BY <4>1, <4>2, <4>3
    <3>2. ASSUME NEW tok \in issued, RefreshBegin(w, tok)
          PROVE  \E r : GoTo(w, r) /\ r.pc \in Elsewhere
      <4> DEFINE r == [Idle EXCEPT !.pc = "refresh_find", !.devs = {tok.dev}, !.at = tok.at]
      <4>1. r.pc \in Elsewhere
        BY <1>1, IdleIsSound DEF Requests
      <4>2. GoTo(w, r)
        BY <3>2 DEF RefreshBegin, Begin
      <4> HIDE DEF r
      <4> QED
        BY <4>1, <4>2
    <3>3. ASSUME ResetBegin(w)
          PROVE  \E r : GoTo(w, r) /\ r.pc \in Elsewhere
      <4> DEFINE r == [Idle EXCEPT !.pc = "reset_scan", !.devs = Devices]
      <4>1. r.pc \in Elsewhere
        BY <1>1, IdleIsSound DEF Requests
      <4>2. GoTo(w, r)
        BY <3>3 DEF ResetBegin, Begin
      <4> HIDE DEF r
      <4> QED
        BY <4>1, <4>2
    <3>4. ASSUME RefreshFind(w)
          PROVE  \E r : GoTo(w, r) /\ r.pc \in Elsewhere
      <4> DEFINE r == [req[w] EXCEPT !.pc = "refresh_delete", !.ids = Ids(Presented(w))]
      <4>1. r.pc \in Elsewhere
        BY <1>1, IdleIsSound DEF Requests
      <4>2. GoTo(w, r)
        BY <3>4 DEF RefreshFind
      <4> HIDE DEF r
      <4> QED
        BY <4>1, <4>2
    <3>5. ASSUME LogoutDevices(w)
          PROVE  \E r : GoTo(w, r) /\ r.pc \in Elsewhere
      <4> DEFINE r == [req[w] EXCEPT !.pc = "logout_scan_all", !.devs = known]
      <4>1. r.pc \in Elsewhere
        BY <1>1, IdleIsSound DEF Requests
      <4>2. GoTo(w, r)
        BY <3>5 DEF LogoutDevices
      <4> HIDE DEF r
      <4> QED
        BY <4>1, <4>2
    <3>6. ASSUME ResetScan(w)
          PROVE  \E r : GoTo(w, r) /\ r.pc \in Elsewhere
      <4> DEFINE r == [req[w] EXCEPT !.pc = "reset_commit", !.ids = Ids(Scanned(Devices))]
      <4>1. r.pc \in Elsewhere
        BY <1>1, IdleIsSound DEF Requests
      <4>2. GoTo(w, r)
        BY <3>6 DEF ResetScan
      <4> HIDE DEF r
      <4> QED
        BY <4>1, <4>2
    <3>7. ASSUME LogoutScan(w)
          PROVE  \E r : GoTo(w, r) /\ r.pc \in Elsewhere
      <4>1. PICK D \in SUBSET Devices : GoTo(w, [req[w] EXCEPT !.pc = "logout_delete", !.ids = Ids(Scanned(D))])
        BY <1>1, <3>7 DEF LogoutScan, Requests
      <4> DEFINE r == [req[w] EXCEPT !.pc = "logout_delete", !.ids = Ids(Scanned(D))]
      <4>2. r.pc \in Elsewhere
        BY <1>1 DEF Requests
      <4>3. GoTo(w, r)
        BY <4>1
      <4> HIDE DEF r
      <4> QED
        BY <4>2, <4>3
    <3>8. ASSUME LogoutSession(w)
          PROVE  \E r : GoTo(w, r) /\ r.pc \in Elsewhere
      <4>1. PICK d \in req[w].devs : GoTo(w, Idle) \/ GoTo(w, [req[w] EXCEPT !.devs = @ \ {d}])
        BY <3>8 DEF LogoutSession, End
      <4> DEFINE r == [req[w] EXCEPT !.devs = @ \ {d}]
      <4>2. r.pc \in Elsewhere
        BY <1>1, <3>8 DEF Requests, LogoutSession, At
      <4>3. GoTo(w, Idle) \/ GoTo(w, r)
        BY <4>1
      <4>4. Idle.pc \in Elsewhere
        BY IdleIsSound
      <4> HIDE DEF r
      <4> QED
        BY <4>2, <4>3, <4>4
    <3>9. PICK r : GoTo(w, r) /\ r.pc \in Elsewhere
      BY <1>5, <3>1, <3>2, <3>3, <3>4, <3>5, <3>6, <3>7, <3>8
    <3> QED
      BY <3>9 DEF SignIns, Locking
  <2>3. r \in Requests
    <3>1. IInv' /\ req'[w] = r
      BY <1>1, <1>5, <2>2, NextPreserves DEF Next, Step, GoTo, TypeOK
    <3> QED
      BY <3>1 DEF IInv, TypeOK, Requests
  <2> QED
    BY <1>2, <2>1, <2>2, <2>3, ReleaseRefines
<1> QED
  BY <1>3, <1>4, <1>5

\* Every step is a step of the family or none.
LEMMA StepRefines == IInv /\ [Next]_vars => [Family!Next]_(Family!vars)
<1> SUFFICES ASSUME IInv, [Next]_vars PROVE [Family!Next]_(Family!vars)
  OBVIOUS
<1>1. CASE Tick
  <2>1. /\ now' = now + 1 /\ UNCHANGED <<rows, req>>
    BY <1>1 DEF Tick
  <2>2. Family!Tick
    BY <2>1 DEF Family!Tick, Strings, HeldAt, Answered
  <2> QED
    BY <2>2 DEF Family!Next
<1>2. CASE UNCHANGED vars \/ \E d \in Devices : SessionExpires(d)
  BY <1>2 DEF vars, SessionExpires, Family!vars, Strings, HeldAt, Answered
<1>3. ASSUME NEW w \in Workers, Step(w) PROVE [Family!Next]_(Family!vars)
  <2>1. req[w] \in Requests /\ now \in 0..MaxTime
    BY RequestTypes DEF IInv, TypeOK
  <2>2. ASSUME NEW d \in Devices, LoginBegin(w, d) PROVE [Family!Next]_(Family!vars)
    <3> DEFINE r == [Idle EXCEPT !.pc = "login_issue", !.devs = {d}, !.at = now]
    <3>1. r \in Requests /\ r.pc = "login_issue" /\ r.devs = {d} /\ r.at = now
      BY <2>1, IdleIsSound DEF Requests, Stages
    <3>2. GoTo(w, r) /\ UNCHANGED <<now, rows>> /\ req[w].pc \notin SignIns \cup Locking
      BY <2>2 DEF LoginBegin, Begin, SignIns, Locking
    <3> HIDE DEF r
    <3> QED
      BY <3>1, <3>2, SigningRefines
  <2>3. CASE RefreshDelete(w)
    <3>1. UNCHANGED <<now, rows>> /\ req[w].pc = "refresh_delete"
      BY <2>3 DEF RefreshDelete
    <3>2. CASE End(w)
      BY <3>1, <3>2, IdleIsSound, ReleaseRefines DEF End, SignIns, Locking
    <3>3. CASE ~End(w)
      <4> DEFINE r == [req[w] EXCEPT !.pc = "refresh_issue", !.at = now]
      <4>1. PICK d \in Devices : req[w].devs = {d}
        BY <3>1 DEF IInv, Sound, RequestFits
      <4>2. r \in Requests /\ r.pc = "refresh_issue" /\ r.devs = {d} /\ r.at = now
        BY <2>1, <4>1 DEF Requests, Stages
      <4>3. GoTo(w, r)
        BY <2>3, <3>3 DEF RefreshDelete
      <4> HIDE DEF r
      <4> QED
        BY <3>1, <4>2, <4>3, SigningRefines DEF SignIns, Locking
    <3> QED
      BY <3>2, <3>3
  <2>4. CASE LoginIssue(w) \/ RefreshCommit(w) \/ LogoutDelete(w) \/ ResetCommit(w)
    BY <2>4, SignInsRefine, RefreshesRefine, RevocationsRefine
  <2> QED
    BY <1>3, <2>2, <2>3, <2>4, RestsRefine DEF Step
<1> QED
  BY <1>1, <1>2, <1>3 DEF Next

\* Whatever sign-ins, refreshes, logouts, resets and crashes overlap, the stored strings are a
\* token family: a refresh exchanges a stored token of its device in one step, and a token that
\* is gone comes back only from a request that signed it in the token's own second.
THEOREM TokensAreAFamily == Spec => ImplementsTokenFamily
<1>1. Init => Family!Init
  BY DEF Init, Family!Init, Strings, HeldAt, Idle
<1>2. Spec => Family!Spec
  BY <1>1, StepRefines, Invariance, PTL DEF Spec, Family!Spec
<1> QED
  BY <1>2 DEF ImplementsTokenFamily
=============================================================================
