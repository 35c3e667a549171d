------------------------- MODULE PushNotifications -------------------------
(***************************************************************************)
(* Push notifications for messages of one conversation to recipients that  *)
(* are offline (notifications.service.ts), with what they depend on: the   *)
(* recipient's participant row, the devices rows that login writes and the *)
(* FCM tokens of the apps.                                                 *)
(*                                                                         *)
(* deliverToParticipants starts a notification and does not wait for it,   *)
(* so it may run beside anything.  Every query, and the call of FCM, is    *)
(* one step.  A devices row is keyed by the deviceId the client chose; its *)
(* id is another value.  FCM is modelled by what the service relies on: an *)
(* app has one token at a time, and a token it replaced never works again. *)
(***************************************************************************)
EXTENDS FiniteSets

CONSTANTS
    Users,
    Recipients,     \* bound: the users that messages are for
    Devices,        \* installed apps, by deviceId
    Tokens,         \* bound: the FCM tokens that may be handed out
    Null,           \* no token, no owner
    Workers         \* notifications and sign-ins that may be in flight together

ASSUME RecipientsAssumption == Recipients \subseteq Users
ASSUME NullAssumption == Null \notin Users \cup Tokens

VARIABLES
    settings,   \* settings[u]: what the participant row of u has against notifications
    device,     \* device[d]: the devices row of d
    app,        \* app[d]: the token FCM gives the app on d
    spent,      \* the tokens FCM has handed out
    req,        \* req[w]: the notification or sign-in worker w is serving
    unwanted    \* history: notifications whose user has not wanted them since they began

vars == <<settings, device, app, spent, req, unwanted>>

Settings == {"leftAt", "isMuted", "notifyOnMessage off"}
Accepted == {app[d] : d \in Devices} \ {Null}

DeviceRows == [owner : Users \cup {Null}, token : Tokens \cup {Null}]

Stages == {"idle", "notify_check", "notify_devices", "notify_send", "notify_remove", "login_write"}

\* user: whom the notification is for, or who signs in; dev: the app the sign-in comes from;
\* tokens: those read, refused or given; found: whether the sign-in has found the devices row.
Requests == [pc : Stages, user : Users \cup {Null}, dev : Devices \cup {Null},
             tokens : SUBSET Tokens, found : BOOLEAN]
Idle == [pc |-> "idle", user |-> Null, dev |-> Null, tokens |-> {}, found |-> FALSE]

Init ==
    /\ settings = [u \in Recipients |-> {}]
    /\ device = [d \in Devices |-> [owner |-> Null, token |-> Null]]
    /\ app = [d \in Devices |-> Null]
    /\ spent = {}
    /\ req = [w \in Workers |-> Idle]
    /\ unwanted = {}

At(w, pc) == req[w].pc = pc
GoTo(w, r) == req' = [req EXCEPT ![w] = r]
End(w) == GoTo(w, Idle) /\ unwanted' = unwanted \ {w}
DevicesOf(u) == {d \in Devices : device[d].owner = u}

----------------------------------------------------------------------------
(* sendToUser for a new message *)

SilentUnlessMember(u) == settings[u] \cap {"isMuted", "notifyOnMessage off"} # {}
Silent(u) == settings[u] # {}

NotifyBegin(w, u) ==
    /\ At(w, "idle")
    /\ GoTo(w, [Idle EXCEPT !.pc = "notify_check", !.user = u])
    /\ unwanted' = IF settings[u] # {} THEN unwanted \cup {w} ELSE unwanted
    /\ UNCHANGED <<settings, device, app, spent>>

\* shouldNotifyUser.
NotifyCheck(w) ==
    /\ At(w, "notify_check")
    /\ IF Silent(req[w].user)
       THEN End(w)
       ELSE GoTo(w, [req[w] EXCEPT !.pc = "notify_devices"]) /\ UNCHANGED unwanted
    /\ UNCHANGED <<settings, device, app, spent>>

NotifyDevices(w) ==
    LET tokens == {device[d].token : d \in DevicesOf(req[w].user)} \ {Null}
    IN  /\ At(w, "notify_devices")
        /\ IF tokens = {}
           THEN End(w)
           ELSE /\ GoTo(w, [req[w] EXCEPT !.pc = "notify_send", !.tokens = tokens])
                /\ UNCHANGED unwanted
        /\ UNCHANGED <<settings, device, app, spent>>

\* sendEachForMulticast: of the tokens that do not work, FCM calls some invalid or
\* unregistered; other errors change nothing.
NotifySend(w) ==
    /\ At(w, "notify_send")
    /\ \E failed \in SUBSET (req[w].tokens \ Accepted) :
          IF failed = {}
          THEN End(w)
          ELSE /\ GoTo(w, [req[w] EXCEPT !.pc = "notify_remove", !.tokens = failed])
               /\ UNCHANGED unwanted
    /\ UNCHANGED <<settings, device, app, spent>>

ClearedByUser(w) == DevicesOf(req[w].user)
Cleared(w) == {d \in Devices : device[d].token \in req[w].tokens}

\* removeInvalidTokens.
NotifyRemove(w) ==
    /\ At(w, "notify_remove")
    /\ device' = [d \in Devices |->
                    IF d \in Cleared(w) THEN [device[d] EXCEPT !.token = Null] ELSE device[d]]
    /\ End(w)
    /\ UNCHANGED <<settings, app, spent>>

\* FCM cannot be reached, the database refuses, or the server stops.
Fail(w) ==
    /\ ~At(w, "idle")
    /\ End(w)
    /\ UNCHANGED <<settings, device, app, spent>>

----------------------------------------------------------------------------
(* The devices rows: login, with the app's token or without one. *)

AnyonesRow(u, d) == device[d].owner # Null
OwnRow(u, d) == device[d].owner = u

LoginBegin(w, u, d, tokens) ==
    /\ At(w, "idle")
    /\ tokens \subseteq {app[d]} \ {Null}
    /\ GoTo(w, [Idle EXCEPT !.pc = "login_write", !.user = u, !.dev = d, !.tokens = tokens,
                            !.found = OwnRow(u, d)])
    /\ UNCHANGED <<settings, device, app, spent, unwanted>>

\* A row found is updated by id, a token left out of the request stays as it is; a row that
\* was not found is created, which fails if deviceId has a row by now, of whomever.
LoginWrite(w) ==
    LET r == req[w]
        given == IF r.tokens = {} THEN {Null} ELSE r.tokens
    IN  /\ At(w, "login_write")
        /\ IF r.found
           THEN \E t \in given :
                   device' = [device EXCEPT ![r.dev].owner = r.user,
                                            ![r.dev].token = IF t = Null THEN @ ELSE t]
           ELSE IF device[r.dev].owner = Null
           THEN \E t \in given : device' = [device EXCEPT ![r.dev] = [owner |-> r.user, token |-> t]]
           ELSE UNCHANGED device
        /\ End(w)
        /\ UNCHANGED <<settings, app, spent>>

\* registerToken and unregisterToken: the row is looked for by its id, and the value given is
\* the deviceId of the session, so that no row is found and the call fails.
RowId(d) == <<"devices.id", d>>
ASSUME RowIdAssumption == \A d, e \in Devices : RowId(d) # e

Registered(u, d) == {e \in DevicesOf(u) : RowId(e) = d}

RegisterToken(u, d, t) ==
    /\ OwnRow(u, d)
    /\ device' = [e \in Devices |->
                    IF e \in Registered(u, d) THEN [device[e] EXCEPT !.token = t] ELSE device[e]]
    /\ UNCHANGED <<settings, app, spent, req, unwanted>>

----------------------------------------------------------------------------
(* The participant row: mute, unmute, updateNotificationPreferences, and   *)
(* departures and returns (Conversations and GroupMembership have these).  *)

Set(u, s) ==
    /\ "leftAt" \notin settings[u]
    /\ settings' = [settings EXCEPT ![u] = @ \cup {s}]
    /\ UNCHANGED <<device, app, spent, req, unwanted>>

StillUnwanted(u, s) == {w \in unwanted : req[w].user # u \/ settings[u] # {s}}

Unset(u, s) ==
    /\ s \in settings[u]
    /\ "leftAt" \in settings[u] => s = "leftAt"
    /\ settings' = [settings EXCEPT ![u] = @ \ {s}]
    /\ unwanted' = StillUnwanted(u, s)
    /\ UNCHANGED <<device, app, spent, req>>

\* FCM gives the app on d its first or another token.
NewToken(d, t) ==
    /\ t \notin spent
    /\ app' = [app EXCEPT ![d] = t]
    /\ spent' = spent \cup {t}
    /\ UNCHANGED <<settings, device, req, unwanted>>

----------------------------------------------------------------------------

Step(w) ==
    \/ \E u \in Recipients : NotifyBegin(w, u)
    \/ NotifyCheck(w) \/ NotifyDevices(w) \/ NotifySend(w) \/ NotifyRemove(w)
    \/ \E u \in Users, d \in Devices : \E tokens \in SUBSET {app[d]} : LoginBegin(w, u, d, tokens)
    \/ LoginWrite(w)
    \/ Fail(w)

Next ==
    \/ \E w \in Workers : Step(w)
    \/ \E u \in Recipients, s \in Settings : Set(u, s) \/ Unset(u, s)
    \/ \E d \in Devices, t \in Tokens : NewToken(d, t)
    \/ \E u \in Users, d \in Devices : \E t \in {app[d], Null} : RegisterToken(u, d, t)

Spec == Init /\ [][Next]_vars

----------------------------------------------------------------------------
(* Properties *)

\* Every variable has its type.
TypeOK ==
    /\ settings \in [Recipients -> SUBSET Settings]
    /\ device \in [Devices -> DeviceRows]
    /\ app \in [Devices -> Tokens \cup {Null}]
    /\ spent \subseteq Tokens
    /\ req \in [Workers -> Requests]
    /\ unwanted \subseteq Workers

\* A user who muted the conversation, switched its notifications off or left it, and has not
\* taken that back, is notified of no message sent since.
MutedStaysSilent ==
    [][\A w \in Workers : NotifySend(w) => w \notin unwanted]_vars

\* Removing tokens FCM refused never takes one that works, even one the app has been given and
\* a sign-in has stored while FCM was answering.
WorkingTokenStays ==
    [][\A w \in Workers : NotifyRemove(w) =>
          \A d \in Devices : device[d].token \in Accepted => device'[d] = device[d]]_vars

\* No notification of one account reaches an app whose devices row is another account's, even
\* when the other signs in on the device while the notification is under way.
NoForeignPush ==
    [][\A w \in Workers : NotifySend(w) =>
          \A d \in Devices : app[d] \in req[w].tokens => device[d].owner = req[w].user]_vars
=============================================================================
