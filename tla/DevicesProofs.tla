----------------------------- MODULE DevicesProofs -----------------------------
(***************************************************************************)
(* What reaches the devices of an account: that the conversation room      *)
(* follows the participants, for any accounts, sockets and requests, and   *)
(* that push notifications respect the settings and the accounts of the    *)
(* devices whatever runs beside them, for any users, devices, tokens and   *)
(* requests.  The two have nothing but the accounts in common.             *)
(***************************************************************************)
EXTENDS RoomMembership, TLAPS

----------------------------------------------------------------------------
(* The inductive invariant of the room.  MembersHear and OutsidersHearNothing speak of *)
(* some request that is pending; each must be one that will really touch   *)
(* the socket in question.                                                 *)

\* The addition w will join socket s: it has yet to fetch the owner's sockets, or has s among them.
WillJoin(w, s) == \/ req[w].pc \in JoinStages /\ Owner[s] \in req[w].todo
                  \/ req[w].pc = "add_join" /\ s \in req[w].socks

\* The removal or departure w will take socket s out.
WillLeave(w, s) == \/ req[w].pc = "remove_fetch" /\ Owner[s] \in req[w].todo
                   \/ req[w].pc \in {"remove_leave", "leave_room"} /\ s \in req[w].socks

\* Nobody takes part, and nobody is being added, before the conversation exists.
NobodyBefore == ~created => member = {} /\ \A w \in Workers : req[w].pc # "add_check"

\* The sockets a request carries are connected and belong to the user it is serving.
SocksAreTheirs ==
    \A w \in Workers :
      /\ \A s \in req[w].socks : conn[s] # "off"
      /\ req[w].pc \in {"add_join", "remove_leave", "leave_room"} => \A s \in req[w].socks : Owner[s] \in req[w].now
      /\ req[w].pc = "leave_check" => \A s \in req[w].socks : Owner[s] \in req[w].todo /\ req[w].via = "ws"

\* Only an addition serves more than one user.
OneToRemove ==
    \A w \in Workers :
      /\ req[w].pc \in {"remove_check", "remove_fetch", "leave_check"} =>
           \A u, v \in req[w].todo : u = v
      /\ req[w].pc \in {"remove_leave", "leave_room"} => req[w].todo = {}

JoinComes ==
    \A s \in PastReading(member) : s \in astray \/ s \in room \/ \E w \in Workers : WillJoin(w, s)

LeaveComes ==
    \A s \in room : Owner[s] \in member \/ s \in astray \/ \E w \in Workers : WillLeave(w, s)

IInv == TypeOK /\ NobodyBefore /\ SocksAreTheirs /\ OneToRemove /\ JoinComes /\ LeaveComes

----------------------------------------------------------------------------
(* The invariant holds at the start and every step preserves it: one lemma *)
(* per action, one step per conjunct.                                      *)

\* The leaves below are about a few sets and one record each: they see the invariant, the types
\* and the helpers, and cite the action.
USE OwnerAssumption
    DEF IInv, TypeOK, NobodyBefore, SocksAreTheirs, OneToRemove, JoinComes, LeaveComes,
        WillJoin, WillLeave, PastReading, RoomOf, JoinStages,
        ConnStages, Stages, Entries, Requests, Asked, Idle, At, Onward

\* What it is to rewrite one request.
LEMMA OneRequest ==
    ASSUME req \in [Workers -> Requests], NEW w \in Workers, NEW r \in Requests,
           req' = [req EXCEPT ![w] = r]
    PROVE  /\ req' \in [Workers -> Requests]
           /\ req'[w] = r
           /\ \A v \in Workers \ {w} : req'[v] = req[v]
  OBVIOUS

\* Nothing is connected, no request runs.
LEMMA InitEstablishes == Init => IInv
<1> SUFFICES ASSUME Init PROVE IInv
  OBVIOUS
<1> USE DEF Init
<1>1. TypeOK
  OBVIOUS
<1>2. NobodyBefore /\ SocksAreTheirs /\ OneToRemove
  OBVIOUS
<1>3. JoinComes /\ LeaveComes
  OBVIOUS
<1> QED
  BY <1>1, <1>2, <1>3

\* A socket that connects is in no room and carried by no request.
LEMMA ConnectPreserves ==
    ASSUME IInv, NEW s \in Sockets, Connect(s)
    PROVE  IInv'
<1>1. TypeOK'
  BY DEF Connect
<1>2. NobodyBefore'
  BY DEF Connect
<1>3. SocksAreTheirs'
  BY DEF Connect
<1>4. OneToRemove'
  BY DEF Connect
<1>5. JoinComes'
  BY DEF Connect
<1>6. LeaveComes'
  BY DEF Connect
<1> QED
  BY <1>1, <1>2, <1>3, <1>4, <1>5, <1>6

\* Whoever reads that its owner is no participant owes nothing; whoever reads the contrary joins later.
LEMMA ReadConversationsPreserves ==
    ASSUME IInv, NEW s \in Sockets, ReadConversations(s)
    PROVE  IInv'
<1>1. TypeOK'
  BY DEF ReadConversations
<1>2. NobodyBefore'
  BY DEF ReadConversations
<1>3. SocksAreTheirs'
  BY DEF ReadConversations
<1>4. OneToRemove'
  BY DEF ReadConversations
<1>5. JoinComes'
  BY DEF ReadConversations
<1>6. LeaveComes'
  BY DEF ReadConversations
<1> QED
  BY <1>1, <1>2, <1>3, <1>4, <1>5, <1>6

\* A stale read of the participants makes the socket astray.
LEMMA JoinRoomsPreserves ==
    ASSUME IInv, NEW s \in Sockets, JoinRooms(s)
    PROVE  IInv'
<1>1. TypeOK'
  BY DEF JoinRooms
<1>2. NobodyBefore'
  BY DEF JoinRooms
<1>3. SocksAreTheirs'
  BY DEF JoinRooms
<1>4. OneToRemove'
  BY DEF JoinRooms
<1>5. JoinComes'
  BY DEF JoinRooms
<1>6. LeaveComes'
  BY DEF JoinRooms
<1> QED
  BY <1>1, <1>2, <1>3, <1>4, <1>5, <1>6

\* The socket is astray.
LEMMA ConnectFailsPreserves ==
    ASSUME IInv, NEW s \in Sockets, ConnectFails(s)
    PROVE  IInv'
<1>1. TypeOK'
  BY DEF ConnectFails
<1>2. NobodyBefore'
  BY DEF ConnectFails
<1>3. SocksAreTheirs'
  BY DEF ConnectFails
<1>4. OneToRemove'
  BY DEF ConnectFails
<1>5. JoinComes'
  BY DEF ConnectFails
<1>6. LeaveComes'
  BY DEF ConnectFails
<1> QED
  BY <1>1, <1>2, <1>3, <1>4, <1>5, <1>6

\* The socket leaves the room and every request that carries it.
LEMMA DisconnectPreserves ==
    ASSUME IInv, NEW s \in Sockets, Disconnect(s)
    PROVE  IInv'
<1>0. /\ req' \in [Workers -> Requests]
      /\ \A w \in Workers : /\ req'[w].pc = req[w].pc /\ req'[w].via = req[w].via
                             /\ req'[w].todo = req[w].todo /\ req'[w].now = req[w].now
                             /\ req'[w].socks = req[w].socks \ {s}
  BY DEF Disconnect
<1>1. TypeOK'
  BY DEF Disconnect
<1>2. NobodyBefore'
  BY DEF Disconnect
<1>3. SocksAreTheirs'
  BY DEF Disconnect
<1>4. OneToRemove'
  BY DEF Disconnect
<1>5. JoinComes'
  <2>1. ASSUME NEW v \in Workers, NEW x \in Sockets \ {s}, WillJoin(v, x) PROVE WillJoin(v, x)'
    BY <1>0, <2>1
  <2>2. \A x \in PastReading(member)' : x # s /\ x \in PastReading(member)
    BY DEF Disconnect
  <2>3. ASSUME NEW x \in PastReading(member)', x \notin astray', x \notin room'
        PROVE  \E v \in Workers : WillJoin(v, x)'
    <3>1. PICK v \in Workers : WillJoin(v, x)
      BY <2>2, <2>3 DEF Disconnect
    <3> QED
      BY <2>1, <2>2, <2>3, <3>1
  <2> QED
    BY <2>3
<1>6. LeaveComes'
  <2>1. ASSUME NEW v \in Workers, NEW x \in Sockets \ {s}, WillLeave(v, x) PROVE WillLeave(v, x)'
    BY <1>0, <2>1
  <2> QED
    BY <2>1 DEF Disconnect
<1> QED
  BY <1>1, <1>2, <1>3, <1>4, <1>5, <1>6

\* The connected sockets of the participants are astray.
LEMMA CreatePreserves ==
    ASSUME IInv, NEW S \in SUBSET Users, Create(S)
    PROVE  IInv'
<1>1. TypeOK'
  BY DEF Create
<1>2. NobodyBefore'
  BY DEF Create
<1>3. SocksAreTheirs'
  BY DEF Create
<1>4. OneToRemove'
  BY DEF Create
<1>5. JoinComes'
  BY DEF Create
<1>6. LeaveComes'
  BY DEF Create
<1> QED
  BY <1>1, <1>2, <1>3, <1>4, <1>5, <1>6

\* A request that begins has neither committed nor fetched.
LEMMA BeginPreserves ==
    ASSUME IInv, NEW w \in Workers, NEW r \in Requests, Begin(w, r),
           r.pc \in {"add_check", "remove_check", "leave_check", "emit"},
           r.pc = "add_check" => member # {},
           \A s \in r.socks : conn[s] # "off" /\ Owner[s] \in r.todo /\ r.via = "ws",
           r.pc \in {"remove_check", "leave_check"} => \A u, v \in r.todo : u = v
    PROVE  IInv'
<1>1. TypeOK'
  BY DEF Begin
<1>2. NobodyBefore'
  BY DEF Begin
<1>3. SocksAreTheirs'
  BY DEF Begin
<1>4. OneToRemove'
  BY DEF Begin
<1>5. JoinComes'
  BY DEF Begin
<1>6. LeaveComes'
  BY DEF Begin
<1> QED
  BY <1>1, <1>2, <1>3, <1>4, <1>5, <1>6

\* The request will join the sockets that no longer read for themselves.
LEMMA AddCommitPreserves ==
    ASSUME IInv, NEW w \in Workers, AddCommit(w)
    PROVE  IInv'
<1>1. TypeOK'
  BY DEF AddCommit, Committed
<1>2. NobodyBefore'
  BY DEF AddCommit, Committed
<1>3. SocksAreTheirs'
  BY DEF AddCommit, Committed
<1>4. OneToRemove'
  BY DEF AddCommit, Committed
<1>5. JoinComes'
  BY DEF AddCommit, Committed
<1>6. LeaveComes'
  BY DEF AddCommit, Committed
<1> QED
  BY <1>1, <1>2, <1>3, <1>4, <1>5, <1>6

\* The request will take the sockets out.
LEMMA RemoveCommitPreserves ==
    ASSUME IInv, NEW w \in Workers, RemoveCommit(w)
    PROVE  IInv'
<1>1. TypeOK'
  BY DEF RemoveCommit, Committed
<1>2. NobodyBefore'
  BY DEF RemoveCommit, Committed
<1>3. SocksAreTheirs'
  BY DEF RemoveCommit, Committed
<1>4. OneToRemove'
  BY DEF RemoveCommit, Committed
<1>5. JoinComes'
  BY DEF RemoveCommit, Committed
<1>6. LeaveComes'
  BY DEF RemoveCommit, Committed
<1> QED
  BY <1>1, <1>2, <1>3, <1>4, <1>5, <1>6

\* The leaving socket will be taken out, the user's others are astray.
LEMMA LeaveCommitPreserves ==
    ASSUME IInv, NEW w \in Workers, LeaveCommit(w)
    PROVE  IInv'
<1>1. TypeOK'
  <2>1. Idle \in Requests
    OBVIOUS
  <2>2. Onward(w, "leave_room", {}, req[w].todo, req[w].socks) \in Requests
    OBVIOUS
  <2>3. req' \in [Workers -> Requests]
    BY <2>1, <2>2, OneRequest DEF LeaveCommit, Committed
  <2> QED
    BY <2>3 DEF LeaveCommit
<1>2. NobodyBefore'
  BY DEF LeaveCommit, Committed
<1>3. SocksAreTheirs'
  BY DEF LeaveCommit, Committed
<1>4. OneToRemove'
  BY DEF LeaveCommit, Committed
<1>5. JoinComes'
  BY DEF LeaveCommit, Committed
<1>6. LeaveComes'
  BY DEF LeaveCommit, Committed
<1> QED
  BY <1>1, <1>2, <1>3, <1>4, <1>5, <1>6

\* Every connected socket of the user is fetched.
LEMMA FetchSocketsPreserves ==
    ASSUME IInv, NEW w \in Workers, FetchSockets(w)
    PROVE  IInv'
<1>0. PICK u \in req[w].todo :
         req' = [req EXCEPT ![w] =
                   Onward(w, IF At(w, "add_fetch") THEN "add_join" ELSE "remove_leave",
                          req[w].todo \ {u}, {u}, UserSockets(u))]
  BY DEF FetchSockets
<1>1. TypeOK'
  BY <1>0 DEF FetchSockets, UserSockets
<1>2. NobodyBefore'
  BY <1>0 DEF FetchSockets, UserSockets
<1>3. SocksAreTheirs'
  BY <1>0 DEF FetchSockets, UserSockets
<1>4. OneToRemove'
  BY <1>0 DEF FetchSockets, UserSockets
<1>5. JoinComes'
  BY <1>0 DEF FetchSockets, UserSockets
<1>6. LeaveComes'
  BY <1>0 DEF FetchSockets, UserSockets
<1> QED
  BY <1>1, <1>2, <1>3, <1>4, <1>5, <1>6

\* The fetched sockets are in the room, or astray if the member is none any more.
LEMMA JoinRoomPreserves ==
    ASSUME IInv, NEW w \in Workers, JoinRoom(w)
    PROVE  IInv'
<1>1. TypeOK'
  <2>1. Idle \in Requests
    OBVIOUS
  <2>2. Onward(w, "add_fetch", req[w].todo, {}, {}) \in Requests
    OBVIOUS
  <2>3. req' \in [Workers -> Requests]
    BY <2>1, <2>2, OneRequest DEF JoinRoom, LoopAgain
  <2>4. req[w].socks \subseteq {s \in Sockets : conn[s] # "off"}
    OBVIOUS
  <2> QED
    BY <2>3, <2>4 DEF JoinRoom
<1>2. NobodyBefore'
  BY DEF JoinRoom, LoopAgain
<1>3. SocksAreTheirs'
  BY DEF JoinRoom, LoopAgain
<1>4. OneToRemove'
  BY DEF JoinRoom, LoopAgain
<1>5. JoinComes'
  BY DEF JoinRoom, LoopAgain
<1>6. LeaveComes'
  BY DEF JoinRoom, LoopAgain
<1> QED
  BY <1>1, <1>2, <1>3, <1>4, <1>5, <1>6

\* The fetched sockets are out, or astray if the user is a member again.
LEMMA LeaveRoomPreserves ==
    ASSUME IInv, NEW w \in Workers, LeaveRoom(w)
    PROVE  IInv'
<1>1. TypeOK'
  BY DEF LeaveRoom, LoopAgain
<1>2. NobodyBefore'
  BY DEF LeaveRoom, LoopAgain
<1>3. SocksAreTheirs'
  BY DEF LeaveRoom, LoopAgain
<1>4. OneToRemove'
  BY DEF LeaveRoom, LoopAgain
<1>5. JoinComes'
  BY DEF LeaveRoom, LoopAgain
<1>6. LeaveComes'
  BY DEF LeaveRoom, LoopAgain
<1> QED
  BY <1>1, <1>2, <1>3, <1>4, <1>5, <1>6

\* A broadcast changes neither room nor participants.
LEMMA EmitPreserves ==
    ASSUME IInv, NEW w \in Workers, Emit(w)
    PROVE  IInv'
<1>1. TypeOK'
  BY DEF Emit
<1>2. NobodyBefore'
  BY DEF Emit
<1>3. SocksAreTheirs'
  BY DEF Emit
<1>4. OneToRemove'
  BY DEF Emit
<1>5. JoinComes'
  BY DEF Emit
<1>6. LeaveComes'
  BY DEF Emit
<1> QED
  BY <1>1, <1>2, <1>3, <1>4, <1>5, <1>6

\* The sockets the request has not served are astray.
LEMMA AbandonPreserves ==
    ASSUME IInv, NEW w \in Workers, Abandon(w)
    PROVE  IInv'
<1>1. TypeOK'
  BY DEF Abandon
<1>2. NobodyBefore'
  BY DEF Abandon
<1>3. SocksAreTheirs'
  BY DEF Abandon
<1>4. OneToRemove'
  BY DEF Abandon
<1>5. JoinComes'
  BY DEF Abandon
<1>6. LeaveComes'
  BY DEF Abandon
<1> QED
  BY <1>1, <1>2, <1>3, <1>4, <1>5, <1>6

----------------------------------------------------------------------------
(* The steps joined, and the theorems. *)

\* Each disjunct of Next is one of the lemmas; a request begins with no socket, or with the one
\* that asks to leave.
LEMMA NextPreserves == IInv /\ [Next]_vars => IInv'
<1> SUFFICES ASSUME IInv, [Next]_vars PROVE IInv'
  OBVIOUS
<1>1. ASSUME NEW s \in Sockets,
             Connect(s) \/ ReadConversations(s) \/ JoinRooms(s) \/ ConnectFails(s) \/ Disconnect(s)
      PROVE  IInv'
  BY ONLY <1>1, IInv, ConnectPreserves, ReadConversationsPreserves, JoinRoomsPreserves,
     ConnectFailsPreserves, DisconnectPreserves
<1>2. ASSUME NEW S \in SUBSET Users, Create(S) PROVE IInv'
  BY ONLY <1>2, IInv, CreatePreserves
<1>3. ASSUME NEW w \in Workers, NEW S \in SUBSET Users, NEW via \in Entries, AddBegin(w, via, S)
      PROVE  IInv'
  BY <1>3, BeginPreserves DEF AddBegin
<1>4. ASSUME NEW w \in Workers, NEW u \in Users, NEW via \in Entries, RemoveBegin(w, via, u)
      PROVE  IInv'
  BY <1>4, BeginPreserves DEF RemoveBegin
<1>5. ASSUME NEW w \in Workers, NEW s \in Sockets, LeaveBegin(w, s)
      PROVE  IInv'
  BY <1>5, BeginPreserves DEF LeaveBegin
<1>6. ASSUME NEW w \in Workers, NEW u \in Users, LeaveRestBegin(w, u)
      PROVE  IInv'
  BY <1>6, BeginPreserves DEF LeaveRestBegin
<1>7. ASSUME NEW w \in Workers, NEW u \in Users, BroadcastBegin(w, u)
      PROVE  IInv'
  BY <1>7, BeginPreserves DEF BroadcastBegin
<1>8. ASSUME NEW w \in Workers, Server(w) \/ Abandon(w) PROVE IInv'
  BY ONLY <1>8, IInv, AddCommitPreserves, RemoveCommitPreserves, LeaveCommitPreserves,
     FetchSocketsPreserves, JoinRoomPreserves, LeaveRoomPreserves, EmitPreserves, AbandonPreserves
     DEF Server
<1>9. CASE UNCHANGED vars
  BY <1>9 DEF vars
<1> QED
  BY ONLY <1>1, <1>2, <1>3, <1>4, <1>5, <1>6, <1>7, <1>8, <1>9, [Next]_vars DEF Next

\* The invariant of every behaviour.
LEMMA Invariance == Spec => []IInv
<1> HIDE DEF IInv
<1> QED
  BY ONLY InitEstablishes, NextPreserves, PTL DEF Spec

\* The types; in particular no closed socket is in the room (socket.io's part of a disconnection).
THEOREM RoomTypes == Spec => []TypeOK
<1>1. IInv => TypeOK
  OBVIOUS
<1> QED
  BY ONLY <1>1, Invariance, PTL

\* A participant's settled socket is in the room, is about to be joined to it, or is one for which
\* the code has no step: for any number of accounts, devices and requests.
THEOREM ParticipantsHear == Spec => []MembersHear
<1>1. IInv => MembersHear
  BY DEF MembersHear, Settled, Pending
<1> QED
  BY ONLY <1>1, Invariance, PTL

\* A socket in the room belongs to a participant, is about to be taken out, or is one for which the
\* code has no step.
THEOREM OutsidersDoNotHear == Spec => []OutsidersHearNothing
<1>1. IInv => OutsidersHearNothing
  BY DEF OutsidersHearNothing, LeaveStages, Pending
<1> QED
  BY ONLY <1>1, Invariance, PTL


----------------------------------------------------------------------------
(* Push notifications. *)

HIDE OwnerAssumption
     DEF IInv, TypeOK, NobodyBefore, SocksAreTheirs, OneToRemove, JoinComes, LeaveComes,
         WillJoin, WillLeave, PastReading, RoomOf, JoinStages,
         ConnStages, Stages, Entries, Requests, Asked, Idle, At, Onward

CONSTANTS Recipients, Devices, Tokens, Null,
          Notifiers     \* the Workers of PushNotifications

VARIABLES settings, device, app, spent, unwanted,
          push          \* its req

Push == INSTANCE PushNotifications WITH Workers <- Notifiers, req <- push

\* What PushNotifications assumes of its constants.
PushAssumptions == Push!RecipientsAssumption /\ Push!NullAssumption /\ Push!RowIdAssumption

----------------------------------------------------------------------------
(* Its inductive invariant.                                                  *)

\* No token is known that FCM has not handed out.
TokensAreSpent ==
    /\ \A d \in Devices : app[d] \in spent \cup {Null} /\ device[d].token \in spent \cup {Null}
    /\ \A w \in Notifiers : push[w].tokens \subseteq spent

\* A token in use belongs to one app, and only its own devices row can hold it.
OneAppPerToken ==
    \A d, e \in Devices : app[d] # Null /\ app[d] \in {app[e], device[e].token} => d = e

\* A sign-in carries no token in use of another app, and the row it found is still its user's.
SignInsOwn ==
    \A w \in Notifiers : push[w].pc = "login_write" =>
        /\ push[w].user \in Users /\ push[w].dev \in Devices
        /\ \A d \in Devices : app[d] \in push[w].tokens => d = push[w].dev
        /\ push[w].found => device[push[w].dev].owner = push[w].user

\* A notification is for a recipient; what it is about to send to is its user's.
NotifiesOwn ==
    \A w \in Notifiers :
        /\ push[w].pc \in {"notify_check", "notify_devices", "notify_send", "notify_remove"} =>
             push[w].user \in Recipients
        /\ push[w].pc = "notify_send" =>
             \A d \in Devices : app[d] \in push[w].tokens => device[d].owner = push[w].user

\* The tokens about to be removed are in use nowhere.
RefusedAreDead ==
    \A w \in Notifiers : push[w].pc = "notify_remove" => \A d \in Devices : app[d] \notin push[w].tokens

\* A notification that was not wanted when it began has its check still to come.
UnwantedAreChecked ==
    \A w \in unwanted : push[w].pc = "notify_check" /\ settings[push[w].user] # {}

PushInv == /\ PushAssumptions
           /\ Push!TypeOK /\ TokensAreSpent /\ OneAppPerToken /\ SignInsOwn
           /\ NotifiesOwn /\ RefusedAreDead /\ UnwantedAreChecked

USE DEF PushInv, PushAssumptions, Push!RecipientsAssumption, Push!NullAssumption, Push!RowIdAssumption,
        Push!TypeOK, TokensAreSpent, OneAppPerToken, SignInsOwn, NotifiesOwn, RefusedAreDead,
        UnwantedAreChecked, Push!DeviceRows, Push!Stages, Push!Requests, Push!Idle, Push!At,
        Push!GoTo, Push!End, Push!DevicesOf

----------------------------------------------------------------------------
(* The invariant holds at the start and every step preserves it.           *)

\* Nobody is signed in, nothing is asked.
LEMMA PushInitEstablishes == PushAssumptions /\ Push!Init => PushInv
  BY DEF Push!Init

\* A request that changes neither rows nor apps, and what its new stage owes the invariant.
LEMMA NotifierPreserves ==
    ASSUME PushInv, NEW w \in Notifiers, NEW r \in Push!Requests, Push!GoTo(w, r),
           UNCHANGED <<settings, device, app, spent>>,
           r.tokens \subseteq spent,
           r.pc = "login_write" =>
             /\ r.user \in Users /\ r.dev \in Devices
             /\ \A d \in Devices : app[d] \in r.tokens => d = r.dev
             /\ r.found => device[r.dev].owner = r.user,
           r.pc \in {"notify_check", "notify_devices", "notify_send", "notify_remove"} => r.user \in Recipients,
           r.pc = "notify_send" =>
             \A d \in Devices : app[d] \in r.tokens => device[d].owner = r.user,
           r.pc = "notify_remove" => \A d \in Devices : app[d] \notin r.tokens,
           unwanted' \subseteq unwanted \cup {w},
           w \in unwanted' => r.pc = "notify_check" /\ settings[r.user] # {}
    PROVE  PushInv'
<1>1. Push!TypeOK'
  OBVIOUS
<1>2. TokensAreSpent' /\ OneAppPerToken'
  OBVIOUS
<1>3. SignInsOwn'
  OBVIOUS
<1>4. NotifiesOwn' /\ RefusedAreDead'
  OBVIOUS
<1>5. UnwantedAreChecked'
  OBVIOUS
<1> QED
  BY <1>1, <1>2, <1>3, <1>4, <1>5

\* The request ends, or the server stops: an idle request owes nothing.
LEMMA EndPreserves ==
    ASSUME PushInv, NEW w \in Notifiers, Push!End(w), UNCHANGED <<settings, device, app, spent>>
    PROVE  PushInv'
<1> Push!Idle \in Push!Requests
  OBVIOUS
<1> QED
  BY NotifierPreserves

LEMMA NotifyBeginPreserves ==
    ASSUME PushInv, NEW w \in Notifiers, NEW u \in Recipients, Push!NotifyBegin(w, u)
    PROVE  PushInv'
<1> DEFINE r == [Push!Idle EXCEPT !.pc = "notify_check", !.user = u]
<1>1. r \in Push!Requests /\ r.pc = "notify_check" /\ r.user = u /\ r.tokens = {}
  OBVIOUS
<1>2. Push!GoTo(w, r) /\ UNCHANGED <<settings, device, app, spent>>
  BY DEF Push!NotifyBegin
<1>3. unwanted' \subseteq unwanted \cup {w} /\ (w \in unwanted' => settings[u] # {})
  BY DEF Push!NotifyBegin
<1> QED
  BY <1>1, <1>2, <1>3, NotifierPreserves

LEMMA NotifyCheckPreserves ==
    ASSUME PushInv, NEW w \in Notifiers, Push!NotifyCheck(w)
    PROVE  PushInv'
<1>1. CASE Push!Silent(push[w].user)
  BY <1>1, EndPreserves DEF Push!NotifyCheck
<1>2. CASE ~Push!Silent(push[w].user)
  <2> DEFINE r == [push[w] EXCEPT !.pc = "notify_devices"]
  <2>1. r \in Push!Requests /\ r.pc = "notify_devices" /\ r.user \in Recipients /\ r.tokens \subseteq spent
    BY DEF Push!NotifyCheck
  <2>2. Push!GoTo(w, r) /\ UNCHANGED <<settings, device, app, spent, unwanted>> /\ w \notin unwanted
    BY <1>2 DEF Push!NotifyCheck, Push!Silent
  <2> QED
    BY <2>1, <2>2, NotifierPreserves
<1> QED
  BY <1>1, <1>2

LEMMA NotifyDevicesPreserves ==
    ASSUME PushInv, NEW w \in Notifiers, Push!NotifyDevices(w)
    PROVE  PushInv'
<1> DEFINE tokens == {device[d].token : d \in Push!DevicesOf(push[w].user)} \ {Null}
           r == [push[w] EXCEPT !.pc = "notify_send", !.tokens = tokens]
<1>1. CASE tokens = {}
  BY <1>1, EndPreserves DEF Push!NotifyDevices
<1>2. CASE tokens # {}
  <2>1. /\ tokens \subseteq spent /\ tokens \subseteq Tokens
        /\ \A d \in Devices : app[d] \in tokens => device[d].owner = push[w].user
    OBVIOUS
  <2>2. Push!GoTo(w, r) /\ UNCHANGED <<settings, device, app, spent, unwanted>>
    BY <1>2 DEF Push!NotifyDevices
  <2> HIDE DEF tokens
  <2>3. r \in Push!Requests /\ r.pc = "notify_send" /\ r.user = push[w].user /\ r.tokens = tokens
    <3>1. tokens \in SUBSET Tokens /\ push[w] \in Push!Requests
      BY <2>1
    <3> QED
      BY <3>1
  <2>4. w \notin unwanted /\ r.user \in Recipients
    BY <2>3 DEF Push!NotifyDevices
  <2> HIDE DEF r
  <2> QED
    BY <2>1, <2>2, <2>3, <2>4, NotifierPreserves
<1> QED
  BY <1>1, <1>2

LEMMA NotifySendPreserves ==
    ASSUME PushInv, NEW w \in Notifiers, Push!NotifySend(w)
    PROVE  PushInv'
<1>1. PICK failed \in SUBSET (push[w].tokens \ Push!Accepted) :
         IF failed = {} THEN Push!End(w)
         ELSE Push!GoTo(w, [push[w] EXCEPT !.pc = "notify_remove", !.tokens = failed]) /\ UNCHANGED unwanted
  BY DEF Push!NotifySend
<1>2. UNCHANGED <<settings, device, app, spent>> /\ w \notin unwanted
  BY DEF Push!NotifySend
<1>3. CASE failed = {}
  BY <1>1, <1>2, <1>3, EndPreserves
<1>4. CASE failed # {}
  <2> DEFINE r == [push[w] EXCEPT !.pc = "notify_remove", !.tokens = failed]
  <2>1. r \in Push!Requests /\ r.pc = "notify_remove" /\ r.user \in Recipients /\ r.tokens = failed
    <3>1. failed \in SUBSET Tokens /\ push[w] \in Push!Requests /\ push[w].user \in Recipients
      BY DEF Push!NotifySend
    <3> QED
      BY <3>1
  <2>2. failed \subseteq spent /\ \A d \in Devices : app[d] \notin failed
    BY DEF Push!Accepted
  <2>3. Push!GoTo(w, r) /\ UNCHANGED unwanted
    BY <1>1, <1>4
  <2> HIDE DEF r
  <2> QED
    BY <1>2, <2>1, <2>2, <2>3, NotifierPreserves
<1> QED
  BY <1>3, <1>4

\* Only dead tokens are removed.
LEMMA NotifyRemovePreserves ==
    ASSUME PushInv, NEW w \in Notifiers, Push!NotifyRemove(w)
    PROVE  PushInv'
<1>1. /\ device' \in [Devices -> Push!DeviceRows]
      /\ \A d \in Devices : device'[d].owner = device[d].owner /\ device'[d].token \in {device[d].token, Null}
  BY DEF Push!NotifyRemove, Push!Cleared
<1>2. UNCHANGED <<settings, app, spent>> /\ push' = [push EXCEPT ![w] = Push!Idle] /\ unwanted' = unwanted \ {w}
  BY DEF Push!NotifyRemove
<1>3. Push!TypeOK' /\ TokensAreSpent'
  BY <1>1, <1>2
<1>4. OneAppPerToken'
  BY <1>1, <1>2
<1>5. SignInsOwn'
  BY <1>1, <1>2
<1>6. NotifiesOwn' /\ RefusedAreDead'
  BY <1>1, <1>2
<1>7. UnwantedAreChecked'
  BY <1>2
<1> QED
  BY <1>3, <1>4, <1>5, <1>6, <1>7

LEMMA LoginBeginPreserves ==
    ASSUME PushInv, NEW w \in Notifiers, NEW u \in Users, NEW d \in Devices, NEW tokens \in SUBSET {app[d]},
           Push!LoginBegin(w, u, d, tokens)
    PROVE  PushInv'
<1> DEFINE r == [Push!Idle EXCEPT !.pc = "login_write", !.user = u, !.dev = d, !.tokens = tokens,
                             !.found = Push!OwnRow(u, d)]
<1>1. tokens \subseteq spent /\ \A e \in Devices : app[e] \in tokens => e = d
  BY DEF Push!LoginBegin
<1>2. /\ r \in Push!Requests /\ r.pc = "login_write" /\ r.user = u /\ r.dev = d /\ r.tokens = tokens
      /\ r.found => device[d].owner = u
  BY <1>1 DEF Push!OwnRow
<1>3. Push!GoTo(w, r) /\ UNCHANGED <<settings, device, app, spent, unwanted>> /\ w \notin unwanted
  BY DEF Push!LoginBegin
<1> HIDE DEF r
<1> QED
  BY <1>1, <1>2, <1>3, NotifierPreserves

\* The row of the app gets its user, who has it already or finds it free, and the app's token.
LEMMA LoginWritePreserves ==
    ASSUME PushInv, NEW w \in Notifiers, Push!LoginWrite(w)
    PROVE  PushInv'
<1> DEFINE u == push[w].user
           d == push[w].dev
<1>1. u \in Users /\ d \in Devices /\ push[w].tokens \subseteq spent
  BY DEF Push!LoginWrite
<1>2. UNCHANGED <<settings, app, spent>> /\ push' = [push EXCEPT ![w] = Push!Idle] /\ unwanted' = unwanted \ {w}
  BY DEF Push!LoginWrite
<1>3. /\ device' \in [Devices -> Push!DeviceRows]
      /\ \A e \in Devices : device[e].owner # Null => device'[e].owner = device[e].owner
      /\ \A e \in Devices : device'[e].token \in {device[e].token, Null} \/ (e = d /\ device'[e].token \in push[w].tokens)
  <2>1. CASE push[w].found
    <3>1. PICK t \in IF push[w].tokens = {} THEN {Null} ELSE push[w].tokens :
             device' = [device EXCEPT ![d].owner = u, ![d].token = IF t = Null THEN @ ELSE t]
      BY <2>1 DEF Push!LoginWrite
    <3>2. device[d].owner = u
      BY <2>1 DEF Push!LoginWrite
    <3> QED
      BY <1>1, <3>1, <3>2
  <2>2. CASE ~push[w].found /\ device[d].owner = Null
    <3>1. PICK t \in IF push[w].tokens = {} THEN {Null} ELSE push[w].tokens :
             device' = [device EXCEPT ![d] = [owner |-> u, token |-> t]]
      BY <2>2 DEF Push!LoginWrite
    <3> QED
      BY <1>1, <2>2, <3>1
  <2>3. CASE ~push[w].found /\ device[d].owner # Null
    BY <2>3 DEF Push!LoginWrite
  <2> QED
    BY <2>1, <2>2, <2>3
<1>4. \A e \in Devices : app[e] \in push[w].tokens => e = d
  BY DEF Push!LoginWrite
<1>5. Push!TypeOK'
  BY <1>2, <1>3
<1>6. TokensAreSpent'
  BY <1>1, <1>2, <1>3
<1>7. OneAppPerToken'
  BY <1>2, <1>3, <1>4
<1>8. SignInsOwn'
  BY <1>2, <1>3
<1>9. NotifiesOwn' /\ RefusedAreDead'
  BY <1>2, <1>3
<1>10. UnwantedAreChecked'
  BY <1>2
<1> QED
  BY <1>5, <1>6, <1>7, <1>8, <1>9, <1>10

\* A row is looked for by a value that is no row's id.
LEMMA RegisterTokenPreserves ==
    ASSUME PushInv, NEW u \in Users, NEW d \in Devices, NEW t, Push!RegisterToken(u, d, t)
    PROVE  PushInv'
<1>1. Push!Registered(u, d) = {}
  BY DEF Push!Registered
<1>2. device' = device
  BY <1>1 DEF Push!RegisterToken
<1> QED
  BY <1>2 DEF Push!RegisterToken

LEMMA SetPreserves ==
    ASSUME PushInv, NEW u \in Recipients, NEW s \in Push!Settings, Push!Set(u, s)
    PROVE  PushInv'
  BY DEF Push!Set

LEMMA UnsetPreserves ==
    ASSUME PushInv, NEW u \in Recipients, NEW s \in Push!Settings, Push!Unset(u, s)
    PROVE  PushInv'
<1>1. UNCHANGED <<device, app, spent, push>> /\ settings' = [settings EXCEPT ![u] = @ \ {s}]
  BY DEF Push!Unset
<1>2. UnwantedAreChecked'
  BY <1>1 DEF Push!Unset, Push!StillUnwanted
<1>3. unwanted' \subseteq unwanted
  BY DEF Push!Unset, Push!StillUnwanted
<1> QED
  BY <1>1, <1>2, <1>3

\* A token never handed out before is in no row and in no request.
LEMMA NewTokenPreserves ==
    ASSUME PushInv, NEW d \in Devices, NEW t \in Tokens, Push!NewToken(d, t)
    PROVE  PushInv'
<1>1. t \notin spent /\ app' = [app EXCEPT ![d] = t] /\ spent' = spent \cup {t}
      /\ UNCHANGED <<settings, device, push, unwanted>>
  BY DEF Push!NewToken
<1>2. Push!TypeOK' /\ TokensAreSpent'
  BY <1>1
<1>3. OneAppPerToken'
  BY <1>1
<1>4. SignInsOwn'
  BY <1>1
<1>5. NotifiesOwn' /\ RefusedAreDead'
  BY <1>1
<1> QED
  BY <1>1, <1>2, <1>3, <1>4, <1>5

LEMMA PushNextPreserves == PushInv /\ [Push!Next]_(Push!vars) => PushInv'
<1> SUFFICES ASSUME PushInv, [Push!Next]_(Push!vars) PROVE PushInv'
  OBVIOUS
<1> HIDE DEF PushInv
<1>1. ASSUME NEW w \in Notifiers, Push!Step(w) PROVE PushInv'
  <2>1. CASE \E u \in Recipients : Push!NotifyBegin(w, u)
    BY <2>1, NotifyBeginPreserves
  <2>2. CASE Push!NotifyCheck(w) \/ Push!NotifyDevices(w) \/ Push!NotifySend(w) \/ Push!NotifyRemove(w)
    BY <2>2, NotifyCheckPreserves, NotifyDevicesPreserves, NotifySendPreserves, NotifyRemovePreserves
  <2>3. CASE \E u \in Users, d \in Devices : \E tokens \in SUBSET {app[d]} : Push!LoginBegin(w, u, d, tokens)
    BY <2>3, LoginBeginPreserves
  <2>4. CASE Push!LoginWrite(w)
    BY <2>4, LoginWritePreserves
  <2>5. CASE Push!Fail(w)
    BY <2>5, EndPreserves DEF Push!Fail
  <2> QED
    BY <1>1, <2>1, <2>2, <2>3, <2>4, <2>5 DEF Push!Step
<1>2. ASSUME NEW u \in Recipients, NEW s \in Push!Settings, Push!Set(u, s) \/ Push!Unset(u, s) PROVE PushInv'
  BY <1>2, SetPreserves, UnsetPreserves
<1>3. ASSUME NEW d \in Devices, NEW t \in Tokens, Push!NewToken(d, t) PROVE PushInv'
  BY <1>3, NewTokenPreserves
<1>4. ASSUME NEW u \in Users, NEW d \in Devices, NEW t, Push!RegisterToken(u, d, t) PROVE PushInv'
  BY <1>4, RegisterTokenPreserves
<1>5. CASE UNCHANGED Push!vars
  BY <1>5 DEF PushInv, Push!vars
<1> QED
  BY <1>1, <1>2, <1>3, <1>4, <1>5 DEF Push!Next

LEMMA PushInvariance ==
    ASSUME PushAssumptions
    PROVE  Push!Spec => []PushInv
<1> HIDE DEF PushInv, PushAssumptions
<1>1. Push!Init => PushInv
  BY PushInitEstablishes
<1> QED
  BY <1>1, PushNextPreserves, PTL DEF Push!Spec

----------------------------------------------------------------------------
(* The theorems.                                                           *)

\* Every variable has its type.
THEOREM PushTypes ==
    ASSUME PushAssumptions
    PROVE  Push!Spec => []Push!TypeOK
<1>1. PushInv => Push!TypeOK
  OBVIOUS
<1> HIDE DEF PushInv, Push!TypeOK
<1> QED
  BY <1>1, PushInvariance, PTL

\* Who has muted, switched off or left a conversation is notified of no message sent since.
THEOREM UnwantedIsSilent ==
    ASSUME PushAssumptions
    PROVE  Push!Spec => Push!MutedStaysSilent
<1> DEFINE Respects == \A w \in Notifiers : Push!NotifySend(w) => w \notin unwanted
<1>1. PushInv => Respects
  BY DEF Push!NotifySend
<1> HIDE DEF PushInv, Respects
<1>2. PushInv /\ [Push!Next]_(Push!vars) => [Respects]_(Push!vars)
  BY <1>1
<1>3. Push!Spec => [][Respects]_(Push!vars)
  BY <1>2, PushInvariance, PTL DEF Push!Spec
<1> QED
  BY <1>3 DEF Push!MutedStaysSilent, Respects

\* Removing the tokens FCM refused takes none that works.
THEOREM WorkingTokensStay ==
    ASSUME PushAssumptions
    PROVE  Push!Spec => Push!WorkingTokenStays
<1> DEFINE Spares == \A w \in Notifiers : Push!NotifyRemove(w) =>
                         \A d \in Devices : device[d].token \in Push!Accepted => device'[d] = device[d]
<1>1. PushInv => Spares
  <2> SUFFICES ASSUME PushInv, NEW w \in Notifiers, Push!NotifyRemove(w), NEW d \in Devices,
                      device[d].token \in Push!Accepted
               PROVE  device'[d] = device[d]
    OBVIOUS
  <2>1. d \notin Push!Cleared(w)
    BY DEF Push!NotifyRemove, Push!Cleared, Push!Accepted
  <2> QED
    BY <2>1 DEF Push!NotifyRemove
<1> HIDE DEF PushInv, Spares
<1>2. PushInv /\ [Push!Next]_(Push!vars) => [Spares]_(Push!vars)
  BY <1>1
<1>3. Push!Spec => [][Spares]_(Push!vars)
  BY <1>2, PushInvariance, PTL DEF Push!Spec
<1> QED
  BY <1>3 DEF Push!WorkingTokenStays, Spares

\* No notification of one account reaches an app that is another account's.
THEOREM PushesAreOwn ==
    ASSUME PushAssumptions
    PROVE  Push!Spec => Push!NoForeignPush
<1> DEFINE Own == \A w \in Notifiers : Push!NotifySend(w) =>
                      \A d \in Devices : app[d] \in push[w].tokens => device[d].owner = push[w].user
<1>1. PushInv => Own
  BY DEF Push!NotifySend
<1> HIDE DEF PushInv, Own
<1>2. PushInv /\ [Push!Next]_(Push!vars) => [Own]_(Push!vars)
  BY <1>1
<1>3. Push!Spec => [][Own]_(Push!vars)
  BY <1>2, PushInvariance, PTL DEF Push!Spec
<1> QED
  BY <1>3 DEF Push!NoForeignPush, Own
=============================================================================
