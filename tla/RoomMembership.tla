--------------------------- MODULE RoomMembership ---------------------------
(***************************************************************************)
(* The Socket.IO room "conversation:<id>" of one GROUP conversation against *)
(* its participants.  Postgres knows who is a participant; the room decides *)
(* which sockets see reactions, edits, deletions and group events.  Three   *)
(* handlers keep the room: handleUserConnected joins the rooms of the       *)
(* conversations it reads, the socket handlers of groups.handler.ts join    *)
(* and leave after the service has committed, and a disconnection empties   *)
(* it.  The REST endpoints for the same operations, and the creation of a   *)
(* conversation, change the participants only.                              *)
(*                                                                         *)
(* One step is what runs between two awaits.  The service's own queries are *)
(* two steps here, a check and a commit; GroupMembership has each of them.  *)
(* With the Redis adapter a join of another server's socket is a message,   *)
(* so FetchSockets and JoinRoom or LeaveRoom are separate steps.            *)
(***************************************************************************)
EXTENDS Naturals, FiniteSets

CONSTANTS
    Users,      \* the accounts
    Sockets,    \* connections, numbered by device
    Owner,      \* Owner[s]: client.data.userId of socket s
    Workers,    \* requests that may be in flight together
    Faults      \* whether an await may reject and a server may stop

ASSUME OwnerAssumption == Owner \in [Sockets -> Users]

VARIABLES
    member,     \* users with an active conversation_participants row
    created,    \* the conversation exists
    conn,       \* conn[s]: how far handleConnection is with socket s
    room,       \* sockets in the room "conversation:<id>"
    req,        \* req[w]: the request worker w is serving, and what it carries
    astray      \* history: sockets whose room no handler set after the last change of membership

vars == <<member, created, conn, room, req, astray>>

\* read_in, read_out: the handler has read whether the owner is a participant.
ConnStages == {"off", "greeted", "read_in", "read_out", "settled"}

Stages == {"idle", "add_check", "add_fetch", "add_join",
           "remove_check", "remove_fetch", "remove_leave",
           "leave_check", "leave_room", "emit"}

Entries == {"ws", "rest"}

\* todo: users still to be served; now: the user whose sockets were fetched.
Requests == [pc : Stages, via : Entries, todo : SUBSET Users, now : SUBSET Users, socks : SUBSET Sockets]

Asked(pc, via, todo, socks) == [pc |-> pc, via |-> via, todo |-> todo, now |-> {}, socks |-> socks]

Idle == Asked("idle", "ws", {}, {})

Init ==
    /\ member = {}
    /\ created = FALSE
    /\ conn = [s \in Sockets |-> "off"]
    /\ room = {}
    /\ req = [w \in Workers |-> Idle]
    /\ astray = {}

At(w, pc) == req[w].pc = pc

\* The request of w further on.
Onward(w, pc, todo, now, socks) ==
    [pc |-> pc, via |-> req[w].via, todo |-> todo, now |-> now, socks |-> socks]

\* getUserSockets if handleUserConnected joined the user room last.
UserSocketsOnceSettled(u) == {s \in Sockets : Owner[s] = u /\ conn[s] = "settled"}

\* The user room "user:<id>", joined first in handleUserConnected: what getUserSockets answers.
UserSockets(u) == {s \in Sockets : Owner[s] = u /\ conn[s] # "off"}

\* Sockets whose connection handler will not put them in the room any more.
PastReading(S) == {s \in Sockets : Owner[s] \in S /\ conn[s] \in {"read_out", "settled"}}

\* Sockets of these users in the room.
RoomOf(S) == {s \in room : Owner[s] \in S}

----------------------------------------------------------------------------
(* Connections. *)

\* handleUserConnected: join the user room; then two awaits (presence key, isOnline).
Connect(s) ==
    /\ conn[s] = "off"
    /\ conn' = [conn EXCEPT ![s] = "greeted"]
    /\ UNCHANGED <<member, created, room, req, astray>>

\* The participant rows with leftAt null.
ReadConversations(s) ==
    /\ conn[s] = "greeted"
    /\ conn' = [conn EXCEPT ![s] = IF Owner[s] \in member THEN "read_in" ELSE "read_out"]
    /\ UNCHANGED <<member, created, room, req, astray>>

\* socket.join of what was read; astray when the owner has been taken out since.
JoinRooms(s) ==
    /\ conn[s] \in {"read_in", "read_out"}
    /\ conn' = [conn EXCEPT ![s] = "settled"]
    /\ room' = IF conn[s] = "read_in" THEN room \cup {s} ELSE room
    /\ astray' = IF conn[s] = "read_in" /\ Owner[s] \notin member THEN astray \cup {s} ELSE astray
    /\ UNCHANGED <<member, created, req>>

\* An await before the rooms rejects: caught and logged, and the socket stays connected.
ConnectFails(s) ==
    /\ Faults
    /\ conn[s] = "greeted"
    /\ conn' = [conn EXCEPT ![s] = "settled"]
    /\ astray' = astray \cup {s}
    /\ UNCHANGED <<member, created, room, req>>

\* Socket.IO takes a closed socket out of its rooms; a handler that still joins it joins nothing.
Disconnect(s) ==
    /\ conn[s] # "off"
    /\ conn' = [conn EXCEPT ![s] = "off"]
    /\ room' = room \ {s}
    /\ req' = [w \in Workers |-> Onward(w, req[w].pc, req[w].todo, req[w].now, req[w].socks \ {s})]
    /\ astray' = astray \ {s}
    /\ UNCHANGED <<member, created>>

----------------------------------------------------------------------------
(* Group operations. *)

Begin(w, r) ==
    /\ At(w, "idle")
    /\ req' = [req EXCEPT ![w] = r]
    /\ UNCHANGED <<member, created, conn, room, astray>>

\* The same if no socket handler went on to the rooms.
CommittedOnly(w, r) == req' = [req EXCEPT ![w] = Idle]

\* The service has committed: a REST request answers, a socket request goes on to the rooms.
Committed(w, r) == req' = [req EXCEPT ![w] = IF req[w].via = "rest" THEN Idle ELSE r]

\* createConversation, of two participants or more: emits conversation:created to each of them
\* and joins nobody.
Create(S) ==
    /\ ~created
    /\ Cardinality(S) >= 2
    /\ created' = TRUE
    /\ member' = S
    /\ astray' = astray \cup PastReading(S)
    /\ UNCHANGED <<conn, room, req>>

AddBegin(w, via, S) ==
    /\ S \cap member = {}
    /\ member # {}
    /\ Begin(w, Asked("add_check", via, S, {}))

AddCommit(w) ==
    /\ At(w, "add_check")
    /\ member' = member \cup req[w].todo
    /\ Committed(w, Onward(w, "add_fetch", req[w].todo, {}, {}))
    /\ astray' = IF req[w].via = "rest" THEN astray \cup PastReading(req[w].todo) ELSE astray
    /\ UNCHANGED <<created, conn, room>>

RemoveBegin(w, via, u) ==
    /\ u \in member
    /\ member \ {u} # {}
    /\ Begin(w, Asked("remove_check", via, {u}, {}))

RemoveCommit(w) ==
    /\ At(w, "remove_check")
    /\ member' = member \ req[w].todo
    /\ Committed(w, Onward(w, "remove_fetch", req[w].todo, {}, {}))
    /\ astray' = IF req[w].via = "rest" THEN astray \cup RoomOf(req[w].todo) ELSE astray
    /\ UNCHANGED <<created, conn, room>>

\* group:leave on socket s, the only one that handler takes out of the room.
LeaveBegin(w, s) ==
    /\ conn[s] # "off"
    /\ Owner[s] \in member
    /\ Begin(w, Asked("leave_check", "ws", {Owner[s]}, {s}))

LeaveRestBegin(w, u) ==
    /\ u \in member
    /\ Begin(w, Asked("leave_check", "rest", {u}, {}))

LeaveCommit(w) ==
    /\ At(w, "leave_check")
    /\ member' = member \ req[w].todo
    /\ Committed(w, Onward(w, "leave_room", {}, req[w].todo, req[w].socks))
    /\ astray' = astray \cup (RoomOf(req[w].todo) \ req[w].socks)
    /\ UNCHANGED <<created, conn, room>>

\* getUserSockets of the next user of the loop.
FetchSockets(w) ==
    /\ req[w].pc \in {"add_fetch", "remove_fetch"}
    /\ \E u \in req[w].todo :
         req' = [req EXCEPT ![w] =
                   Onward(w, IF At(w, "add_fetch") THEN "add_join" ELSE "remove_leave",
                          req[w].todo \ {u}, {u}, UserSockets(u))]
    /\ UNCHANGED <<member, created, conn, room, astray>>

\* The next member of the loop, or the end of the handler.
LoopAgain(w) ==
    req' = [req EXCEPT ![w] = IF req[w].todo = {} THEN Idle ELSE Onward(w, "add_fetch", req[w].todo, {}, {})]

\* socket.join for each; astray when the member has been taken out again meanwhile.
JoinRoom(w) ==
    /\ At(w, "add_join")
    /\ room' = room \cup req[w].socks
    /\ astray' = IF req[w].now \subseteq member THEN astray \ req[w].socks ELSE astray \cup req[w].socks
    /\ LoopAgain(w)
    /\ UNCHANGED <<member, created, conn>>

\* socket.leave for each; astray when the user has been added again meanwhile.
LeaveRoom(w) ==
    /\ req[w].pc \in {"remove_leave", "leave_room"}
    /\ room' = room \ req[w].socks
    /\ astray' = IF req[w].now \cap member = {} THEN astray \ req[w].socks ELSE astray \cup req[w].socks
    /\ LoopAgain(w)
    /\ UNCHANGED <<member, created, conn>>

\* getUserSockets rejects (the adapter's request times out) or the server stops: the rest of
\* the handler does not run.
Abandon(w) ==
    /\ Faults
    /\ req[w].pc \in {"add_fetch", "add_join", "remove_fetch", "remove_leave", "leave_room"}
    /\ req' = [req EXCEPT ![w] = Idle]
    /\ astray' = LET left == req[w].todo \cup req[w].now IN astray \cup PastReading(left) \cup RoomOf(left)
    /\ UNCHANGED <<member, created, conn, room>>

----------------------------------------------------------------------------
(* Broadcasts: a reaction, an edit, a deletion, a role or a name change.   *)

\* The participant check of the service.
BroadcastBegin(w, u) ==
    /\ u \in member
    /\ Begin(w, Asked("emit", "ws", {}, {}))

\* emitToConversation: the sockets in the room hear it, and nothing else changes.
Emit(w) ==
    /\ At(w, "emit")
    /\ req' = [req EXCEPT ![w] = Idle]
    /\ UNCHANGED <<member, created, conn, room, astray>>

----------------------------------------------------------------------------

Server(w) == \/ AddCommit(w) \/ RemoveCommit(w) \/ LeaveCommit(w)
             \/ FetchSockets(w) \/ JoinRoom(w) \/ LeaveRoom(w) \/ Emit(w)

Next ==
    \/ \E s \in Sockets : \/ Connect(s) \/ ReadConversations(s) \/ JoinRooms(s)
                          \/ ConnectFails(s) \/ Disconnect(s)
    \/ \E S \in SUBSET Users : Create(S)
    \/ \E w \in Workers :
         \/ \E S \in SUBSET Users : \E via \in Entries : S # {} /\ AddBegin(w, via, S)
         \/ \E u \in Users : \/ \E via \in Entries : RemoveBegin(w, via, u)
                             \/ LeaveRestBegin(w, u)
                             \/ BroadcastBegin(w, u)
         \/ \E s \in Sockets : LeaveBegin(w, s)
         \/ Server(w)
         \/ Abandon(w)

Spec == Init /\ [][Next]_vars

\* The process answers its awaits: a request goes on until it ends or is abandoned.
FairSpec == Spec /\ \A w \in Workers : WF_vars(Server(w))

----------------------------------------------------------------------------
(* Properties. *)

TypeOK ==
    /\ member \subseteq Users
    /\ created \in BOOLEAN
    /\ conn \in [Sockets -> ConnStages]
    /\ room \subseteq {s \in Sockets : conn[s] # "off"}
    /\ req \in [Workers -> Requests]
    /\ astray \subseteq Sockets

JoinStages == {"add_fetch", "add_join"}
LeaveStages == {"remove_fetch", "remove_leave", "leave_room"}

\* A request that has committed for u and has not yet been through u's sockets.
Pending(u, stages) == \E w \in Workers : req[w].pc \in stages /\ u \in req[w].todo \cup req[w].now

Settled(s) == conn[s] = "settled"

\* A socket of a participant is in the room once its connection handler is through, unless an
\* addition is still on its way to it: the handler joins the user room before it reads the
\* conversations (connection.handler.ts:30-49), so no addition slips between the two.  Left out
\* are the sockets for which the code has no step: those of `astray`.
MembersHear ==
    \A s \in Sockets :
      Settled(s) /\ Owner[s] \in member /\ s \notin astray => s \in room \/ Pending(Owner[s], JoinStages)

\* Any socket in the room belongs to a participant, unless a removal is on its way to it or the
\* code has no step that takes it out (groups.handler.ts:85-89, 115).
OutsidersHearNothing ==
    \A s \in room : Owner[s] \in member \/ s \in astray \/ Pending(Owner[s], LeaveStages)

\* In the room without being a participant, or the other way round.
Behind(s) == Settled(s) /\ s \notin astray /\ ((s \in room) # (Owner[s] \in member))

\* The requests in flight bring every socket in line, whatever order they run in.
RoomCatchesUp == \A s \in Sockets : Behind(s) ~> ~Behind(s)

=============================================================================
