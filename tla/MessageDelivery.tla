-------------------------- MODULE MessageDelivery --------------------------
(***************************************************************************)
(* Delivery of messages to the participants of one conversation: the send  *)
(* path of messages.handler.ts and messages.service.ts, the connection     *)
(* path of connection.handler.ts, the presence key and the inbox of        *)
(* redis.service.ts, and the calls that mark a message delivered or read.  *)
(*                                                                         *)
(* One step is one awaited Redis command or query, together with the       *)
(* synchronous code after it.  The Socket.IO Redis adapter lets several    *)
(* servers share the users, so every socket, send and call may run on a    *)
(* server of its own: they interleave freely, and a server that stops      *)
(* takes each of them away separately.  The database and Redis survive,    *)
(* but may reject any command, having carried it out or not.               *)
(*                                                                         *)
(* The sender is not one of the recipients.  Inbox scores are the clock    *)
(* readings of the servers, taken to grow with each addition.              *)
(***************************************************************************)
EXTENDS Naturals, FiniteSets, Sequences, SequencesExt

CONSTANTS
    Users,          \* the possible recipients
    Messages,       \* the messages that may be sent, each once
    Sockets,        \* bound: the connections that may be open or closing at once
    Owner,          \* Owner[s]: the user whose devices connect as s
    Members,        \* the participants at the start
    InboxLimit,     \* the limit of getInboxMessages (100)
    ClientOps,      \* bound: which of "deliver", "read", "read_all" the clients call
    MaxClientCalls, \* bound: client calls in flight at once
    Faults          \* bound: which of "crash", "reject", "expire", "membership" may happen

ASSUME OwnerAssumption == Owner \in [Sockets -> Users]
ASSUME MembersAssumption == Members \subseteq Users
ASSUME InboxLimitAssumption == InboxLimit \in Nat \ {0}
ASSUME ClientOpsAssumption == ClientOps \subseteq {"deliver", "read", "read_all"}
ASSUME MaxClientCallsAssumption == MaxClientCalls \in Nat
ASSUME FaultsAssumption == Faults \subseteq {"crash", "reject", "expire", "membership"}

VARIABLES
    member,     \* participants of the conversation with leftAt null
    status,     \* status[m][u]: the message_statuses row of m for u
    job,        \* job[m]: the request that sends m
    inbox,      \* inbox[u]: the inbox:u ZSET, in score order
    online,     \* the users with a user:u:online key
    conn,       \* conn[s]: the socket s and the handleUserConnected that serves it
    bye,        \* sockets whose handleUserDisconnected has not deleted the key yet
    calls,      \* markMessageAsDelivered, markMessageAsRead and
                \* markConversationAsRead in flight
    told,       \* told[m][u]: message_delivered and message_read events sent to the sender
    received,   \* history: received[u]: messages emitted to a live socket of u
    missed,     \* history: <<m, u>> emitted when no live socket would hear it (none of the user at
                \* a send, the draining one closed at a drain), or expired in the inbox
    raced,      \* history: <<m, u>> read while a delivery mark that saw SENT was in flight
    stranded    \* history: users with a socket whose server stopped or whose DEL was rejected

vars == <<member, status, job, inbox, online, conn, bye, calls, told, received, missed, raced,
          stranded>>

sendVars == <<member, job>>
socketVars == <<online, conn, bye, stranded>>
historyVars == <<received, missed, raced>>

Statuses == {"none", "SENT", "DELIVERED", "READ"}
Marks == {"DELIVERED", "READ"}

Jobs == [pc : {"new", "create", "lookup", "route", "emit", "queue", "stored", "stopped"},
         via : {"socket", "rest"},
         to : SUBSET Users,         \* participants still to be served
         at : SUBSET Users,         \* the one being served
         sent : SUBSET Users]       \* history: those served

Conns == [pc : {"idle", "joined", "online", "drain", "mark", "remove"},
          live : BOOLEAN,
          batch : Seq(Messages)]    \* what is left of getInboxMessages' answer

Calls == [op : {"timer", "deliver", "read", "read_all"}, pc : {"look", "write"},
          user : Users, on : SUBSET Messages]

NoConn == [pc |-> "idle", live |-> FALSE, batch |-> <<>>]

Init ==
    /\ member = Members
    /\ status = [m \in Messages |-> [u \in Users |-> "none"]]
    /\ job = [m \in Messages |->
                 [pc |-> "new", via |-> "socket", to |-> {}, at |-> {}, sent |-> {}]]
    /\ inbox = [u \in Users |-> <<>>]
    /\ online = {}
    /\ conn = [s \in Sockets |-> NoConn]
    /\ bye = {}
    /\ calls = {}
    /\ told = [m \in Messages |-> [u \in Users |-> {}]]
    /\ received = [u \in Users |-> {}]
    /\ missed = {}
    /\ raced = {}
    /\ stranded = {}

Queued(u) == Range(inbox[u])
LiveSockets(u) == {s \in Sockets : Owner[s] = u /\ conn[s].live}

----------------------------------------------------------------------------
(* Reading and writing a status row. *)

AssumedRow(m, u) == TRUE
HasRow(m, u) == status[m][u] # "none"

\* markMessageAsDelivered writes only over SENT.
SeenAnything(m, u) == TRUE
SeenSent(m, u) == status[m][u] = "SENT"

SetStatus(ms, u, st) ==
    status' = [m \in Messages |-> IF m \in ms THEN [status[m] EXCEPT ![u] = st] ELSE status[m]]

Tell(m, u, mark) == told' = [told EXCEPT ![m][u] = @ \cup {mark}]

\* The delivery marks on m for u that have seen SENT and not written yet.
MarkInFlight(m, u) ==
    \/ \E c \in calls : c.op \in {"timer", "deliver"} /\ c.pc = "write" /\ c.user = u /\ m \in c.on
    \/ \E s \in Sockets : Owner[s] = u /\ conn[s].pc = "mark" /\ Head(conn[s].batch) = m

----------------------------------------------------------------------------
(* Sending: sendTextMessage or confirmMediaUpload over a socket (service   *)
(* call, then deliverToParticipants), POST /messages over REST (service    *)
(* call only).                                                             *)

\* getRecipients
SendBegin(m, via) ==
    /\ job[m].pc = "new"
    /\ job' = [job EXCEPT ![m] = [@ EXCEPT !.pc = "create", !.via = via, !.to = member]]
    /\ UNCHANGED <<member, status, inbox, calls, told>>
    /\ UNCHANGED <<socketVars, historyVars>>

\* message.create with its status rows
SendCreate(m) ==
    /\ job[m].pc = "create"
    /\ status' = [status EXCEPT ![m] = [u \in Users |-> IF u \in job[m].to THEN "SENT" ELSE "none"]]
    /\ job' = [job EXCEPT ![m].pc = IF job[m].via = "rest" THEN "stored" ELSE "lookup",
                          ![m].to = {}]
    /\ UNCHANGED <<member, inbox, calls, told>>
    /\ UNCHANGED <<socketVars, historyVars>>

\* deliverToParticipants reads the participants again.
SendLookup(m) ==
    /\ job[m].pc = "lookup"
    /\ job' = [job EXCEPT ![m].pc = "route", ![m].to = member]
    /\ UNCHANGED <<member, status, inbox, calls, told>>
    /\ UNCHANGED <<socketVars, historyVars>>

\* isUserOnline of the next participant
RouteCheck(m, u) ==
    /\ job[m].pc = "route"
    /\ u \in job[m].to
    /\ job' = [job EXCEPT ![m].pc = IF u \in online THEN "emit" ELSE "queue",
                          ![m].to = @ \ {u}, ![m].at = {u}]
    /\ UNCHANGED <<member, status, inbox, calls, told>>
    /\ UNCHANGED <<socketVars, historyVars>>

Served(m, u) == job' = [job EXCEPT ![m].pc = "route", ![m].at = {}, ![m].sent = @ \cup {u}]

\* new_message reaches the sockets of the room user:u at this moment, if any; a timer
\* will mark it delivered in either case.
RouteEmit(m, u) ==
    /\ job[m].pc = "emit"
    /\ u \in job[m].at
    /\ Served(m, u)
    /\ calls' = calls \cup {[op |-> "timer", pc |-> "look", user |-> u, on |-> {m}]}
    /\ IF LiveSockets(u) # {}
       THEN received' = [received EXCEPT ![u] = @ \cup {m}] /\ UNCHANGED missed
       ELSE missed' = missed \cup {<<m, u>>} /\ UNCHANGED received
    /\ UNCHANGED <<member, status, inbox, told, raced>>
    /\ UNCHANGED socketVars

\* addToInbox
RouteQueue(m, u) ==
    /\ job[m].pc = "queue"
    /\ u \in job[m].at
    /\ Served(m, u)
    /\ inbox' = [inbox EXCEPT ![u] = Append(@, m)]
    /\ UNCHANGED <<member, status, calls, told>>
    /\ UNCHANGED <<socketVars, historyVars>>

----------------------------------------------------------------------------
(* Connecting: handleUserConnected and deliverQueuedMessages. *)

\* A new handshake: the socket joins the room user:u and the SET is on its way.
Connect(s) ==
    /\ conn[s].pc = "idle"
    /\ ~conn[s].live
    /\ s \notin bye
    /\ conn' = [conn EXCEPT ![s] = [pc |-> "joined", live |-> TRUE, batch |-> <<>>]]
    /\ UNCHANGED <<online, bye, stranded, status, inbox, calls, told>>
    /\ UNCHANGED <<sendVars, historyVars>>

\* setUserOnline
SetOnline(s) ==
    /\ conn[s].pc = "joined"
    /\ online' = online \cup {Owner[s]}
    /\ conn' = [conn EXCEPT ![s].pc = "online"]
    /\ UNCHANGED <<bye, stranded, status, inbox, calls, told>>
    /\ UNCHANGED <<sendVars, historyVars>>

DrainPc(batch) == IF batch = <<>> THEN "idle" ELSE "drain"

Oldest(q) == SubSeq(q, 1, IF Len(q) < InboxLimit THEN Len(q) ELSE InboxLimit)

\* getInboxMessages
DrainFetch(s) ==
    /\ conn[s].pc = "online"
    /\ conn' = [conn EXCEPT ![s].pc = DrainPc(Oldest(inbox[Owner[s]])),
                            ![s].batch = Oldest(inbox[Owner[s]])]
    /\ UNCHANGED <<online, bye, stranded, status, inbox, calls, told>>
    /\ UNCHANGED <<sendVars, historyVars>>

\* An exception in the loop or before it is caught and logged: no more of the batch is
\* served, and the socket stays open.
GivesUp(s) == conn' = [conn EXCEPT ![s].pc = "idle", ![s].batch = <<>>]

\* The emit of the drain reaches this socket only.
Hears(s) ==
    received' = IF conn[s].live THEN [received EXCEPT ![Owner[s]] = @ \cup {Head(conn[s].batch)}]
                ELSE received

\* The message is emitted to this socket, open or closed, then its status row is read: a
\* missing row throws.  A drain that goes on for a closed socket will mark the message and
\* take it from the inbox although nobody heard it.
AfterLookIgnoringMissing(m, u) == IF SeenSent(m, u) THEN "mark" ELSE "remove"
AfterLook(m, u) ==
    IF ~HasRow(m, u) THEN "idle" ELSE IF SeenSent(m, u) THEN "mark" ELSE "remove"

DrainLook(s) ==
    LET m == Head(conn[s].batch)
        u == Owner[s]
    IN  /\ conn[s].pc = "drain"
        /\ IF AfterLook(m, u) = "idle" THEN GivesUp(s)
           ELSE conn' = [conn EXCEPT ![s].pc = AfterLook(m, u)]
        /\ Hears(s)
        /\ missed' = IF ~conn[s].live /\ HasRow(m, u) THEN missed \cup {<<m, u>>} ELSE missed
        /\ UNCHANGED <<online, bye, stranded, status, inbox, calls, told, raced>>
        /\ UNCHANGED sendVars

MarksHead(s) == conn[s].pc = "mark" /\ SetStatus({Head(conn[s].batch)}, Owner[s], "DELIVERED")

DrainMark(s) ==
    /\ MarksHead(s)
    /\ conn' = [conn EXCEPT ![s].pc = "remove"]
    /\ UNCHANGED <<online, bye, stranded, inbox, calls, told>>
    /\ UNCHANGED <<sendVars, historyVars>>

InboxCleared(q, m) == <<>>
NothingRemoved(q, m) == q
Without(q, m) == IF m \in Range(q) THEN RemoveAt(q, CHOOSE i \in DOMAIN q : q[i] = m) ELSE q

RemovesHead(s) ==
    /\ conn[s].pc = "remove"
    /\ inbox' = [inbox EXCEPT ![Owner[s]] = Without(@, Head(conn[s].batch))]

\* removeFromInbox, then message_delivered to the sender
DrainRemove(s) ==
    /\ RemovesHead(s)
    /\ Tell(Head(conn[s].batch), Owner[s], "DELIVERED")
    /\ conn' = [conn EXCEPT ![s].pc = DrainPc(Tail(conn[s].batch)), ![s].batch = Tail(@)]
    /\ UNCHANGED <<online, bye, stranded, status, calls>>
    /\ UNCHANGED <<sendVars, historyVars>>

\* The command that s waits for is rejected, carried out or not: the SET, the user update or
\* the reads before the drain, the read or the update of the status row, the removal.
ConnRejected(s) ==
    /\ "reject" \in Faults
    /\ conn[s].pc \in {"joined", "online", "drain", "mark", "remove"}
    /\ GivesUp(s)
    /\ \/ UNCHANGED online
       \/ conn[s].pc = "joined" /\ online' = online \cup {Owner[s]}
    /\ IF conn[s].pc = "drain" THEN Hears(s) ELSE UNCHANGED received
    /\ UNCHANGED status \/ MarksHead(s)
    /\ UNCHANGED inbox \/ RemovesHead(s)
    /\ UNCHANGED <<bye, stranded, calls, told, missed, raced>>
    /\ UNCHANGED sendVars

----------------------------------------------------------------------------
(* Disconnecting: handleUserDisconnected. *)

Disconnect(s) ==
    /\ conn[s].live
    /\ conn' = [conn EXCEPT ![s].live = FALSE]
    /\ bye' = bye \cup {s}
    /\ UNCHANGED <<online, stranded, status, inbox, calls, told>>
    /\ UNCHANGED <<sendVars, historyVars>>

\* The DEL of a socket follows its own SET on the same Redis connection.
NotCleared(u) == online
Cleared(u) == online \ {u}

SetOffline(s) ==
    /\ s \in bye
    /\ conn[s].pc # "joined"
    /\ online' = Cleared(Owner[s])
    /\ bye' = bye \ {s}
    /\ UNCHANGED <<conn, stranded, status, inbox, calls, told>>
    /\ UNCHANGED <<sendVars, historyVars>>

\* The DEL is rejected, carried out or not; handleUserDisconnected logs it and returns.
SetOfflineRejected(s) ==
    /\ "reject" \in Faults
    /\ s \in bye
    /\ conn[s].pc # "joined"
    /\ \/ online' = Cleared(Owner[s]) /\ UNCHANGED stranded
       \/ stranded' = stranded \cup {Owner[s]} /\ UNCHANGED online
    /\ bye' = bye \ {s}
    /\ UNCHANGED <<conn, status, inbox, calls, told>>
    /\ UNCHANGED <<sendVars, historyVars>>

----------------------------------------------------------------------------
(* Status calls: the timer of scheduleDeliveryConfirmation and the calls a *)
(* client makes over its socket or over REST.                              *)

CallBegin(op, u, on) ==
    /\ Cardinality({c \in calls : c.op # "timer"}) < MaxClientCalls
    /\ calls' = calls \cup {[op |-> op, pc |-> "look", user |-> u, on |-> on]}
    /\ UNCHANGED <<status, inbox, told>>
    /\ UNCHANGED <<sendVars, socketVars, historyVars>>

\* A client knows a message from its socket or from the message list.
ClientMarks(op, u, m) ==
    /\ op \in ClientOps
    /\ m \in received[u] \/ HasRow(m, u)
    /\ CallBegin(op, u, {m})

ClientReadsAll(u) ==
    /\ "read_all" \in ClientOps
    /\ u \in member
    /\ CallBegin("read_all", u, {})

Unread(u) == {m \in Messages : status[m][u] \in {"SENT", "DELIVERED"}}

\* The read before the write.  A delivery mark that finds DELIVERED or READ writes nothing
\* but still tells the sender.
CallLook(c) ==
    LET next == [c EXCEPT !.pc = "write", !.on = IF c.op = "read_all" THEN Unread(c.user) ELSE @]
    IN  /\ c \in calls
        /\ c.pc = "look"
        /\ \/ /\ c.op = "read_all" \/ \A m \in c.on : HasRow(m, c.user)
              /\ c.op \in {"timer", "deliver"} => \A m \in c.on : SeenSent(m, c.user)
              /\ calls' = (calls \ {c}) \cup {next}
              /\ UNCHANGED told
           \/ /\ c.op \in {"timer", "deliver"}
              /\ \E m \in c.on : HasRow(m, c.user) /\ ~SeenSent(m, c.user) /\ Tell(m, c.user, "DELIVERED")
              /\ calls' = calls \ {c}
           \/ /\ c.op # "read_all"
              /\ \E m \in c.on : ~HasRow(m, c.user)
              /\ calls' = calls \ {c}
              /\ UNCHANGED told
        /\ UNCHANGED <<status, inbox>>
        /\ UNCHANGED <<sendVars, socketVars, historyVars>>

MarkOf(op) == IF op \in {"timer", "deliver"} THEN "DELIVERED" ELSE "READ"

\* The write is by primary key, whatever the row holds now.
Writes(c) ==
    /\ c.pc = "write"
    /\ SetStatus(c.on, c.user, MarkOf(c.op))
    /\ raced' = raced \cup {<<m, c.user>> : m \in {x \in c.on : MarkOf(c.op) = "READ"
                                                               /\ MarkInFlight(x, c.user)}}

\* Only the calls on a single message tell the sender.
CallWrite(c) ==
    /\ c \in calls
    /\ Writes(c)
    /\ calls' = calls \ {c}
    /\ told' = [m \in Messages |->
                   IF c.op # "read_all" /\ m \in c.on
                   THEN [told[m] EXCEPT ![c.user] = @ \cup {MarkOf(c.op)}] ELSE told[m]]
    /\ UNCHANGED <<inbox, received, missed>>
    /\ UNCHANGED <<sendVars, socketVars>>

----------------------------------------------------------------------------
(* What happens around the program. *)

\* The group operations add or remove a participant.
ChangeMember(u) ==
    /\ "membership" \in Faults
    /\ member' = IF u \in member THEN member \ {u} ELSE member \cup {u}
    /\ UNCHANGED <<job, status, inbox, calls, told>>
    /\ UNCHANGED <<socketVars, historyVars>>

\* The inbox key reaches the age of seven days set by addToInbox.
Expire(u) ==
    /\ "expire" \in Faults
    /\ inbox[u] # <<>>
    /\ inbox' = [inbox EXCEPT ![u] = <<>>]
    /\ missed' = missed \cup {<<m, u>> : m \in Queued(u)}
    /\ UNCHANGED <<status, calls, told, received, raced>>
    /\ UNCHANGED <<sendVars, socketVars>>

\* The server of a socket stops: nothing is cleaned up.
CrashSocket(s) ==
    /\ "crash" \in Faults
    /\ conn[s].live \/ s \in bye \/ conn[s].pc # "idle"
    /\ conn' = [conn EXCEPT ![s] = NoConn]
    /\ bye' = bye \ {s}
    /\ stranded' = stranded \cup {Owner[s]}
    /\ UNCHANGED <<online, status, inbox, calls, told>>
    /\ UNCHANGED <<sendVars, historyVars>>

\* The server of a send stops or one of its commands is rejected: what is done stays, nobody
\* else is served.  (A rejected command that was carried out is the step before this one.)
CrashSend(m) ==
    /\ Faults \cap {"crash", "reject"} # {}
    /\ job[m].pc \in {"create", "lookup", "route", "emit", "queue"}
    /\ job' = [job EXCEPT ![m].pc = "stopped"]
    /\ UNCHANGED <<member, status, inbox, calls, told>>
    /\ UNCHANGED <<socketVars, historyVars>>

\* The server of a call stops or one of its queries is rejected: the row may be written, the
\* sender is not told.
CrashCall(c) ==
    /\ Faults \cap {"crash", "reject"} # {}
    /\ c \in calls
    /\ calls' = calls \ {c}
    /\ UNCHANGED <<status, raced>> \/ Writes(c)
    /\ UNCHANGED <<inbox, told, received, missed>>
    /\ UNCHANGED <<sendVars, socketVars>>

----------------------------------------------------------------------------

SendStep(m) ==
    \/ SendCreate(m) \/ SendLookup(m)
    \/ \E u \in Users : RouteCheck(m, u) \/ RouteEmit(m, u) \/ RouteQueue(m, u)

ConnStep(s) ==
    SetOnline(s) \/ DrainFetch(s) \/ DrainLook(s) \/ DrainMark(s) \/ DrainRemove(s)

CallStep == \E c \in calls : CallLook(c) \/ CallWrite(c)

Next ==
    \/ \E m \in Messages, via \in {"socket", "rest"} : SendBegin(m, via)
    \/ \E m \in Messages : SendStep(m)
    \/ \E s \in Sockets : Connect(s) \/ ConnStep(s) \/ Disconnect(s) \/ SetOffline(s)
    \/ \E s \in Sockets : ConnRejected(s) \/ SetOfflineRejected(s)
    \/ \E op \in {"deliver", "read"}, u \in Users, m \in Messages : ClientMarks(op, u, m)
    \/ \E u \in Users : ClientReadsAll(u)
    \/ CallStep
    \/ \E u \in Users : ChangeMember(u) \/ Expire(u)
    \/ \E s \in Sockets : CrashSocket(s)
    \/ \E m \in Messages : CrashSend(m)
    \/ \E c \in calls : CrashCall(c)

Spec == Init /\ [][Next]_vars

\* The server finishes what it started; devices reconnect, and no connection lasts for ever.
FairSpec ==
    /\ Spec
    /\ \A m \in Messages : WF_vars(SendStep(m))
    /\ \A s \in Sockets :
           WF_vars(Connect(s)) /\ WF_vars(ConnStep(s)) /\ WF_vars(Disconnect(s)) /\ WF_vars(SetOffline(s))
    /\ WF_vars(CallStep)

----------------------------------------------------------------------------
(* Properties *)

\* Every variable has its type, the status rows of a message appear with the message, and
\* an inbox holds a message at most once.
TypeOK ==
    /\ member \subseteq Users
    /\ status \in [Messages -> [Users -> Statuses]]
    /\ job \in [Messages -> Jobs]
    /\ inbox \in [Users -> Seq(Messages)]
    /\ online \subseteq Users
    /\ conn \in [Sockets -> Conns]
    /\ bye \subseteq Sockets
    /\ calls \subseteq Calls
    /\ told \in [Messages -> [Users -> SUBSET Marks]]
    /\ received \in [Users -> SUBSET Messages]
    /\ missed \subseteq Messages \X Users
    /\ raced \subseteq Messages \X Users
    /\ stranded \subseteq Users
    /\ \A m \in Messages, u \in Users : HasRow(m, u) => job[m].pc \notin {"new", "create"}
    /\ \A u \in Users : IsInjective(inbox[u])

\* A message that deliverToParticipants served to a user was emitted to a live socket, waits
\* in the inbox, or was lost in one of the three ways the code has: emitted by a send to a
\* user whose key outlived its sockets; emitted by a drain whose own socket had closed, which
\* marks and removes it all the same, another device being open or not; or expired.  No
\* interleaving of sends, drains of several devices, rejected commands and crashes loses one
\* otherwise.
NothingLost ==
    \A m \in Messages : \A u \in job[m].sent :
        m \in received[u] \/ m \in Queued(u) \/ <<m, u>> \in missed

\* A message leaves an inbox by expiry or once its status row says DELIVERED or READ: a crash
\* or a rejected command at any step of the drain leaves the message queued or marked.
QueuedUntilMarked ==
    [][\A u \in Users : ~Expire(u) =>
           \A m \in Queued(u) : m \notin Queued(u)' => status[m][u] \in Marks]_vars

\* The sender hears message_delivered only of rows that say DELIVERED or READ, and
\* message_read only of rows that say READ, unless a delivery mark overlapped the read.
SenderToldTruth ==
    \A m \in Messages, u \in Users :
        /\ "DELIVERED" \in told[m][u] => status[m][u] \in Marks
        /\ "READ" \in told[m][u] => status[m][u] = "READ" \/ <<m, u>> \in raced

\* READ goes back to DELIVERED only where a delivery mark had seen SENT before the read was
\* written: the check of markMessageAsDelivered leaves no other way.
ReadSticks ==
    [][\A m \in Messages, u \in Users :
           status[m][u] = "READ" /\ status'[m][u] # "READ" => <<m, u>> \in raced]_vars

\* A presence key without a socket behind it is about to be deleted, unless a server stopped or
\* a DEL was rejected: the SET of a socket never lands after its own DEL.
KeyHasSocket ==
    \A u \in online \ stranded :
        \E s \in Sockets : Owner[s] = u /\ (conn[s].live \/ s \in bye)

\* While participants do not change, servers run and commands succeed, a queued message is marked in
\* the end, however many wait before it and although a drain fetches only InboxLimit.
QueuedIsMarked ==
    \A m \in Messages, u \in Users :
        (m \in Queued(u)) ~> (m \notin Queued(u) /\ status[m][u] \in Marks)

=============================================================================
