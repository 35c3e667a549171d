--------------------------- MODULE Conversations ---------------------------
(***************************************************************************)
(* DIRECT conversations and a user's list of conversations, as kept by     *)
(* conversations/conversations.service.ts: creation, deletion for one side *)
(* and pins; and the checks that messages.service.ts makes before a        *)
(* message enters a conversation.                                          *)
(*                                                                         *)
(* Every `await this.prisma...` is one step of the worker that serves the  *)
(* request; nothing here runs in a transaction.  Groups are conversations  *)
(* that exist from the start and that Self leaves and is added to again in *)
(* one step each: GroupMembership has their requests.  Pins are per        *)
(* participant row and concern nobody else, so one account's are modelled. *)
(***************************************************************************)
EXTENDS Naturals, FiniteSets

CONSTANTS
    Users,      \* the accounts
    Directs,    \* bound: ids of the DIRECT conversations that can be created
    Groups,     \* GROUP conversations
    Self,       \* the account whose pins are modelled
    Workers,    \* requests that may be in flight together
    MaxPinned,  \* MAX_PINNED of pinConversation
    Blockable   \* bound: the ordered pairs <<userId, blockedId>> that may be blocked

ASSUME SelfAssumption == Self \in Users /\ IsFiniteSet(Directs) /\ IsFiniteSet(Groups)
ASSUME ApartAssumption == Directs \cap Groups = {}
ASSUME BlockableAssumption == Blockable \subseteq Users \X Users
ASSUME PinnedAssumption == MaxPinned \in Nat

Convs == Directs \cup Groups

VARIABLES
    row,        \* row[c][u]: u's conversation_participants row in c; leftAt null is "active"
    pinned,     \* the conversations whose row of Self has isPinned set
    blocks,     \* the rows of blocked_users
    req,        \* req[w]: the request worker w is serving, and what it has read
    overtaken,  \* history: the requests in flight since before another request's last write
    barred      \* history: the requests between two users with a block since they began

vars == <<row, pinned, blocks, req, overtaken, barred>>

Stages == {"idle", "create_block", "create_commit", "pin_count", "pin_write", "unpin_write",
           "delete_write", "send_other", "send_block", "send_recipients", "send_create"}

RowStates == {"none", "active", "left"}

\* by: the caller; conv: the conversation (none while creating); who: the users it concerns;
\* was: isPinned as read.
Requests == [pc : Stages, by : Users, conv : SUBSET Convs, who : SUBSET Users, was : BOOLEAN]

Ask(pc, by, conv, who, was) == [pc |-> pc, by |-> by, conv |-> conv, who |-> who, was |-> was]

Idle == Ask("idle", Self, {}, {}, FALSE)

ActiveIn(c) == {u \in Users : row[c][u] = "active"}

\* The id of a conversation nobody has created yet.
Unborn == {c \in Directs : \A u \in Users : row[c][u] = "none"}

Init ==
    /\ row = [c \in Convs |-> [u \in Users |-> IF c \in Groups THEN "active" ELSE "none"]]
    /\ pinned = {}
    /\ blocks = {}
    /\ req = [w \in Workers |-> Idle]
    /\ overtaken = {}
    /\ barred = {}

----------------------------------------------------------------------------
(* How a request moves. *)

At(w, pc) == req[w].pc = pc

\* A block of either side; and the same when only the caller's own block is looked for.
BlockedByCallerOnly(u, v) == <<u, v>> \in blocks
Blocked(u, v) == <<u, v>> \in blocks \/ <<v, u>> \in blocks

Begin(w, r, others) ==
    /\ At(w, "idle")
    /\ req' = [req EXCEPT ![w] = r]
    /\ barred' = IF \E v \in others : <<r.by, v>> \in blocks \/ <<v, r.by>> \in blocks
                 THEN barred \cup {w} ELSE barred
    /\ UNCHANGED <<row, pinned, blocks, overtaken>>

\* A query whose answer lets the request go on at pc with who, or ends it with an exception.
Check(w, ok, pc, who) ==
    /\ req' = [req EXCEPT ![w] = IF ok THEN Ask(pc, req[w].by, req[w].conv, who, req[w].was) ELSE Idle]
    /\ overtaken' = IF ok THEN overtaken ELSE overtaken \ {w}
    /\ barred' = IF ok THEN barred ELSE barred \ {w}
    /\ UNCHANGED <<row, pinned, blocks>>

\* Everyone else in flight has read before this write.
Overtake(ws) == overtaken' = {v \in Workers : req'[v].pc # "idle" /\ (v \notin ws)}

\* The request's write commits and it returns.
Commit(w) ==
    /\ req' = [req EXCEPT ![w] = Idle]
    /\ Overtake({w})
    /\ barred' = barred \ {w}
    /\ UNCHANGED blocks

----------------------------------------------------------------------------
(* createConversation with type DIRECT. *)

\* A creation that looks for no existing conversation.
FindNothing(u, v) == {}

\* findDirectConversation: exactly the two take part.
FindDirect(u, v) == {c \in Directs : ActiveIn(c) = {u, v}}

\* An existing conversation is the answer; else the request goes on.
CreateBegin(w, u, v) ==
    /\ u # v
    /\ FindDirect(u, v) = {}
    /\ Cardinality(Unborn) > Cardinality({x \in Workers : req[x].pc \in {"create_block", "create_commit"}})
    /\ Begin(w, Ask("create_block", u, {}, {v}, FALSE), {v})

CreateBlocks(w) ==
    /\ At(w, "create_block")
    /\ Check(w, \A v \in req[w].who : ~Blocked(req[w].by, v), "create_commit", req[w].who)

CreateCommit(w) ==
    /\ At(w, "create_commit")
    /\ \E c \in Unborn :
         row' = [row EXCEPT ![c] = [u \in Users |-> IF u \in req[w].who \cup {req[w].by}
                                                    THEN "active" ELSE "none"]]
    /\ Commit(w)
    /\ UNCHANGED pinned

----------------------------------------------------------------------------
(* pinConversation, unpinConversation: by the id of the row found first.   *)

Pins == {c \in pinned : row[c][Self] = "active"}

\* A pinned conversation may be pinned again; and the limit with an off-by-one.
MayPinOneMore(count, was) == count <= MaxPinned \/ was
MayPin(count, was) == count < MaxPinned \/ was

PinBegin(w, c) ==
    /\ row[c][Self] = "active"
    /\ Begin(w, Ask("pin_count", Self, {c}, {}, c \in pinned), {})

PinCount(w) ==
    /\ At(w, "pin_count")
    /\ Check(w, MayPin(Cardinality(Pins), req[w].was), "pin_write", {})

PinWrite(w) ==
    /\ At(w, "pin_write")
    /\ pinned' = pinned \cup req[w].conv
    /\ Commit(w)
    /\ UNCHANGED row

UnpinBegin(w, c) ==
    /\ row[c][Self] = "active"
    /\ Begin(w, Ask("unpin_write", Self, {c}, {}, FALSE), {})

UnpinWrite(w) ==
    /\ At(w, "unpin_write")
    /\ pinned' = pinned \ req[w].conv
    /\ Commit(w)
    /\ UNCHANGED row

----------------------------------------------------------------------------
(* deleteConversation: leftAt of one side; the other keeps the conversation. *)

DeleteBegin(w, u, c) ==
    /\ c \in Directs
    /\ row[c][u] = "active"
    /\ Begin(w, Ask("delete_write", u, {c}, {}, FALSE), {})

DeleteWrite(w) ==
    /\ At(w, "delete_write")
    /\ row' = [c \in Convs |-> [u \in Users |-> IF c \in req[w].conv /\ u = req[w].by
                                                THEN "left" ELSE row[c][u]]]
    /\ Commit(w)
    /\ UNCHANGED pinned

\* leaveGroup and addMembers of a former member: the row, its pin included, is kept and revived.
GroupChange(c, from, to) ==
    /\ row[c][Self] = from
    /\ row' = [row EXCEPT ![c][Self] = to]
    /\ UNCHANGED <<pinned, blocks, req, barred>>
    /\ Overtake({})

LeaveGroup(c) == c \in Groups /\ GroupChange(c, "active", "left")
Rejoin(c) == c \in Groups /\ GroupChange(c, "left", "active")

----------------------------------------------------------------------------
(* sendMessage up to the creation of the message and its status rows.      *)

Partners(c, u) == {v \in Users \ {u} : c \in Directs /\ row[c][v] # "none"}

\* verifyParticipant.
SendBegin(w, u, c) ==
    /\ row[c][u] = "active"
    /\ Begin(w, Ask("send_other", u, {c}, {}, FALSE), Partners(c, u))

\* The others who ever took part, leftAt forgotten.
RecipientsOnceIn(w) == {u \in Users : \E c \in req[w].conv : row[c][u] # "none"} \ {req[w].by}

\* The others of the conversation who take part (getRecipients).
Recipients(w) == {u \in Users : \E c \in req[w].conv : row[c][u] = "active"} \ {req[w].by}

\* ensureNotBlockedInDirect reads the conversation: in a group, or alone, there is nobody to check.
SendOther(w) ==
    /\ At(w, "send_other")
    /\ Check(w, TRUE,
             IF req[w].conv \subseteq Groups \/ Recipients(w) = {} THEN "send_recipients" ELSE "send_block",
             Recipients(w))

\* ... and then the blocks.
SendBlock(w) ==
    /\ At(w, "send_block")
    /\ Check(w, \A v \in req[w].who : ~Blocked(req[w].by, v), "send_recipients", {})

SendRecipients(w) ==
    /\ At(w, "send_recipients")
    /\ Check(w, TRUE, "send_create", Recipients(w))

\* message.create with a status row for each of who, and touchConversation.
SendCreate(w) ==
    /\ At(w, "send_create")
    /\ req' = [req EXCEPT ![w] = Idle]
    /\ overtaken' = overtaken \ {w}
    /\ barred' = barred \ {w}
    /\ UNCHANGED <<row, pinned, blocks>>

----------------------------------------------------------------------------
(* UsersService.blockUser and unblockUser. *)

BlockUser(p) ==
    /\ p \in Blockable \ blocks
    /\ blocks' = blocks \cup {p}
    /\ UNCHANGED <<row, pinned, req, overtaken, barred>>

UnblockUser(p) ==
    /\ p \in blocks
    /\ blocks' = blocks \ {p}
    /\ barred' = {}
    /\ UNCHANGED <<row, pinned, req, overtaken>>

----------------------------------------------------------------------------

Next ==
    \/ \E w \in Workers :
         \/ \E u, v \in Users : CreateBegin(w, u, v)
         \/ CreateBlocks(w) \/ CreateCommit(w)
         \/ \E c \in Convs : PinBegin(w, c) \/ UnpinBegin(w, c)
         \/ PinCount(w) \/ PinWrite(w) \/ UnpinWrite(w)
         \/ \E u \in Users, c \in Convs : DeleteBegin(w, u, c) \/ SendBegin(w, u, c)
         \/ DeleteWrite(w)
         \/ SendOther(w) \/ SendBlock(w) \/ SendRecipients(w) \/ SendCreate(w)
    \/ \E c \in Convs : LeaveGroup(c) \/ Rejoin(c)
    \/ \E p \in Blockable : BlockUser(p) \/ UnblockUser(p)

Spec == Init /\ [][Next]_vars

----------------------------------------------------------------------------
(* Properties. *)

TypeOK ==
    /\ row \in [Convs -> [Users -> RowStates]]
    /\ pinned \subseteq Convs
    /\ blocks \subseteq Blockable
    /\ req \in [Workers -> Requests]
    /\ overtaken \subseteq {w \in Workers : ~At(w, "idle")}
    /\ barred \subseteq {w \in Workers : ~At(w, "idle")}

\* A creation that no write overtook finds no conversation of the two in use: the look
\* (conversations.service.ts:106) and the insert (133) are one decision then.
IsolatedCreateIsFirst ==
    [][\A w \in Workers \ overtaken : CreateCommit(w) =>
         \A v \in req[w].who : \A c \in Directs : ~({v, req[w].by} \subseteq ActiveIn(c))]_vars

\* A pin that no write overtook respects MAX_PINNED (575-588).
IsolatedPinFits ==
    [][\A w \in Workers \ overtaken : PinWrite(w) /\ ~req[w].was => Cardinality(Pins') <= MaxPinned]_vars

\* While a block lasts, whoever acts after it opens no conversation with the other side and sends
\* the other side no message, whatever is deleted meanwhile (messages.service.ts:755-775,
\* conversations.service.ts:124-130).
BlockSilences ==
    [][\A w \in barred : /\ ~CreateCommit(w)
                         /\ SendCreate(w) => req[w].who = {}]_vars

\* A message that no write overtook is from a participant, and the others get a row each.
IsolatedSendReaches ==
    [][\A w \in Workers \ overtaken : SendCreate(w) =>
         \A c \in req[w].conv : ActiveIn(c) = req[w].who \cup {req[w].by}]_vars
=============================================================================
