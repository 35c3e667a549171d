-------------------------- MODULE ConversationList --------------------------
(***************************************************************************)
(* What one account sees of its conversations: the pages of its list       *)
(* (getUserConversations) and of a history (getMessages), the two counts   *)
(* of unread messages, and the operations that change them: marking as     *)
(* read, muting, archiving, pinning, messages that arrive.                 *)
(*                                                                         *)
(* A client walks one list or one history page by page while the rest goes *)
(* on; a worker serves one of the account's other requests.  Every query   *)
(* is one step.  Timestamps of distinct writes are distinct: two           *)
(* conversations updated in one millisecond, which no cursor tells apart,  *)
(* are left out.  All messages come from others.                           *)
(***************************************************************************)
EXTENDS Naturals, FiniteSets

CONSTANTS
    Conversations,
    Messages,
    Null,           \* no cursor
    Workers,        \* requests of the account that may be in flight together
    Limit,          \* the size of a page
    MaxTime,        \* bound: the clock, which every write advances
    Walks,          \* bound: which of "list", "history" are walked
    Views,          \* bound: the sets of flags filtered for; other flags are not set
    Ops             \* bound: which of "send", "delete", "read", "flags", "leave" happen

Flags == {"isMuted", "isArchived"}

ASSUME ViewsAssumption == Views \subseteq SUBSET Flags
ASSUME FiniteAssumption == IsFiniteSet(Conversations) /\ IsFiniteSet(Messages)
ASSUME LimitAssumption == Limit \in Nat \ {0}
ASSUME NullAssumption == Null \notin Conversations \cup Messages

VARIABLES
    now,        \* the clock
    row,        \* row[c]: the account's conversation_participants row
    updated,    \* updated[c]: updatedAt of the conversation
    msg,        \* msg[m]: the message and the account's message_statuses row
    req,        \* req[w]: the request worker w is serving
    walk,       \* the walk of the client
    opened,     \* history: messages a read of their conversation, or of themselves, was about
    late        \* history: messages hidden by a read of their conversation that was under way
                \* when they came

vars == <<now, row, updated, msg, req, walk, opened, late>>

Times == 0..MaxTime

\* Time 0 stands for null.
Rows == [left : BOOLEAN, flags : SUBSET Flags, pinnedAt : Times, lastReadAt : Times]
MessageRows == [in : Conversations \cup {Null}, at : Times, deleted : BOOLEAN,
                status : {"none", "unread", "read"}, touched : BOOLEAN]
NoMessage == [in |-> Null, at |-> 0, deleted |-> FALSE, status |-> "none", touched |-> FALSE]

\* pc: next query of the walk; view: its filters, or the conversation of the history; cursor:
\* the item the next page starts after, before: the time of it.  passed: history: items that
\* no page can show any more, by what is said at ListPage, ListCursor and HistoryStep.
NoWalk == [pc |-> "none", kind |-> "list", view |-> {}, of |-> Null, cursor |-> Null,
           before |-> 0, shown |-> {}, steady |-> {}, passed |-> {}]

Idle == [pc |-> "idle", c |-> Null, ids |-> {}]

Init ==
    /\ now = Cardinality(Conversations)
    /\ updated \in {f \in [Conversations -> 1..now] : \A c, d \in Conversations : f[c] = f[d] => c = d}
    /\ row = [c \in Conversations |-> [left |-> FALSE, flags |-> {}, pinnedAt |-> 0, lastReadAt |-> 0]]
    /\ msg = [m \in Messages |-> NoMessage]
    /\ req = [w \in Workers |-> Idle]
    /\ walk = NoWalk
    /\ opened = {}
    /\ late = {}

At(w, pc) == req[w].pc = pc
GoTo(w, r) == req' = [req EXCEPT ![w] = r]
End(w) == GoTo(w, Idle)
Participates(c) == ~row[c].left

Exists(m) == msg[m].in # Null
In(c) == {m \in Messages : msg[m].in = c}
Visible(c) == {m \in In(c) : ~msg[m].deleted}
Unread(c) == {m \in In(c) : msg[m].status = "unread"}

Tick == now < MaxTime /\ now' = now + 1

\* What the client saw at its first page and nothing has moved or hidden since.
Unsettle(X) == walk' = [walk EXCEPT !.steady = @ \ X]

----------------------------------------------------------------------------
(* getUserConversations: the newest Limit + 1 rows before the cursor, pins *)
(* first, cut to Limit.                                                    *)

Listed(view) == {c \in Conversations : Participates(c) /\ row[c].flags = view}

Pinned(c) == row[c].pinnedAt > 0

\* The order of the sort within a page.
Above(c, d) ==
    IF Pinned(c) /\ Pinned(d) THEN row[c].pinnedAt > row[d].pinnedAt
    ELSE IF Pinned(c) \/ Pinned(d) THEN Pinned(c)
    ELSE updated[c] > updated[d]

\* The n elements of X that come first, when after[x] is what comes after x.
FirstOf(X, n, Precedes(_, _)) == {x \in X : Cardinality({y \in X : Precedes(y, x)}) < n}
LastOf(X, Precedes(_, _)) == CHOOSE x \in X : \A y \in X \ {x} : Precedes(y, x)

Newer(c, d) == updated[c] > updated[d]
Fetched == FirstOf({c \in Listed(walk.view) : walk.cursor = Null \/ updated[c] < walk.before},
                   Limit + 1, Newer)
Page == FirstOf(Fetched, Limit, Above)

LastFetched == LastOf(Fetched, Newer)
NextCursor == LastOf(Page, Above)

ListBegin(view) ==
    /\ "list" \in Walks
    /\ walk.pc = "none"
    /\ walk' = [NoWalk EXCEPT !.pc = "list_page", !.view = view, !.steady = Listed(view)]
    /\ UNCHANGED <<now, row, updated, msg, req, opened, late>>

\* A page that ends with a pin may leave out a newer conversation, which the next page, older
\* than the pin, does not have either.
ListPage ==
    /\ walk.pc = "list_page"
    /\ LET more == Cardinality(Fetched) > Limit
       IN  walk' = [walk EXCEPT
               !.pc = IF more THEN "list_cursor" ELSE "done",
               !.cursor = IF more THEN NextCursor ELSE Null,
               !.before = IF more THEN updated[NextCursor] ELSE 0,
               !.shown = @ \cup Page,
               !.passed = IF more /\ Pinned(NextCursor) THEN @ \cup (Fetched \ Page) ELSE @]
    /\ UNCHANGED <<now, row, updated, msg, req, opened, late>>

\* The client asks for the next page; updatedAt of the cursor is read as it is by now.  Where
\* an older date was written over it meanwhile, it has gone past what lies between.
ListCursor ==
    /\ walk.pc = "list_cursor"
    /\ walk' = [walk EXCEPT
           !.pc = "list_page",
           !.before = updated[walk.cursor],
           !.passed = @ \cup {c \in Listed(walk.view) :
                                  updated[walk.cursor] <= updated[c] /\ updated[c] < walk.before}]
    /\ UNCHANGED <<now, row, updated, msg, req, opened, late>>

----------------------------------------------------------------------------
(* getMessages: createdAt is not unique, so Prisma looks for the cursor's  *)
(* row among those the filter left and pages on from there: a cursor that  *)
(* was deleted meanwhile is not among them, and the page is empty.         *)

Later(m, n) == msg[m].at > msg[n].at
UpToCursor == {m \in Visible(walk.of) : walk.cursor = Null \/ msg[m].at <= msg[walk.cursor].at}
CursorGone == walk.cursor # Null /\ msg[walk.cursor].deleted

AlwaysOne(cursor) == 1
Skip(cursor) == IF cursor = Null THEN 0 ELSE 1

HistoryPage ==
    LET skipped == FirstOf(UpToCursor, Skip(walk.cursor), Later)
    IN  IF CursorGone THEN {} ELSE FirstOf(UpToCursor \ skipped, Limit, Later)

HistoryBegin(c) ==
    /\ "history" \in Walks
    /\ walk.pc = "none"
    /\ Participates(c)
    /\ walk' = [NoWalk EXCEPT !.pc = "history", !.kind = "history", !.of = c, !.steady = Visible(c)]
    /\ UNCHANGED <<now, row, updated, msg, req, opened, late>>

\* The client goes on from the oldest message it has until a page is empty.  A cursor deleted
\* meanwhile ends the walk, whatever is left.
HistoryStep ==
    /\ walk.pc = "history"
    /\ Participates(walk.of)
    /\ walk' = [walk EXCEPT
           !.pc = IF HistoryPage = {} THEN "done" ELSE @,
           !.cursor = IF HistoryPage = {} THEN Null ELSE LastOf(HistoryPage, Later),
           !.shown = @ \cup HistoryPage,
           !.passed = IF CursorGone THEN @ \cup UpToCursor ELSE @]
    /\ UNCHANGED <<now, row, updated, msg, req, opened, late>>

----------------------------------------------------------------------------
(* Messages of others: the row, with a status if the account takes part,   *)
(* then touchConversation, which takes its date as message.create returns  *)
(* and writes it in a query of its own.  Nothing compares that date with a *)
(* createdAt, so the time of the row stands for both.                      *)

Reading(c) == \E w \in Workers : req[w].pc \in {"read_write", "read_row"} /\ req[w].c = c

Arrive(m, c) ==
    /\ "send" \in Ops
    /\ ~Exists(m)
    /\ Tick
    /\ msg' = [msg EXCEPT ![m] = [NoMessage EXCEPT !.in = c, !.at = now',
                                     !.status = IF Participates(c) THEN "unread" ELSE "none"]]
    /\ late' = IF Reading(c) THEN late \cup {m} ELSE late
    /\ UNCHANGED <<row, updated, req, walk, opened>>

\* The last write stands, not the latest date.
Touch(m) ==
    /\ Exists(m) /\ ~msg[m].touched
    /\ updated' = [updated EXCEPT ![msg[m].in] = msg[m].at]
    /\ msg' = [msg EXCEPT ![m].touched = TRUE]
    /\ Unsettle({msg[m].in})
    /\ UNCHANGED <<now, row, req, opened, late>>

DeleteMessage(m) ==
    /\ "delete" \in Ops
    /\ Exists(m) /\ ~msg[m].deleted
    /\ Tick
    /\ msg' = [msg EXCEPT ![m].deleted = TRUE]
    /\ Unsettle({m})
    /\ UNCHANGED <<row, updated, req, opened, late>>

----------------------------------------------------------------------------
(* markMessageAsRead, markConversationAsRead, markAllConversationsAsRead   *)

ReadMessage(m) ==
    /\ "read" \in Ops
    /\ msg[m].status # "none"
    /\ Tick
    /\ msg' = [msg EXCEPT ![m].status = "read"]
    /\ opened' = opened \cup {m}
    /\ UNCHANGED <<row, updated, req, walk, late>>

ReadBegin(w, c) ==
    /\ "read" \in Ops
    /\ At(w, "idle") /\ Participates(c)
    /\ GoTo(w, [Idle EXCEPT !.pc = "read_find", !.c = c])
    /\ UNCHANGED <<now, row, updated, msg, walk, opened, late>>

ReadFind(w) ==
    /\ At(w, "read_find")
    /\ GoTo(w, [req[w] EXCEPT !.pc = "read_write", !.ids = Unread(req[w].c)])
    /\ opened' = opened \cup In(req[w].c)
    /\ UNCHANGED <<now, row, updated, msg, walk, late>>

EverythingIn(w) == In(req[w].c)
FoundUnread(w) == req[w].ids

ReadWrite(w) ==
    /\ At(w, "read_write")
    /\ msg' = [m \in Messages |-> IF m \in FoundUnread(w) THEN [msg[m] EXCEPT !.status = "read"]
                                                                ELSE msg[m]]
    /\ GoTo(w, [req[w] EXCEPT !.pc = "read_row"])
    /\ UNCHANGED <<now, row, updated, walk, opened, late>>

ReadRow(w) ==
    /\ At(w, "read_row")
    /\ Tick
    /\ row' = [row EXCEPT ![req[w].c].lastReadAt = now']
    /\ End(w)
    /\ UNCHANGED <<updated, msg, walk, opened, late>>

\* lastReadAt only: no status becomes READ.
ReadAll ==
    /\ "read" \in Ops
    /\ Tick
    /\ row' = [c \in Conversations |-> IF Participates(c) THEN [row[c] EXCEPT !.lastReadAt = now'] ELSE row[c]]
    /\ late' = late \cup UNION {In(c) : c \in {x \in Conversations : Participates(x)}}
    /\ UNCHANGED <<updated, msg, req, walk, opened>>

----------------------------------------------------------------------------
(* The account's settings of a conversation and its departures: the row is *)
(* found, then updated by id.  What may happen in between is in the module *)
(* Conversations; here each is one step.                                   *)

\* muteConversation, unmuteConversation, archiveConversation, unarchiveConversation; a call that
\* changes nothing is left out.
SetFlag(c, flag, on) ==
    /\ "flags" \in Ops
    /\ Participates(c)
    /\ (flag \in row[c].flags) # on
    /\ Tick
    /\ row' = [row EXCEPT ![c].flags = IF on THEN @ \cup {flag} ELSE @ \ {flag}]
    /\ Unsettle({c})
    /\ UNCHANGED <<updated, msg, req, opened, late>>

Pin(c) ==
    /\ "flags" \in Ops
    /\ Participates(c)
    /\ Tick
    /\ row' = [row EXCEPT ![c].pinnedAt = now']
    /\ UNCHANGED <<updated, msg, req, walk, opened, late>>

Unpin(c) ==
    /\ "flags" \in Ops
    /\ Participates(c) /\ Pinned(c)
    /\ Tick
    /\ row' = [row EXCEPT ![c].pinnedAt = 0]
    /\ UNCHANGED <<updated, msg, req, walk, opened, late>>

\* deleteConversation or leaveGroup; addMembers brings the row back with its flags, its pin and
\* its lastReadAt.
Leave(c) ==
    /\ "leave" \in Ops
    /\ Participates(c)
    /\ Tick
    /\ row' = [row EXCEPT ![c].left = TRUE]
    /\ Unsettle({c})
    /\ UNCHANGED <<updated, msg, req, opened, late>>

Return(c) ==
    /\ ~Participates(c)
    /\ Tick
    /\ row' = [row EXCEPT ![c].left = FALSE]
    /\ UNCHANGED <<updated, msg, req, walk, opened, late>>

----------------------------------------------------------------------------

Step(w) ==
    \/ \E c \in Conversations : ReadBegin(w, c)
    \/ ReadFind(w) \/ ReadWrite(w) \/ ReadRow(w)

Next ==
    \/ \E view \in Views : ListBegin(view)
    \/ ListPage \/ ListCursor
    \/ \E c \in Conversations : HistoryBegin(c)
    \/ HistoryStep
    \/ \E m \in Messages, c \in Conversations : Arrive(m, c)
    \/ \E m \in Messages : Touch(m) \/ DeleteMessage(m) \/ ReadMessage(m)
    \/ ReadAll
    \/ \E c \in Conversations, flag \in UNION Views, on \in BOOLEAN : SetFlag(c, flag, on)
    \/ \E c \in Conversations : Pin(c) \/ Unpin(c) \/ Leave(c) \/ Return(c)
    \/ \E w \in Workers : Step(w)

Spec == Init /\ [][Next]_vars

----------------------------------------------------------------------------
(* Properties *)

Done(kind) == walk.pc = "done" /\ walk.kind = kind

\* A walk through the list shows every conversation that was in it all along and received
\* nothing: only those are missed that a page ending with a pin had to leave out, or that lay
\* between two dates of a cursor whose updatedAt went back between two pages; whatever is
\* pinned, unpinned or moves to the top meanwhile, the cursor itself included.
ListWalkComplete ==
    Done("list") => walk.steady \subseteq walk.shown \cup walk.passed

\* A walk through a history shows every message that was there from its first page on and is
\* not deleted: only those are missed that are older than a cursor that was deleted.
HistoryWalkComplete ==
    Done("history") => walk.steady \subseteq walk.shown \cup walk.passed

\* Nothing is read unasked: a message becomes READ only by a read of it, or of its conversation
\* when it had already come, and the unread count of the list omits it only then, after a
\* markAllConversationsAsRead, or when it came in the middle of a read of its conversation.
NothingReadUnasked ==
    \A m \in Messages : Exists(m) =>
        /\ msg[m].status = "read" => m \in opened
        /\ msg[m].at <= row[msg[m].in].lastReadAt => m \in opened \cup late

=============================================================================
