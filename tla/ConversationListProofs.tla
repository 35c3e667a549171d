---------------------- MODULE ConversationListProofs ----------------------
(***************************************************************************)
(* That the walks through the list and a history miss only what their      *)
(* pages leave out by design, and that nothing is read unasked, for any    *)
(* conversations, messages, size of a page and requests in flight.         *)
(*                                                                         *)
(* A page is a set of first elements by an order, cut off by counting: the *)
(* lemmas before the invariant say that such a set is closed under what    *)
(* comes before, is full unless it is everything, and has a last element.  *)
(***************************************************************************)
EXTENDS ConversationList, FiniteSetTheorems, WellFoundedInduction, TLAPS

----------------------------------------------------------------------------
(* The first elements of a set, by a strict total order.                   *)

Orders(R, X) ==
    /\ \A x \in X : <<x, x>> \notin R
    /\ \A x, y, z \in X : <<x, y>> \in R /\ <<y, z>> \in R => <<x, z>> \in R
    /\ \A x, y \in X : x = y \/ <<x, y>> \in R \/ <<y, x>> \in R

Before(X, R, x) == {y \in X : <<y, x>> \in R}
First(X, n, R) == {x \in X : Cardinality(Before(X, R, x)) < n}

LEMMA Least ==
    ASSUME NEW T, T \subseteq Nat, T # {}
    PROVE  \E x \in T : \A y \in T : x <= y
<1> DEFINE R == OpToRel(<, Nat)
<1>1. IsWellFoundedOn(R, Nat)
  BY NatLessThanWellFounded
<1>2. \A x, y \in Nat : <<y, x>> \in R <=> y < x
  BY DEF OpToRel
<1> HIDE DEF R
<1>3. PICK x \in T : \A y \in T : ~ (<<y, x>> \in R)
  BY <1>1, WFMin
<1>4. ASSUME NEW y \in T PROVE x <= y
  <2>1. x \in Nat /\ y \in Nat /\ <<y, x>> \notin R
    BY <1>3
  <2>2. ~(y < x)
    BY <1>2, <2>1
  <2> QED
    BY <2>1, <2>2
<1> QED
  BY <1>4

\* A set that is not empty has an element none of it comes before.
LEMMA Extreme ==
    ASSUME NEW X, NEW R, IsFiniteSet(X), Orders(R, X), NEW T, T \subseteq X, T # {}
    PROVE  \E x \in T : \A y \in T : <<y, x>> \notin R
<1> DEFINE rank(x) == Cardinality(Before(X, R, x))
           N == {rank(x) : x \in T}
<1>1. ASSUME NEW x \in X PROVE IsFiniteSet(Before(X, R, x)) /\ rank(x) \in Nat
  BY <1>1, FS_Subset, FS_CardinalityType DEF Before
<1>2. N \subseteq Nat /\ N # {}
  BY <1>1
<1>3. PICK n \in N : \A k \in N : n <= k
  <2> HIDE DEF N
  <2> QED
    BY <1>2, Least
<1>4. PICK x \in T : rank(x) = n
  BY <1>3
<1>5. ASSUME NEW y \in T, <<y, x>> \in R PROVE FALSE
  <2>1. x \in X /\ y \in X
    BY <1>4, <1>5
  <2>2. Before(X, R, y) \subseteq Before(X, R, x)
    BY <1>5, <2>1 DEF Before, Orders
  <2>3. y \in Before(X, R, x) /\ y \notin Before(X, R, y)
    BY <1>5, <2>1 DEF Before, Orders
  <2>4. Before(X, R, y) # Before(X, R, x)
    BY <2>3
  <2>5. rank(y) < rank(x)
    <3> HIDE DEF Before
    <3>1. rank(y) <= rank(x) /\ (rank(y) = rank(x) => Before(X, R, y) = Before(X, R, x))
      BY <1>1, <2>1, <2>2, FS_Subset
    <3> QED
      BY <1>1, <2>1, <2>4, <3>1
  <2>6. rank(x) <= rank(y)
    BY <1>3, <1>4
  <2> QED
    BY <1>1, <2>1, <2>5, <2>6
<1> QED
  BY <1>5

\* The first of a set are all of it, or as many as were asked for; and what comes before one of
\* them is one of them.
LEMMA FirstFull ==
    ASSUME NEW X, NEW R, IsFiniteSet(X), Orders(R, X), NEW n \in Nat, Cardinality(First(X, n, R)) < n
    PROVE  First(X, n, R) = X
<1> DEFINE T == X \ First(X, n, R)
<1>1. SUFFICES ASSUME T # {} PROVE FALSE
  BY DEF First
<1>2. PICK x \in T : \A y \in T : <<y, x>> \notin R
  BY <1>1, Extreme
<1>3. Before(X, R, x) \subseteq First(X, n, R)
  BY <1>2 DEF Before
<1>4. IsFiniteSet(First(X, n, R))
  BY FS_Subset DEF First
<1>5. Cardinality(Before(X, R, x)) <= Cardinality(First(X, n, R)) /\ Cardinality(Before(X, R, x)) \in Nat
  BY <1>3, <1>4, FS_Subset, FS_CardinalityType
<1>6. Cardinality(First(X, n, R)) \in Nat
  BY <1>4, FS_CardinalityType
<1>7. x \in First(X, n, R)
  BY <1>5, <1>6 DEF First
<1> QED
  BY <1>7

LEMMA FirstClosed ==
    ASSUME NEW X, NEW R, IsFiniteSet(X), Orders(R, X), NEW n \in Nat,
           NEW x \in First(X, n, R), NEW y \in X, <<y, x>> \in R
    PROVE  y \in First(X, n, R)
<1>1. x \in X /\ Cardinality(Before(X, R, x)) < n
  BY DEF First
<1>2. Before(X, R, y) \subseteq Before(X, R, x) /\ IsFiniteSet(Before(X, R, x))
  BY <1>1, FS_Subset DEF Before, Orders
<1>3. Cardinality(Before(X, R, y)) <= Cardinality(Before(X, R, x))
      /\ Cardinality(Before(X, R, y)) \in Nat /\ Cardinality(Before(X, R, x)) \in Nat
  BY <1>2, FS_Subset, FS_CardinalityType
<1> QED
  BY <1>1, <1>3 DEF First

\* The last of a set.
LEMMA LastExists ==
    ASSUME NEW X, NEW R, IsFiniteSet(X), Orders(R, X), X # {}
    PROVE  \E x \in X : \A y \in X \ {x} : <<y, x>> \in R
<1> DEFINE I == {p \in X \X X : <<p[2], p[1]>> \in R}
<1>1. Orders(I, X)
  BY DEF Orders
<1>2. PICK x \in X : \A y \in X : <<y, x>> \notin I
  BY <1>1, Extreme
<1> QED
  BY <1>2 DEF Orders

----------------------------------------------------------------------------
(* The inductive invariant.                                                *)

RowsTyped == [left : BOOLEAN, flags : SUBSET Flags, pinnedAt : Nat, lastReadAt : Nat]
MessagesTyped == [in : Conversations \cup {Null}, at : Nat, deleted : BOOLEAN,
                  status : {"none", "unread", "read"}, touched : BOOLEAN]
RequestsTyped == [pc : {"idle", "read_find", "read_write", "read_row"},
                  c : Conversations \cup {Null}, ids : SUBSET Messages]
Items == Conversations \cup Messages
WalksTyped == [pc : {"none", "list_page", "list_cursor", "history", "done"}, kind : {"list", "history"},
               view : Views \cup {{}}, of : Conversations \cup {Null}, cursor : Items \cup {Null},
               before : Nat, shown : SUBSET Items, steady : SUBSET Items, passed : SUBSET Items]

StoreTyped ==
    /\ now \in Nat
    /\ row \in [Conversations -> RowsTyped]
    /\ updated \in [Conversations -> Nat]
    /\ msg \in [Messages -> MessagesTyped]
    /\ \A m \in Messages : Exists(m) \/ msg[m].status = "none"
    /\ req \in [Workers -> RequestsTyped]
    /\ \A w \in Workers : req[w].pc # "idle" => req[w].c \in Conversations

\* No time is still to come, no two writes of a kind have the same, and a date that a message
\* has yet to write is no conversation's.
TimesFit ==
    /\ \A c \in Conversations : updated[c] <= now /\ row[c].pinnedAt <= now /\ row[c].lastReadAt <= now
    /\ \A c, d \in Conversations : updated[c] = updated[d] => c = d
    /\ \A c, d \in Conversations : Pinned(c) /\ row[c].pinnedAt = row[d].pinnedAt => c = d
    /\ \A m \in Messages : msg[m].at <= now
    /\ \A m, n \in Messages : Exists(m) /\ Exists(n) /\ msg[m].at = msg[n].at => m = n
    /\ \A m \in Messages : Exists(m) /\ ~msg[m].touched =>
          \A c \in Conversations : updated[c] # msg[m].at

\* What a read of a conversation found was there to be read, and what has come since is late.
ReadsFit ==
    /\ NothingReadUnasked
    /\ \A w \in Workers : req[w].pc = "read_write" => req[w].ids \subseteq opened \cap In(req[w].c)
    /\ \A w \in Workers : req[w].pc \in {"read_write", "read_row"} => In(req[w].c) \subseteq opened \cup late

Seen(x) == x \in walk.shown \cup walk.passed

\* What was in the list all along still is, and has been seen or is older than where the next page begins.
ListFits ==
    walk.pc \in {"list_page", "list_cursor"} =>
      /\ walk.kind = "list"
      /\ walk.steady \subseteq Listed(walk.view)
      /\ walk.pc = "list_page" =>
           \A c \in walk.steady : Seen(c) \/ walk.cursor = Null \/ updated[c] < walk.before
      /\ walk.pc = "list_cursor" =>
           /\ walk.cursor \in Conversations
           /\ \A c \in walk.steady : Seen(c) \/ updated[c] < walk.before

HistoryFits ==
    walk.pc = "history" =>
      /\ walk.kind = "history" /\ walk.of \in Conversations
      /\ walk.cursor # Null => walk.cursor \in In(walk.of)
      /\ walk.steady \subseteq Visible(walk.of)
      /\ \A m \in walk.steady : Seen(m) \/ walk.cursor = Null \/ msg[m].at < msg[walk.cursor].at

DoneFits == walk.pc = "done" => \A x \in walk.steady : Seen(x)

IInv == StoreTyped /\ walk \in WalksTyped /\ TimesFit /\ ReadsFit /\ ListFits /\ HistoryFits /\ DoneFits

USE NullAssumption, LimitAssumption, ViewsAssumption

----------------------------------------------------------------------------
(* Everything but the walk itself: what it does to the walk. *)

Outside ==
    /\ \E X \in SUBSET walk.steady : walk' = [walk EXCEPT !.steady = X]
    /\ \A c \in Conversations \cap walk'.steady :
          /\ updated'[c] = updated[c]
          /\ c \in Listed(walk.view) => c \in Listed(walk.view)'
    /\ \A m \in Messages : Exists(m) => msg'[m].in = msg[m].in /\ msg'[m].at = msg[m].at
    /\ \A m \in Messages \cap walk'.steady : Exists(m) => msg'[m].deleted = msg[m].deleted

LEMMA OutsideKeeps ==
    ASSUME IInv, Outside, updated' \in [Conversations -> Nat]
    PROVE  walk' \in WalksTyped /\ ListFits' /\ HistoryFits' /\ DoneFits'
<1>1. walk \in WalksTyped /\ StoreTyped
  BY DEF IInv
<1>2. PICK X \in SUBSET walk.steady : walk' = [walk EXCEPT !.steady = X]
  BY DEF Outside
<1>3. /\ walk'.pc = walk.pc /\ walk'.kind = walk.kind /\ walk'.view = walk.view /\ walk'.of = walk.of
      /\ walk'.cursor = walk.cursor /\ walk'.before = walk.before /\ walk'.shown = walk.shown
      /\ walk'.passed = walk.passed /\ walk'.steady = X /\ walk' \in WalksTyped
  BY <1>1, <1>2 DEF WalksTyped
<1>4. \A x : Seen(x)' <=> Seen(x)
  BY <1>3 DEF Seen
<1>5. ListFits'
  <2> SUFFICES ASSUME walk.pc \in {"list_page", "list_cursor"}
               PROVE  /\ walk.kind = "list"
                      /\ X \subseteq Listed(walk.view)'
                      /\ walk.pc = "list_page" =>
                           \A c \in X : Seen(c) \/ walk.cursor = Null \/ updated'[c] < walk.before
                      /\ walk.pc = "list_cursor" =>
                           /\ walk.cursor \in Conversations
                           /\ \A c \in X : Seen(c) \/ updated'[c] < walk.before
    BY <1>3, <1>4 DEF ListFits, Listed, Participates
  <2>1. X \subseteq Conversations /\ X \subseteq Listed(walk.view) /\ ListFits
    BY DEF IInv, ListFits, Listed
  <2>2. \A c \in X : updated'[c] = updated[c] /\ c \in Listed(walk.view)'
    BY <1>3, <2>1 DEF Outside
  <2> QED
    BY <1>1, <2>1, <2>2 DEF ListFits, StoreTyped
<1>6. HistoryFits'
  <2> SUFFICES ASSUME walk.pc = "history"
               PROVE  /\ walk.kind = "history" /\ walk.of \in Conversations
                      /\ walk.cursor # Null => walk.cursor \in Messages /\ msg'[walk.cursor].in = walk.of
                      /\ \A m \in X : m \in Messages /\ msg'[m].in = walk.of /\ ~msg'[m].deleted
                      /\ \A m \in X : Seen(m) \/ walk.cursor = Null \/ msg'[m].at < msg'[walk.cursor].at
    BY <1>3, <1>4 DEF HistoryFits, In, Visible
  <2>1. HistoryFits /\ X \subseteq Visible(walk.of)
    BY DEF IInv, HistoryFits
  <2>2. \A m \in In(walk.of) : Exists(m) /\ msg'[m].in = walk.of /\ msg'[m].at = msg[m].at
    BY <2>1 DEF HistoryFits, In, Exists, Outside
  <2>3. \A m \in X : m \in In(walk.of) /\ ~msg[m].deleted
    BY <2>1 DEF Visible
  <2>4. \A m \in X : ~msg'[m].deleted
    BY <1>3, <2>2, <2>3 DEF Outside, In
  <2> QED
    BY <2>1, <2>2, <2>3, <2>4 DEF HistoryFits, In
<1>7. DoneFits'
  BY <1>2, <1>3, <1>4 DEF DoneFits, IInv
<1> QED
  BY <1>3, <1>5, <1>6, <1>7

----------------------------------------------------------------------------
(* Each step outside the walk. *)

Good == StoreTyped' /\ TimesFit' /\ ReadsFit' /\ Outside

\* A step that leaves rows and messages as they are.
LEMMA SameStore ==
    ASSUME IInv, UNCHANGED <<row, updated, msg, walk>>
    PROVE  Outside
<1>1. walk' = [walk EXCEPT !.steady = walk.steady]
  BY DEF IInv, WalksTyped
<1>2. Listed(walk.view)' = Listed(walk.view)
  BY DEF Listed, Participates
<1> QED
  BY <1>1, <1>2 DEF Outside

\* What is taken out of steady need not be the same.
LEMMA Unsettled ==
    ASSUME IInv, NEW X, Unsettle(X)
    PROVE  (\E Y \in SUBSET walk.steady : walk' = [walk EXCEPT !.steady = Y]) /\ walk'.steady = walk.steady \ X
<1>1. walk' = [walk EXCEPT !.steady = walk.steady \ X]
  BY DEF Unsettle, IInv, WalksTyped
<1> QED
  BY <1>1 DEF IInv, WalksTyped

LEMMA Unmoved ==
    ASSUME IInv, UNCHANGED walk
    PROVE  \E Y \in SUBSET walk.steady : walk' = [walk EXCEPT !.steady = Y]
<1>1. walk' = [walk EXCEPT !.steady = walk.steady]
  BY DEF IInv, WalksTyped
<1> QED
  BY <1>1

\* One setting of one row.
LEMMA RowWritten ==
    ASSUME IInv, NEW c \in Conversations, NEW r \in RowsTyped, Tick, row' = [row EXCEPT ![c] = r],
           UNCHANGED <<updated, msg, req, opened, late>>,
           r.pinnedAt \in {0, row[c].pinnedAt, now'}, r.lastReadAt = row[c].lastReadAt,
           \/ Unsettle({c})
           \/ UNCHANGED walk /\ (~row[c].left => ~r.left) /\ (row[c].left \/ r.flags = row[c].flags)
    PROVE  Good
<1>1. StoreTyped /\ TimesFit /\ ReadsFit
  BY DEF IInv
<1>2. now' = now + 1 /\ now' \in Nat
  BY <1>1 DEF Tick, StoreTyped
<1>3. StoreTyped'
  BY <1>1, <1>2 DEF StoreTyped, Exists
<1>4. row'[c] = r /\ \A d \in Conversations : d # c => row'[d] = row[d]
  BY <1>1 DEF StoreTyped
<1>5. TimesFit'
  <2>1. ASSUME NEW d \in Conversations
        PROVE  /\ updated'[d] <= now' /\ row'[d].pinnedAt <= now' /\ row'[d].lastReadAt <= now'
               /\ row[d].pinnedAt < now' /\ row[d].pinnedAt \in Nat
    <3>1. /\ updated[d] \in Nat /\ row[d].pinnedAt \in Nat /\ row[d].lastReadAt \in Nat /\ now \in Nat
          /\ updated[d] <= now /\ row[d].pinnedAt <= now /\ row[d].lastReadAt <= now
      BY <1>1 DEF TimesFit, StoreTyped, RowsTyped
    <3>2. CASE d = c
      BY <1>2, <1>4, <3>1, <3>2
    <3>3. CASE d # c
      BY <1>2, <1>4, <3>1, <3>3
    <3> QED
      BY <3>2, <3>3
  <2>2. ASSUME NEW d \in Conversations, NEW e \in Conversations, row'[d].pinnedAt > 0,
               row'[d].pinnedAt = row'[e].pinnedAt, d # e
        PROVE  FALSE
    <3>1. Pinned(d) /\ row[d].pinnedAt = row[e].pinnedAt => d = e
      BY <1>1 DEF TimesFit
    <3>2. Pinned(e) /\ row[e].pinnedAt = row[d].pinnedAt => d = e
      BY <1>1 DEF TimesFit
    <3> QED
      BY <1>2, <1>4, <2>1, <2>2, <3>1, <3>2 DEF Pinned
  <2>3. ASSUME NEW m \in Messages PROVE msg'[m].at <= now'
    BY <1>1, <1>2 DEF TimesFit, StoreTyped, MessagesTyped
  <2> QED
    BY <1>1, <2>1, <2>2, <2>3 DEF TimesFit, Pinned, Exists
<1>6. ReadsFit'
  <2>1. \A d \in Conversations : row'[d].lastReadAt = row[d].lastReadAt
    BY <1>4
  <2>2. \A m \in Messages : Exists(m) => msg[m].in \in Conversations
    BY <1>1 DEF StoreTyped, MessagesTyped, Exists
  <2>3. NothingReadUnasked'
    BY <1>1, <2>1, <2>2 DEF ReadsFit, NothingReadUnasked, Exists
  <2> QED
    BY <1>1, <2>3 DEF ReadsFit, In
<1>7. Outside
  <2>1. \E X \in SUBSET walk.steady : walk' = [walk EXCEPT !.steady = X]
    BY Unsettled, Unmoved
  <2>2. ASSUME NEW d \in Conversations \cap walk'.steady, d \in Listed(walk.view)
        PROVE  ~row'[d].left /\ row'[d].flags = walk.view
    <3>1. ~row[d].left /\ row[d].flags = walk.view
      BY <2>2 DEF Listed, Participates
    <3>2. CASE d = c
      BY <1>4, <3>1, <3>2, Unsettled
    <3>3. CASE d # c
      BY <1>4, <3>1, <3>3
    <3> QED
      BY <3>2, <3>3
  <2>3. walk'.view = walk.view
    BY <2>1 DEF IInv, WalksTyped
  <2>4. \A d \in Conversations \cap walk'.steady : d \in Listed(walk.view) => d \in Listed(walk.view)'
    BY <2>2, <2>3 DEF Listed, Participates
  <2> QED
    BY <2>1, <2>4 DEF Outside
<1> QED
  BY <1>3, <1>5, <1>6, <1>7 DEF Good

LEMMA SettingsGood ==
    ASSUME IInv, NEW c \in Conversations,
           \/ \E flag \in UNION Views, on \in BOOLEAN : SetFlag(c, flag, on)
           \/ Pin(c) \/ Unpin(c) \/ Leave(c) \/ Return(c)
    PROVE  Good
<1>1. row[c] \in RowsTyped /\ now' \in Nat /\ row \in [Conversations -> RowsTyped]
  BY DEF IInv, StoreTyped, SetFlag, Pin, Unpin, Leave, Return, Tick
<1>2. ASSUME NEW flag \in UNION Views, NEW on \in BOOLEAN, SetFlag(c, flag, on) PROVE Good
  <2> DEFINE r == [row[c] EXCEPT !.flags = IF on THEN @ \cup {flag} ELSE @ \ {flag}]
  <2>1. r \in RowsTyped /\ r.pinnedAt = row[c].pinnedAt /\ r.lastReadAt = row[c].lastReadAt
    BY <1>1 DEF RowsTyped
  <2>2. row' = [row EXCEPT ![c] = r] /\ Tick /\ Unsettle({c}) /\ UNCHANGED <<updated, msg, req, opened, late>>
    BY <1>1, <1>2 DEF SetFlag
  <2> HIDE DEF r
  <2> QED
    BY <2>1, <2>2, RowWritten
<1>3. CASE Pin(c)
  <2> DEFINE r == [row[c] EXCEPT !.pinnedAt = now']
  <2>1. /\ r \in RowsTyped /\ r.pinnedAt = now' /\ r.lastReadAt = row[c].lastReadAt
        /\ r.left = row[c].left /\ r.flags = row[c].flags
    BY <1>1 DEF RowsTyped
  <2>2. row' = [row EXCEPT ![c] = r] /\ Tick /\ UNCHANGED <<updated, msg, req, opened, late, walk>>
    BY <1>1, <1>3 DEF Pin
  <2> HIDE DEF r
  <2> QED
    BY <2>1, <2>2, RowWritten
<1>4. CASE Unpin(c)
  <2> DEFINE r == [row[c] EXCEPT !.pinnedAt = 0]
  <2>1. /\ r \in RowsTyped /\ r.pinnedAt = 0 /\ r.lastReadAt = row[c].lastReadAt
        /\ r.left = row[c].left /\ r.flags = row[c].flags
    BY <1>1 DEF RowsTyped
  <2>2. row' = [row EXCEPT ![c] = r] /\ Tick /\ UNCHANGED <<updated, msg, req, opened, late, walk>>
    BY <1>1, <1>4 DEF Unpin
  <2> HIDE DEF r
  <2> QED
    BY <2>1, <2>2, RowWritten
<1>5. CASE Leave(c)
  <2> DEFINE r == [row[c] EXCEPT !.left = TRUE]
  <2>1. r \in RowsTyped /\ r.pinnedAt = row[c].pinnedAt /\ r.lastReadAt = row[c].lastReadAt
    BY <1>1 DEF RowsTyped
  <2>2. row' = [row EXCEPT ![c] = r] /\ Tick /\ Unsettle({c}) /\ UNCHANGED <<updated, msg, req, opened, late>>
    BY <1>1, <1>5 DEF Leave
  <2> HIDE DEF r
  <2> QED
    BY <2>1, <2>2, RowWritten
<1>6. CASE Return(c)
  <2> DEFINE r == [row[c] EXCEPT !.left = FALSE]
  <2>1. /\ r \in RowsTyped /\ r.pinnedAt = row[c].pinnedAt /\ r.lastReadAt = row[c].lastReadAt
        /\ ~r.left /\ row[c].left
    BY <1>1, <1>6 DEF RowsTyped, Return, Participates
  <2>2. row' = [row EXCEPT ![c] = r] /\ Tick /\ UNCHANGED <<updated, msg, req, opened, late, walk>>
    BY <1>1, <1>6 DEF Return
  <2> HIDE DEF r
  <2> QED
    BY <2>1, <2>2, RowWritten
<1> QED
  BY <1>2, <1>3, <1>4, <1>5, <1>6

\* One message, that has come before and stays where and when it was, or comes now; with its
\* time, which it has not written yet, it may date its conversation.
LEMMA MessageWritten ==
    ASSUME IInv, NEW m \in Messages, NEW r \in MessagesTyped, msg' = [msg EXCEPT ![m] = r],
           Tick \/ (Exists(m) /\ UNCHANGED now), UNCHANGED <<row, req>>, opened \subseteq opened', late \subseteq late',
           r.in # Null,
           Exists(m) => r.in = msg[m].in /\ r.at = msg[m].at,
           ~Exists(m) => r.at = now' /\ (Reading(r.in) => m \in late'),
           r.status = "read" => m \in opened' \/ (Exists(m) /\ msg[m].status = "read"),
           Exists(m) => r.deleted = msg[m].deleted \/ m \notin walk'.steady,
           Exists(m) => ~msg[m].touched \/ r.touched,
           \/ UNCHANGED updated
           \/ /\ Exists(m) /\ ~msg[m].touched /\ r.touched /\ r.in \notin walk'.steady
              /\ updated' = [updated EXCEPT ![r.in] = r.at],
           \E X \in SUBSET walk.steady : walk' = [walk EXCEPT !.steady = X]
    PROVE  Good
<1>1. StoreTyped /\ TimesFit /\ ReadsFit
  BY DEF IInv
<1>2. now \in Nat /\ now' \in Nat /\ now <= now' /\ (~Exists(m) => now' = now + 1)
  BY <1>1 DEF Tick, StoreTyped
<1>3. StoreTyped'
  <2>1. updated' \in [Conversations -> Nat]
    BY <1>1 DEF StoreTyped, MessagesTyped
  <2> QED
    BY <1>1, <1>2, <2>1 DEF StoreTyped, Exists
<1>4. msg'[m] = r /\ \A x \in Messages : x # m => msg'[x] = msg[x]
  BY <1>1 DEF StoreTyped
<1>5. \A c \in Conversations : /\ updated[c] \in Nat /\ row[c].pinnedAt \in Nat /\ row[c].lastReadAt \in Nat
                               /\ updated[c] <= now /\ row[c].pinnedAt <= now /\ row[c].lastReadAt <= now
  BY <1>1 DEF StoreTyped, TimesFit, RowsTyped
<1>6. \A x \in Messages : msg[x].at \in Nat /\ msg[x].at <= now /\ msg[x].in \in Conversations \cup {Null}
  BY <1>1 DEF StoreTyped, TimesFit, MessagesTyped
<1>7. TimesFit'
  <2>1. ASSUME NEW c \in Conversations
        PROVE  /\ \/ updated'[c] = updated[c]
                  \/ c = r.in /\ Exists(m) /\ ~msg[m].touched /\ r.touched /\ updated'[c] = msg[m].at
               /\ updated'[c] <= now' /\ row'[c].pinnedAt <= now' /\ row'[c].lastReadAt <= now'
    <3>1. \/ updated'[c] = updated[c]
          \/ c = r.in /\ Exists(m) /\ ~msg[m].touched /\ r.touched /\ updated'[c] = msg[m].at
      BY <1>1 DEF StoreTyped
    <3> QED
      BY <1>2, <1>5, <1>6, <3>1
  <2>2. ASSUME NEW c \in Conversations, NEW d \in Conversations, updated'[c] = updated'[d] PROVE c = d
    <3>1. updated[c] = updated[d] => c = d
      BY <1>1 DEF TimesFit
    <3>2. Exists(m) /\ ~msg[m].touched => updated[c] # msg[m].at /\ updated[d] # msg[m].at
      BY <1>1 DEF TimesFit
    <3> QED
      BY <2>1, <2>2, <3>1, <3>2
  <2>3. \A c, d \in Conversations : Pinned(c)' /\ row'[c].pinnedAt = row'[d].pinnedAt => c = d
    BY <1>1 DEF TimesFit, Pinned
  <2>4. ASSUME NEW x \in Messages PROVE msg'[x].at <= now'
    BY <1>2, <1>4, <1>6
  <2>5. ASSUME NEW x \in Messages, NEW y \in Messages, msg'[x].in # Null, msg'[y].in # Null,
               msg'[x].at = msg'[y].at
        PROVE  x = y
    <3>1. msg[x].in # Null /\ msg[y].in # Null /\ msg[x].at = msg[y].at => x = y
      BY <1>1 DEF TimesFit, Exists
    <3> QED
      BY <1>2, <1>4, <1>6, <2>5, <3>1 DEF Exists
  <2>6. ASSUME NEW x \in Messages, msg'[x].in # Null, ~msg'[x].touched, NEW c \in Conversations
        PROVE  updated'[c] # msg'[x].at
    <3>1. Exists(x) /\ ~msg[x].touched => updated[c] # msg[x].at
      BY <1>1 DEF TimesFit
    <3>2. Exists(x) /\ Exists(m) /\ msg[x].at = msg[m].at => x = m
      BY <1>1 DEF TimesFit
    <3>3. CASE x # m
      BY <1>4, <2>1, <2>6, <3>1, <3>2, <3>3 DEF Exists
    <3>4. CASE x = m /\ Exists(m)
      BY <1>4, <2>1, <2>6, <3>1, <3>4
    <3>5. CASE x = m /\ ~Exists(m)
      BY <1>2, <1>4, <1>5, <2>1, <3>5
    <3> QED
      BY <3>3, <3>4, <3>5
  <2> QED
    BY <2>1, <2>2, <2>3, <2>4, <2>5, <2>6 DEF TimesFit, Exists
<1>8. ReadsFit'
  <2>1. ASSUME NEW x \in Messages, msg'[x].in # Null
        PROVE  /\ msg'[x].status = "read" => x \in opened'
               /\ msg'[x].at <= row'[msg'[x].in].lastReadAt => x \in opened' \cup late'
    <3>1. msg[x].in # Null => /\ msg[x].status = "read" => x \in opened
                              /\ msg[x].at <= row[msg[x].in].lastReadAt => x \in opened \cup late
      BY <1>1 DEF ReadsFit, NothingReadUnasked, Exists
    <3>2. CASE x # m
      BY <1>4, <2>1, <3>1, <3>2
    <3>3. CASE x = m /\ Exists(m)
      BY <1>4, <3>1, <3>3 DEF Exists
    <3>4. CASE x = m /\ ~Exists(m)
      <4>1. row[r.in].lastReadAt \in Nat /\ row[r.in].lastReadAt <= now
        BY <1>5 DEF MessagesTyped
      <4> QED
        BY <1>2, <1>4, <3>4, <4>1
    <3> QED
      BY <3>2, <3>3, <3>4
  <2>2. NothingReadUnasked'
    BY <2>1 DEF NothingReadUnasked, Exists
  <2>3. ASSUME NEW w \in Workers, req[w].pc \in {"read_write", "read_row"}, NEW x \in Messages,
               msg'[x].in = req[w].c
        PROVE  x \in opened' \cup late'
    <3>1. msg[x].in = req[w].c => x \in opened \cup late
      BY <1>1, <2>3 DEF ReadsFit, In
    <3>2. CASE x # m \/ Exists(m)
      BY <1>4, <2>3, <3>1, <3>2
    <3>3. CASE x = m /\ ~Exists(m)
      <4>1. Reading(r.in)
        BY <1>4, <2>3, <3>3 DEF Reading
      <4> QED
        BY <3>3, <4>1
    <3> QED
      BY <3>2, <3>3
  <2>4. ASSUME NEW w \in Workers, req[w].pc = "read_write"
        PROVE  req[w].ids \subseteq opened' \cap In(req[w].c)'
    <3>1. req[w].ids \subseteq opened /\ req[w].ids \subseteq In(req[w].c) /\ req[w].c # Null
      BY <1>1, <2>4 DEF ReadsFit, StoreTyped
    <3>2. \A x \in In(req[w].c) : msg'[x].in = req[w].c
      BY <1>4, <3>1 DEF In, Exists
    <3> QED
      BY <3>1, <3>2 DEF In
  <2> QED
    BY <1>1, <2>2, <2>3, <2>4 DEF ReadsFit, In
<1>9. Outside
  <2>1. walk'.view = walk.view
    BY DEF IInv, WalksTyped
  <2>2. \A d \in Conversations : d \in Listed(walk.view) => d \in Listed(walk.view)'
    BY <2>1 DEF Listed, Participates
  <2>4. \A x \in Messages : Exists(x) => msg'[x].in = msg[x].in /\ msg'[x].at = msg[x].at
    BY <1>4
  <2>5. \A x \in Messages \cap walk'.steady : Exists(x) => msg'[x].deleted = msg[x].deleted
    BY <1>4
  <2>6. \A c \in Conversations \cap walk'.steady : updated'[c] = updated[c]
    BY <1>1 DEF StoreTyped
  <2> QED
    BY <2>2, <2>4, <2>5, <2>6 DEF Outside
<1> QED
  BY <1>3, <1>7, <1>8, <1>9 DEF Good

LEMMA ArriveGood ==
    ASSUME IInv, NEW m \in Messages, NEW c \in Conversations, Arrive(m, c)
    PROVE  Good
<1> DEFINE r == [NoMessage EXCEPT !.in = c, !.at = now', !.status = IF Participates(c) THEN "unread" ELSE "none"]
<1>1. /\ Tick /\ ~Exists(m) /\ msg' = [msg EXCEPT ![m] = r] /\ UNCHANGED <<row, updated, req, walk, opened>>
      /\ late' = IF Reading(c) THEN late \cup {m} ELSE late
  BY DEF Arrive
<1>2. now' \in Nat /\ updated \in [Conversations -> Nat]
  BY <1>1 DEF Tick, IInv, StoreTyped
<1>3. r \in MessagesTyped /\ r.in = c /\ r.at = now' /\ r.status # "read"
  BY <1>2 DEF NoMessage, MessagesTyped
<1> HIDE DEF r
<1>4. c # Null
  OBVIOUS
<1> QED
  BY <1>1, <1>2, <1>3, <1>4, Unmoved, MessageWritten

LEMMA TouchGood ==
    ASSUME IInv, NEW m \in Messages, Touch(m)
    PROVE  Good
<1> DEFINE r == [msg[m] EXCEPT !.touched = TRUE]
           c == msg[m].in
<1>1. msg[m] \in MessagesTyped
  BY DEF IInv, StoreTyped
<1>2. /\ Exists(m) /\ ~msg[m].touched /\ msg' = [msg EXCEPT ![m] = r]
      /\ UNCHANGED <<now, row, req, opened, late>>
      /\ updated' = [updated EXCEPT ![c] = msg[m].at] /\ Unsettle({c})
  BY DEF Touch, IInv, StoreTyped
<1>3. /\ r \in MessagesTyped /\ r.in = c /\ r.at = msg[m].at /\ r.status = msg[m].status
      /\ r.deleted = msg[m].deleted /\ r.touched
  BY <1>1 DEF MessagesTyped
<1>4. c # Null /\ c = msg[m].in
  BY <1>2 DEF Exists
<1> HIDE DEF r, c
<1>5. (\E X \in SUBSET walk.steady : walk' = [walk EXCEPT !.steady = X]) /\ c \notin walk'.steady
  BY <1>2, Unsettled
<1> QED
  BY <1>2, <1>3, <1>4, <1>5, MessageWritten

LEMMA DeleteMessageGood ==
    ASSUME IInv, NEW m \in Messages, DeleteMessage(m)
    PROVE  Good
<1> DEFINE r == [msg[m] EXCEPT !.deleted = TRUE]
<1>1. msg[m] \in MessagesTyped /\ updated \in [Conversations -> Nat]
  BY DEF IInv, StoreTyped
<1>2. /\ Tick /\ Exists(m) /\ msg' = [msg EXCEPT ![m] = r] /\ UNCHANGED <<row, updated, req, opened, late>>
      /\ Unsettle({m})
  BY DEF DeleteMessage, IInv, StoreTyped
<1>3. /\ r \in MessagesTyped /\ r.in = msg[m].in /\ r.at = msg[m].at /\ r.status = msg[m].status /\ r.in # Null
      /\ r.touched = msg[m].touched
  BY <1>1, <1>2 DEF MessagesTyped, Exists
<1> HIDE DEF r
<1>4. (\E X \in SUBSET walk.steady : walk' = [walk EXCEPT !.steady = X]) /\ m \notin walk'.steady
  BY <1>2, Unsettled
<1> QED
  BY <1>1, <1>2, <1>3, <1>4, MessageWritten

LEMMA ReadMessageGood ==
    ASSUME IInv, NEW m \in Messages, ReadMessage(m)
    PROVE  Good
<1> DEFINE r == [msg[m] EXCEPT !.status = "read"]
<1>1. msg[m] \in MessagesTyped /\ updated \in [Conversations -> Nat] /\ Exists(m)
  BY DEF IInv, StoreTyped, ReadMessage
<1>2. /\ Tick /\ msg' = [msg EXCEPT ![m] = r] /\ UNCHANGED <<row, updated, req, walk, late>>
      /\ opened' = opened \cup {m}
  BY DEF ReadMessage, IInv, StoreTyped
<1>3. /\ r \in MessagesTyped /\ r.in = msg[m].in /\ r.at = msg[m].at /\ r.deleted = msg[m].deleted /\ r.in # Null
      /\ r.touched = msg[m].touched
  BY <1>1, <1>2 DEF MessagesTyped, Exists
<1> HIDE DEF r
<1> QED
  BY <1>1, <1>2, <1>3, Unmoved, MessageWritten

LEMMA ReadBeginGood ==
    ASSUME IInv, NEW w \in Workers, NEW c \in Conversations, ReadBegin(w, c)
    PROVE  Good
<1> DEFINE r == [Idle EXCEPT !.pc = "read_find", !.c = c]
<1>1. r \in RequestsTyped /\ r.pc = "read_find" /\ r.c = c
  BY DEF Idle, RequestsTyped
<1>2. req' = [req EXCEPT ![w] = r] /\ UNCHANGED <<now, row, updated, msg, walk, opened, late>>
  BY DEF ReadBegin, GoTo
<1> HIDE DEF r
<1>3. StoreTyped'
  BY <1>1, <1>2 DEF IInv, StoreTyped, Exists
<1>4. TimesFit'
  BY <1>2 DEF IInv, TimesFit, Pinned, Exists
<1>5. ReadsFit'
  <2>1. NothingReadUnasked'
    BY <1>2 DEF IInv, ReadsFit, NothingReadUnasked, Exists
  <2> QED
    BY <1>1, <1>2, <2>1 DEF IInv, ReadsFit, In, StoreTyped
<1> QED
  BY <1>2, <1>3, <1>4, <1>5, SameStore DEF Good

LEMMA ReadFindGood ==
    ASSUME IInv, NEW w \in Workers, ReadFind(w)
    PROVE  Good
<1> DEFINE r == [req[w] EXCEPT !.pc = "read_write", !.ids = Unread(req[w].c)]
<1>1. req[w] \in RequestsTyped /\ req[w].pc = "read_find" /\ req[w].c \in Conversations
  BY DEF IInv, StoreTyped, ReadFind, At
<1>2. r \in RequestsTyped /\ r.pc = "read_write" /\ r.c = req[w].c /\ r.ids \subseteq In(r.c)
  BY <1>1 DEF RequestsTyped, Unread, In
<1>3. /\ req' = [req EXCEPT ![w] = r] /\ UNCHANGED <<now, row, updated, msg, walk, late>>
      /\ opened' = opened \cup In(r.c)
  BY <1>2 DEF ReadFind, GoTo
<1> HIDE DEF r
<1>4. StoreTyped'
  BY <1>1, <1>2, <1>3 DEF IInv, StoreTyped, Exists
<1>5. TimesFit'
  BY <1>3 DEF IInv, TimesFit, Pinned, Exists
<1>6. ReadsFit'
  <2>1. NothingReadUnasked'
    BY <1>3 DEF IInv, ReadsFit, NothingReadUnasked, Exists
  <2>2. ASSUME NEW v \in Workers
        PROVE  /\ req'[v].pc = "read_write" => req'[v].ids \subseteq opened' \cap In(req[v].c)'
               /\ req'[v].pc \in {"read_write", "read_row"} => In(req[v].c)' \subseteq opened' \cup late'
    <3>1. CASE v = w
      <4>1. req'[v] = r
        BY <1>3, <3>1 DEF IInv, StoreTyped
      <4> QED
        BY <1>2, <1>3, <4>1 DEF In
    <3>2. CASE v # w
      <4>1. req'[v] = req[v]
        BY <1>3, <3>2 DEF IInv, StoreTyped
      <4> QED
        BY <1>3, <4>1 DEF In, IInv, ReadsFit
    <3> QED
      BY <3>1, <3>2
  <2> QED
    BY <2>1, <2>2 DEF ReadsFit
<1> QED
  BY <1>3, <1>4, <1>5, <1>6, SameStore DEF Good

LEMMA ReadWriteGood ==
    ASSUME IInv, NEW w \in Workers, ReadWrite(w)
    PROVE  Good
<1> DEFINE r == [req[w] EXCEPT !.pc = "read_row"]
<1>1. /\ StoreTyped /\ TimesFit /\ ReadsFit
      /\ req[w] \in RequestsTyped /\ req[w].pc = "read_write" /\ req[w].c \in Conversations
  BY DEF IInv, StoreTyped, ReadWrite, At
<1>2. r \in RequestsTyped /\ r.pc = "read_row" /\ r.c = req[w].c
  BY <1>1 DEF RequestsTyped
<1>3. /\ req' = [req EXCEPT ![w] = r] /\ UNCHANGED <<now, row, updated, walk, opened, late>>
      /\ msg' = [m \in Messages |-> IF m \in req[w].ids THEN [msg[m] EXCEPT !.status = "read"] ELSE msg[m]]
  BY DEF ReadWrite, GoTo, FoundUnread
<1> HIDE DEF r
<1>4. ASSUME NEW m \in Messages
      PROVE  /\ msg'[m] \in MessagesTyped /\ msg'[m].in = msg[m].in /\ msg'[m].at = msg[m].at
             /\ msg'[m].deleted = msg[m].deleted
             /\ msg'[m].status \in {msg[m].status, "read"}
             /\ msg'[m].status # msg[m].status => m \in req[w].ids
  BY <1>1, <1>3 DEF StoreTyped, MessagesTyped
<1>5. StoreTyped'
  <2>1. msg' \in [Messages -> MessagesTyped]
    BY <1>3, <1>4
  <2>2. \A m \in Messages : msg'[m].in # Null \/ msg'[m].status = "none"
    <3>1. \A m \in req[w].ids : m \in Messages => msg[m].in # Null
      BY <1>1 DEF StoreTyped, ReadsFit, In
    <3> QED
      BY <1>1, <1>4, <3>1 DEF StoreTyped, Exists
  <2>3. req' \in [Workers -> RequestsTyped] /\ \A v \in Workers : req'[v].pc # "idle" => req'[v].c \in Conversations
    BY <1>1, <1>2, <1>3 DEF StoreTyped
  <2> QED
    BY <1>1, <1>3, <2>1, <2>2, <2>3 DEF StoreTyped, Exists
<1>6. TimesFit'
  BY <1>1, <1>3, <1>4 DEF TimesFit, Pinned, Exists
<1>7. ReadsFit'
  <2>1. req[w].ids \subseteq opened
    BY <1>1 DEF ReadsFit
  <2>2. NothingReadUnasked'
    BY <1>1, <1>3, <1>4, <2>1 DEF ReadsFit, NothingReadUnasked, Exists
  <2>3. ASSUME NEW v \in Workers
        PROVE  /\ req'[v].pc = "read_write" => req'[v].ids \subseteq opened' \cap In(req[v].c)'
               /\ req'[v].pc \in {"read_write", "read_row"} => In(req[v].c)' \subseteq opened' \cup late'
    <3>1. req'[v].c = req[v].c /\ In(req[v].c)' = In(req[v].c)
      <4>1. req'[v].c = req[v].c
        BY <1>1, <1>2, <1>3 DEF StoreTyped
      <4> QED
        BY <1>4, <4>1 DEF In
    <3>2. v # w => req'[v] = req[v]
      BY <1>1, <1>3 DEF StoreTyped
    <3>3. v = w => req'[v] = r
      BY <1>1, <1>3 DEF StoreTyped
    <3> QED
      BY <1>1, <1>2, <1>3, <3>1, <3>2, <3>3 DEF ReadsFit
  <2> QED
    BY <2>2, <2>3 DEF ReadsFit
<1>8. Outside
  <2>1. \E X \in SUBSET walk.steady : walk' = [walk EXCEPT !.steady = X]
    BY <1>3, Unmoved
  <2>2. Listed(walk.view)' = Listed(walk.view)
    BY <1>3 DEF Listed, Participates
  <2> QED
    BY <1>3, <1>4, <2>1, <2>2 DEF Outside
<1> QED
  BY <1>5, <1>6, <1>7, <1>8 DEF Good

\* Writing lastReadAt of some conversations whose messages have all been asked for, or are late.
LEMMA LastReadWritten ==
    ASSUME IInv, NEW D \in SUBSET Conversations, Tick,
           row' = [c \in Conversations |-> IF c \in D THEN [row[c] EXCEPT !.lastReadAt = now'] ELSE row[c]],
           UNCHANGED <<updated, msg, walk, opened>>, late \subseteq late',
           \A c \in D : In(c) \subseteq opened \cup late',
           UNCHANGED req \/ \E w \in Workers : End(w)
    PROVE  Good
<1>1. StoreTyped /\ TimesFit /\ ReadsFit
  BY DEF IInv
<1>2. now \in Nat /\ now' = now + 1 /\ now' \in Nat
  BY <1>1 DEF Tick, StoreTyped
<1>3. ASSUME NEW c \in Conversations
      PROVE  /\ row'[c] \in RowsTyped /\ row'[c].left = row[c].left /\ row'[c].flags = row[c].flags
             /\ row'[c].pinnedAt = row[c].pinnedAt
             /\ row'[c].lastReadAt = row[c].lastReadAt \/ c \in D
             /\ row'[c].lastReadAt <= now' /\ row'[c].pinnedAt <= now' /\ updated[c] <= now'
  <2>1. /\ row[c] \in RowsTyped /\ row[c].lastReadAt <= now /\ row[c].pinnedAt <= now
        /\ updated[c] <= now /\ updated[c] \in Nat
    BY <1>1 DEF StoreTyped, TimesFit
  <2>2. row'[c] = IF c \in D THEN [row[c] EXCEPT !.lastReadAt = now'] ELSE row[c]
    OBVIOUS
  <2> QED
    BY <1>2, <2>1, <2>2 DEF RowsTyped
<1>4. \A w \in Workers : req'[w] = req[w] \/ req'[w] = Idle
  BY <1>1 DEF StoreTyped, End, GoTo
<1>5. StoreTyped'
  <2>1. req' \in [Workers -> RequestsTyped]
    BY <1>1 DEF StoreTyped, End, GoTo, Idle, RequestsTyped
  <2>2. \A w \in Workers : req'[w].pc # "idle" => req'[w].c \in Conversations
    BY <1>1, <1>4 DEF StoreTyped, Idle
  <2>3. row' \in [Conversations -> RowsTyped]
    BY <1>3
  <2> QED
    BY <1>1, <1>2, <2>1, <2>2, <2>3 DEF StoreTyped, Exists
<1>6. TimesFit'
  <2>1. \A m \in Messages : msg[m].at <= now'
    BY <1>1, <1>2 DEF StoreTyped, TimesFit, MessagesTyped
  <2>2. \A c, d \in Conversations : Pinned(c)' /\ row'[c].pinnedAt = row'[d].pinnedAt => c = d
    BY <1>1, <1>3 DEF TimesFit, Pinned
  <2> QED
    BY <1>1, <1>3, <2>1, <2>2 DEF TimesFit, Exists
<1>7. ReadsFit'
  <2>1. ASSUME NEW m \in Messages, Exists(m), msg[m].at <= row'[msg[m].in].lastReadAt
        PROVE  m \in opened \cup late'
    <3>1. msg[m].in \in Conversations
      BY <1>1, <2>1 DEF StoreTyped, MessagesTyped, Exists
    <3>2. CASE msg[m].in \in D
      BY <3>2 DEF In
    <3>3. CASE msg[m].in \notin D
      BY <1>1, <1>3, <2>1, <3>1, <3>3 DEF ReadsFit, NothingReadUnasked
    <3> QED
      BY <3>2, <3>3
  <2>2. NothingReadUnasked'
    BY <1>1, <2>1 DEF ReadsFit, NothingReadUnasked, Exists
  <2> QED
    BY <1>1, <1>4, <2>2 DEF ReadsFit, In, Idle
<1>8. Outside
  <2>1. \E X \in SUBSET walk.steady : walk' = [walk EXCEPT !.steady = X]
    BY Unmoved
  <2>2. Listed(walk.view)' = Listed(walk.view)
    BY <1>3 DEF Listed, Participates
  <2> QED
    BY <2>1, <2>2 DEF Outside
<1> QED
  BY <1>5, <1>6, <1>7, <1>8 DEF Good

LEMMA ReadRowGood ==
    ASSUME IInv, NEW w \in Workers, ReadRow(w)
    PROVE  Good
<1>1. req[w].pc = "read_row" /\ req[w].c \in Conversations /\ row \in [Conversations -> RowsTyped]
  BY DEF IInv, StoreTyped, ReadRow, At
<1>2. In(req[w].c) \subseteq opened \cup late
  BY <1>1 DEF IInv, ReadsFit
<1>3. row' = [c \in Conversations |-> IF c \in {req[w].c} THEN [row[c] EXCEPT !.lastReadAt = now'] ELSE row[c]]
  BY <1>1 DEF ReadRow
<1>4. Tick /\ End(w) /\ UNCHANGED <<updated, msg, walk, opened, late>>
  BY DEF ReadRow
<1>5. {req[w].c} \in SUBSET Conversations /\ \A c \in {req[w].c} : In(c) \subseteq opened \cup late'
  BY <1>1, <1>2, <1>4
<1> QED
  BY <1>3, <1>4, <1>5, LastReadWritten

LEMMA ReadAllGood ==
    ASSUME IInv, ReadAll
    PROVE  Good
<1> DEFINE D == {c \in Conversations : Participates(c)}
<1>1. /\ Tick /\ UNCHANGED <<updated, msg, req, walk, opened>>
      /\ late' = late \cup UNION {In(c) : c \in D}
      /\ row' = [c \in Conversations |-> IF c \in D THEN [row[c] EXCEPT !.lastReadAt = now'] ELSE row[c]]
  BY DEF ReadAll
<1>2. D \in SUBSET Conversations /\ late \subseteq late' /\ \A c \in D : In(c) \subseteq opened \cup late'
  BY <1>1
<1> HIDE DEF D
<1> QED
  BY <1>1, <1>2, LastReadWritten

----------------------------------------------------------------------------
(* The orders of the pages. *)

NewerPairs == {p \in Conversations \X Conversations : Newer(p[1], p[2])}
AbovePairs == {p \in Conversations \X Conversations : Above(p[1], p[2])}
LaterPairs == {p \in Messages \X Messages : Later(p[1], p[2])}

LEMMA NewerFirst ==
    ASSUME IInv, NEW X, X \subseteq Conversations, NEW n \in Nat
    PROVE  IsFiniteSet(X) /\ Orders(NewerPairs, X) /\ FirstOf(X, n, Newer) = First(X, n, NewerPairs)
<1>1. IsFiniteSet(X)
  BY FiniteAssumption, FS_Subset
<1>2. \A x, y \in X : <<x, y>> \in NewerPairs <=> updated[x] > updated[y]
  BY DEF NewerPairs, Newer
<1>3. \A x \in X : updated[x] \in Nat
  BY DEF IInv, StoreTyped
<1>4. \A x, y \in X : updated[x] = updated[y] => x = y
  BY DEF IInv, TimesFit
<1>5. Orders(NewerPairs, X)
  BY <1>2, <1>3, <1>4 DEF Orders
<1>6. \A x \in X : {y \in X : Newer(y, x)} = Before(X, NewerPairs, x)
  BY <1>2 DEF Before, Newer
<1>7. FirstOf(X, n, Newer) = First(X, n, NewerPairs)
  BY <1>6 DEF FirstOf, First
<1> QED
  BY <1>1, <1>5, <1>7

LEMMA AboveFirst ==
    ASSUME IInv, NEW X, X \subseteq Conversations, NEW n \in Nat
    PROVE  IsFiniteSet(X) /\ Orders(AbovePairs, X) /\ FirstOf(X, n, Above) = First(X, n, AbovePairs)
<1>1. IsFiniteSet(X)
  BY FiniteAssumption, FS_Subset
<1>2. \A x, y \in X : <<x, y>> \in AbovePairs <=> Above(x, y)
  BY DEF AbovePairs
<1>3. \A x \in X : updated[x] \in Nat /\ row[x].pinnedAt \in Nat
  BY DEF IInv, StoreTyped, RowsTyped
<1>4. \A x, y \in X : /\ updated[x] = updated[y] => x = y
                      /\ Pinned(x) /\ row[x].pinnedAt = row[y].pinnedAt => x = y
  BY DEF IInv, TimesFit
<1>5. ASSUME NEW x \in X, NEW y \in X
      PROVE  ~Above(x, x) /\ (x = y \/ Above(x, y) \/ Above(y, x))
  BY <1>3, <1>4 DEF Above
<1>6. ASSUME NEW x \in X, NEW y \in X, NEW z \in X, Above(x, y), Above(y, z)
      PROVE  Above(x, z)
  BY <1>3, <1>6 DEF Above
<1>7. Orders(AbovePairs, X)
  BY <1>2, <1>5, <1>6 DEF Orders
<1>8. \A x \in X : {y \in X : Above(y, x)} = Before(X, AbovePairs, x)
  BY <1>2 DEF Before
<1>9. FirstOf(X, n, Above) = First(X, n, AbovePairs)
  BY <1>8 DEF FirstOf, First
<1> QED
  BY <1>1, <1>7, <1>9

LEMMA LaterFirst ==
    ASSUME IInv, NEW X, X \subseteq Messages, \A x \in X : Exists(x), NEW n \in Nat
    PROVE  IsFiniteSet(X) /\ Orders(LaterPairs, X) /\ FirstOf(X, n, Later) = First(X, n, LaterPairs)
<1>1. IsFiniteSet(X)
  BY FiniteAssumption, FS_Subset
<1>2. \A x, y \in X : <<x, y>> \in LaterPairs <=> msg[x].at > msg[y].at
  BY DEF LaterPairs, Later
<1>3. \A x \in X : msg[x].at \in Nat
  BY DEF IInv, StoreTyped, MessagesTyped
<1>4. \A x, y \in X : msg[x].at = msg[y].at => x = y
  BY DEF IInv, TimesFit
<1>5. Orders(LaterPairs, X)
  BY <1>2, <1>3, <1>4 DEF Orders
<1>6. \A x \in X : {y \in X : Later(y, x)} = Before(X, LaterPairs, x)
  BY <1>2 DEF Before, Later
<1>7. FirstOf(X, n, Later) = First(X, n, LaterPairs)
  BY <1>6 DEF FirstOf, First
<1> QED
  BY <1>1, <1>5, <1>7

\* What CHOOSE finds.
LEMMA LastAbove ==
    ASSUME IInv, NEW X, X \subseteq Conversations, X # {}
    PROVE  LastOf(X, Above) \in X /\ \A y \in X \ {LastOf(X, Above)} : Above(y, LastOf(X, Above))
<1>1. IsFiniteSet(X) /\ Orders(AbovePairs, X)
  BY AboveFirst
<1>2. \E x \in X : \A y \in X \ {x} : <<y, x>> \in AbovePairs
  BY <1>1, LastExists
<1>3. \E x \in X : \A y \in X \ {x} : Above(y, x)
  BY <1>2 DEF AbovePairs
<1> QED
  BY <1>3 DEF LastOf

LEMMA LastLater ==
    ASSUME IInv, NEW X, X \subseteq Messages, \A x \in X : Exists(x), X # {}
    PROVE  LastOf(X, Later) \in X /\ \A y \in X \ {LastOf(X, Later)} : Later(y, LastOf(X, Later))
<1>1. IsFiniteSet(X) /\ Orders(LaterPairs, X)
  BY LaterFirst
<1>2. \E x \in X : \A y \in X \ {x} : <<y, x>> \in LaterPairs
  BY <1>1, LastExists
<1>3. \E x \in X : \A y \in X \ {x} : Later(y, x)
  BY <1>2 DEF LaterPairs
<1> QED
  BY <1>3 DEF LastOf

----------------------------------------------------------------------------
(* A page of the list, a page of a history. *)

\* What a page may still show.
Remaining == {c \in Listed(walk.view) : walk.cursor = Null \/ updated[c] < walk.before}

LEMMA FetchedFacts ==
    ASSUME IInv
    PROVE  /\ Fetched \subseteq Remaining /\ Remaining \subseteq Conversations /\ IsFiniteSet(Fetched)
           /\ \A c \in Remaining \ Fetched : \A x \in Fetched : updated[c] < updated[x]
           /\ Cardinality(Fetched) \in Nat
           /\ Cardinality(Fetched) <= Limit => Fetched = Remaining
<1>1. Remaining \subseteq Conversations /\ Limit + 1 \in Nat
  BY DEF Remaining, Listed
<1>2. /\ Fetched = First(Remaining, Limit + 1, NewerPairs)
      /\ IsFiniteSet(Remaining) /\ Orders(NewerPairs, Remaining)
  BY <1>1, NewerFirst DEF Fetched, Remaining
<1>3. Fetched \subseteq Remaining /\ IsFiniteSet(Fetched) /\ Cardinality(Fetched) \in Nat
  BY <1>2, FS_Subset, FS_CardinalityType DEF First
<1>4. ASSUME NEW c \in Remaining \ Fetched, NEW x \in Fetched PROVE updated[c] < updated[x]
  <2>1. <<c, x>> \notin NewerPairs
    BY <1>1, <1>2, FirstClosed
  <2>2. <<x, c>> \in NewerPairs
    BY <1>2, <1>3, <2>1 DEF Orders
  <2> QED
    BY <1>1, <1>3, <2>2 DEF NewerPairs, Newer, IInv, StoreTyped
<1>5. ASSUME Cardinality(Fetched) <= Limit PROVE Fetched = Remaining
  <2>1. Cardinality(Fetched) < Limit + 1
    BY <1>3, <1>5
  <2> QED
    BY <1>1, <1>2, <2>1, FirstFull
<1> QED
  BY <1>1, <1>3, <1>4, <1>5

LEMMA PageFacts ==
    ASSUME IInv
    PROVE  /\ Page \subseteq Fetched
           /\ Cardinality(Fetched) <= Limit => Page = Fetched
           /\ Cardinality(Fetched) > Limit =>
                /\ NextCursor \in Page
                /\ \A c \in Fetched \ Page : Above(NextCursor, c)
<1>1. Fetched \subseteq Conversations /\ IsFiniteSet(Fetched) /\ Cardinality(Fetched) \in Nat /\ Limit \in Nat
  BY FetchedFacts
<1>2. Page = First(Fetched, Limit, AbovePairs) /\ Orders(AbovePairs, Fetched)
  BY <1>1, AboveFirst DEF Page
<1>3. Page \subseteq Fetched /\ IsFiniteSet(Page) /\ Cardinality(Page) \in Nat
  BY <1>1, <1>2, FS_Subset, FS_CardinalityType DEF First
<1>4. Cardinality(Page) < Limit => Page = Fetched
  BY <1>1, <1>2, FirstFull
<1>5. ASSUME Cardinality(Fetched) <= Limit PROVE Page = Fetched
  <2>1. Cardinality(Page) <= Cardinality(Fetched) /\ (Cardinality(Page) = Cardinality(Fetched) => Page = Fetched)
    BY <1>1, <1>3, FS_Subset
  <2> QED
    BY <1>1, <1>3, <1>4, <1>5, <2>1
<1>6. ASSUME Cardinality(Fetched) > Limit PROVE Page # {}
  <2>1. Page = {} => Cardinality(Page) = 0
    BY FS_EmptySet
  <2> QED
    BY <1>1, <1>4, <1>6, <2>1
<1>7. ASSUME Cardinality(Fetched) > Limit
      PROVE  NextCursor \in Page /\ \A c \in Fetched \ Page : Above(NextCursor, c)
  <2>1. NextCursor \in Page
    BY <1>1, <1>3, <1>6, <1>7, LastAbove DEF NextCursor
  <2>2. ASSUME NEW c \in Fetched \ Page PROVE Above(NextCursor, c)
    <3>1. <<c, NextCursor>> \notin AbovePairs
      BY <1>1, <1>2, <2>1, FirstClosed
    <3>2. <<NextCursor, c>> \in AbovePairs
      BY <1>2, <1>3, <2>1, <3>1 DEF Orders
    <3> QED
      BY <3>2 DEF AbovePairs
  <2> QED
    BY <2>1, <2>2
<1> QED
  BY <1>3, <1>5, <1>7

----------------------------------------------------------------------------
(* The steps of the walk. *)

LEMMA StoreRests ==
    ASSUME IInv, UNCHANGED <<now, row, updated, msg, req, opened, late>>
    PROVE  StoreTyped' /\ TimesFit' /\ ReadsFit'
<1>1. StoreTyped'
  BY DEF IInv, StoreTyped, Exists
<1>2. TimesFit'
  BY DEF IInv, TimesFit, Pinned, Exists
<1>3. NothingReadUnasked'
  BY DEF IInv, ReadsFit, NothingReadUnasked, Exists
<1>4. ReadsFit'
  BY <1>3 DEF IInv, ReadsFit, In
<1> QED
  BY <1>1, <1>2, <1>4

LEMMA ListBeginPreserves ==
    ASSUME IInv, NEW view \in Views, ListBegin(view)
    PROVE  IInv'
<1> DEFINE r == [NoWalk EXCEPT !.pc = "list_page", !.view = view, !.steady = Listed(view)]
<1>1. walk' = r /\ UNCHANGED <<now, row, updated, msg, req, opened, late>>
  BY DEF ListBegin
<1>2. /\ r \in WalksTyped /\ r.pc = "list_page" /\ r.kind = "list" /\ r.view = view /\ r.steady = Listed(view)
      /\ r.cursor = Null
  BY DEF NoWalk, WalksTyped, Listed, Items
<1> HIDE DEF r
<1>3. ListFits' /\ HistoryFits' /\ DoneFits'
  BY <1>1, <1>2 DEF ListFits, HistoryFits, DoneFits, Listed, Participates
<1> QED
  BY <1>1, <1>2, <1>3, StoreRests DEF IInv

\* Whatever was in the list all along and has not been seen is on this page, is passed over by a
\* page that ends with a pin, or is older than the cursor.
LEMMA ListPagePreserves ==
    ASSUME IInv, ListPage
    PROVE  IInv'
<1> DEFINE more == Cardinality(Fetched) > Limit
           r == [walk EXCEPT
                   !.pc = IF more THEN "list_cursor" ELSE "done",
                   !.cursor = IF more THEN NextCursor ELSE Null,
                   !.before = IF more THEN updated[NextCursor] ELSE 0,
                   !.shown = @ \cup Page,
                   !.passed = IF more /\ Pinned(NextCursor) THEN @ \cup (Fetched \ Page) ELSE @]
<1>1. /\ walk.pc = "list_page" /\ walk' = r /\ UNCHANGED <<now, row, updated, msg, req, opened, late>>
      /\ walk \in WalksTyped
  BY DEF ListPage, IInv
<1>2. /\ Page \subseteq Fetched /\ Fetched \subseteq Remaining /\ Remaining \subseteq Conversations
      /\ more => NextCursor \in Page
      /\ ~more => Page = Remaining
  BY FetchedFacts, PageFacts
<1>3. /\ r.pc = (IF more THEN "list_cursor" ELSE "done") /\ r.kind = walk.kind /\ r.view = walk.view
      /\ r.cursor = (IF more THEN NextCursor ELSE Null) /\ r.steady = walk.steady
      /\ r.before = (IF more THEN updated[NextCursor] ELSE 0)
      /\ r.shown = walk.shown \cup Page
      /\ r.passed = IF more /\ Pinned(NextCursor) THEN walk.passed \cup (Fetched \ Page) ELSE walk.passed
  BY <1>1 DEF WalksTyped
<1>4. r \in WalksTyped
  <2>1. more => NextCursor \in Items
    BY <1>2 DEF Items
  <2>2. Page \subseteq Items /\ Fetched \subseteq Items
    BY <1>2 DEF Items
  <2>3. more => updated[NextCursor] \in Nat
    BY <1>2 DEF IInv, StoreTyped
  <2> HIDE DEF more
  <2> QED
    BY <1>1, <2>1, <2>2, <2>3 DEF WalksTyped
<1> HIDE DEF r
<1>5. ListFits /\ ListFits!1
  BY <1>1 DEF IInv
<1>6. walk.kind = "list" /\ walk.steady \subseteq Listed(walk.view)
  BY <1>1, <1>5 DEF ListFits
<1>7. ASSUME NEW c \in walk.steady
      PROVE  Seen(c) \/ c \in Remaining
  BY <1>1, <1>5, <1>6 DEF ListFits, Remaining
<1>8. ASSUME more, NEW c \in walk.steady
      PROVE  c \in r.shown \cup r.passed \/ updated[c] < updated[NextCursor]
  <2>1. CASE Seen(c) \/ c \in Page
    BY <1>3, <2>1 DEF Seen
  <2>2. CASE c \in Fetched \ Page
    <3>1. Above(NextCursor, c)
      BY <1>8, <2>2, PageFacts
    <3>2. Pinned(NextCursor) => c \in r.passed
      BY <1>3, <1>8, <2>2
    <3>3. ~Pinned(NextCursor) => updated[NextCursor] > updated[c]
      BY <3>1 DEF Above
    <3>4. updated[NextCursor] \in Nat /\ updated[c] \in Nat
      BY <1>2, <1>8, <2>2 DEF IInv, StoreTyped
    <3> QED
      BY <3>2, <3>3, <3>4
  <2>3. CASE c \in Remaining \ Fetched
    BY <1>2, <1>8, <2>3, FetchedFacts
  <2> QED
    BY <1>7, <2>1, <2>2, <2>3
<1>9. ASSUME ~more, NEW c \in walk.steady
      PROVE  c \in r.shown \cup r.passed
  BY <1>2, <1>3, <1>7, <1>9 DEF Seen
<1> HIDE DEF more
<1>10. ListFits'
  <2> SUFFICES ASSUME more
               PROVE  /\ walk.steady \subseteq Listed(walk.view)'
                      /\ NextCursor \in Conversations
                      /\ \A c \in walk.steady : Seen(c)' \/ updated[c] < updated[NextCursor]
    BY <1>1, <1>3, <1>6 DEF ListFits, Listed, Participates
  <2>1. Listed(walk.view)' = Listed(walk.view)
    BY <1>1, <1>3 DEF Listed, Participates
  <2> QED
    BY <1>1, <1>2, <1>6, <1>8, <2>1 DEF Seen
<1>11. HistoryFits' /\ DoneFits'
  BY <1>1, <1>3, <1>9 DEF HistoryFits, DoneFits, Seen
<1> QED
  BY <1>1, <1>4, <1>10, <1>11, StoreRests DEF IInv

LEMMA ListCursorPreserves ==
    ASSUME IInv, ListCursor
    PROVE  IInv'
<1> DEFINE between == {c \in Listed(walk.view) : updated[walk.cursor] <= updated[c] /\ updated[c] < walk.before}
           r == [walk EXCEPT !.pc = "list_page", !.before = updated[walk.cursor], !.passed = @ \cup between]
<1>1. /\ walk.pc = "list_cursor" /\ walk' = r /\ UNCHANGED <<now, row, updated, msg, req, opened, late>>
      /\ walk \in WalksTyped /\ ListFits
  BY DEF ListCursor, IInv
<1>2. updated[walk.cursor] \in Nat /\ walk.before \in Nat /\ \A c \in walk.steady : updated[c] \in Nat
  BY <1>1 DEF ListFits, IInv, StoreTyped, WalksTyped, Listed
<1>3. ASSUME NEW c \in walk.steady
      PROVE  Seen(c) \/ c \in between \/ updated[c] < updated[walk.cursor]
  BY <1>1, <1>2 DEF ListFits
<1>4. between \subseteq Items
  BY DEF Listed, Items
<1> HIDE DEF between
<1>5. /\ r \in WalksTyped /\ r.pc = "list_page" /\ r.kind = walk.kind /\ r.view = walk.view
      /\ r.steady = walk.steady /\ r.shown = walk.shown /\ r.passed = walk.passed \cup between
      /\ r.before = updated[walk.cursor]
  BY <1>1, <1>2, <1>4 DEF WalksTyped
<1> HIDE DEF r
<1>6. \A c \in walk.steady : Seen(c)' \/ updated[c] < updated[walk.cursor]
  BY <1>1, <1>3, <1>5 DEF Seen
<1>7. ListFits' /\ HistoryFits' /\ DoneFits'
  BY <1>1, <1>5, <1>6 DEF ListFits, HistoryFits, DoneFits, Listed, Participates
<1> QED
  BY <1>1, <1>5, <1>7, StoreRests DEF IInv

LEMMA HistoryBeginPreserves ==
    ASSUME IInv, NEW c \in Conversations, HistoryBegin(c)
    PROVE  IInv'
<1> DEFINE r == [NoWalk EXCEPT !.pc = "history", !.kind = "history", !.of = c, !.steady = Visible(c)]
<1>1. walk' = r /\ UNCHANGED <<now, row, updated, msg, req, opened, late>>
  BY DEF HistoryBegin
<1>2. /\ r \in WalksTyped /\ r.pc = "history" /\ r.kind = "history" /\ r.of = c /\ r.steady = Visible(c)
      /\ r.cursor = Null
  BY DEF NoWalk, WalksTyped, Visible, In, Items
<1> HIDE DEF r
<1>3. Visible(c)' = Visible(c)
  BY <1>1 DEF Visible, In
<1>4. ListFits' /\ HistoryFits' /\ DoneFits'
  BY <1>1, <1>2, <1>3 DEF ListFits, HistoryFits, DoneFits
<1> QED
  BY <1>1, <1>2, <1>4, StoreRests DEF IInv

\* What a page of a history leaves out is older than its last message, or the cursor, unless the
\* cursor was deleted.
LEMMA HistoryPageFacts ==
    ASSUME IInv, walk.pc = "history"
    PROVE  /\ HistoryPage \subseteq Visible(walk.of)
           /\ \A m \in UpToCursor :
                 \/ m \in HistoryPage
                 \/ m = walk.cursor
                 \/ CursorGone
                 \/ HistoryPage # {} /\ msg[m].at < msg[LastOf(HistoryPage, Later)].at
           /\ HistoryPage # {} => LastOf(HistoryPage, Later) \in HistoryPage
<1> DEFINE U == UpToCursor
           skipped == FirstOf(U, Skip(walk.cursor), Later)
           rest == U \ skipped
<1>1. /\ walk.of \in Conversations
      /\ walk.cursor # Null => walk.cursor \in In(walk.of)
  BY DEF IInv, HistoryFits
<1>2. U \subseteq Visible(walk.of) /\ U \subseteq Messages /\ \A x \in U : Exists(x) /\ msg[x].at \in Nat
  BY <1>1 DEF UpToCursor, Visible, In, Exists, IInv, StoreTyped, MessagesTyped
<1>3. Limit \in Nat /\ Limit > 0
  OBVIOUS
<1> HIDE DEF U
<1> SUFFICES ASSUME ~CursorGone
             PROVE  /\ HistoryPage \subseteq Visible(walk.of)
                    /\ \A m \in U : \/ m \in HistoryPage
                                    \/ m = walk.cursor
                                    \/ HistoryPage # {} /\ msg[m].at < msg[LastOf(HistoryPage, Later)].at
                    /\ HistoryPage # {} => LastOf(HistoryPage, Later) \in HistoryPage
  BY DEF HistoryPage, U
<1>4. HistoryPage = FirstOf(rest, Limit, Later)
  BY DEF HistoryPage, U
<1> HIDE DEF skipped
<1>5. IsFiniteSet(rest) /\ Orders(LaterPairs, rest) /\ HistoryPage = First(rest, Limit, LaterPairs)
  BY <1>2, <1>3, <1>4, LaterFirst
<1>6. HistoryPage \subseteq rest
  BY <1>5 DEF First
<1>7. ASSUME HistoryPage # {}
      PROVE  LastOf(HistoryPage, Later) \in HistoryPage
  BY <1>2, <1>6, <1>7, LastLater
<1>8. ASSUME NEW m \in rest, m \notin HistoryPage
      PROVE  HistoryPage # {} /\ msg[m].at < msg[LastOf(HistoryPage, Later)].at
  <2>1. HistoryPage # {}
    <3>1. HistoryPage = {} => Cardinality(HistoryPage) < Limit
      BY <1>3, FS_EmptySet
    <3> QED
      BY <1>3, <1>5, <1>8, <3>1, FirstFull
  <2> DEFINE last == LastOf(HistoryPage, Later)
  <2>2. last \in HistoryPage
    BY <1>7, <2>1
  <2> HIDE DEF last
  <2>3. <<m, last>> \notin LaterPairs
    BY <1>3, <1>5, <1>8, <2>2, FirstClosed
  <2>4. <<last, m>> \in LaterPairs
    BY <1>5, <1>6, <1>8, <2>2, <2>3 DEF Orders
  <2>5. msg[last].at > msg[m].at /\ msg[last].at \in Nat /\ msg[m].at \in Nat
    BY <1>2, <1>6, <1>8, <2>2, <2>4 DEF LaterPairs, Later
  <2> QED
    BY <2>1, <2>5 DEF last
<1>9. ASSUME NEW m \in skipped
      PROVE  m = walk.cursor
  <2>1. walk.cursor # Null /\ m \in FirstOf(U, 1, Later)
    <3>1. ASSUME walk.cursor = Null PROVE FALSE
      <4>1. m \in FirstOf(U, 0, Later)
        BY <1>9, <3>1 DEF Skip, skipped
      <4>2. m \in First(U, 0, LaterPairs) /\ IsFiniteSet(U)
        BY <1>2, <4>1, LaterFirst
      <4>3. IsFiniteSet(Before(U, LaterPairs, m)) /\ Cardinality(Before(U, LaterPairs, m)) < 0
        BY <4>2, FS_Subset DEF First, Before
      <4> QED
        BY <4>3, FS_CardinalityType
    <3> QED
      BY <1>9, <3>1 DEF Skip, skipped
  <2>2. walk.cursor \in U /\ m \in U /\ msg[m].at <= msg[walk.cursor].at
    BY <1>1, <2>1 DEF CursorGone, U, UpToCursor, Visible, FirstOf, In, IInv, StoreTyped, MessagesTyped
  <2>3. ASSUME m # walk.cursor PROVE FALSE
    <3>1. msg[m].at # msg[walk.cursor].at
      BY <1>2, <2>2, <2>3 DEF IInv, TimesFit
    <3>2. <<walk.cursor, m>> \in LaterPairs
      BY <1>2, <2>2, <3>1 DEF LaterPairs, Later
    <3>3. IsFiniteSet(Before(U, LaterPairs, m)) /\ Cardinality(Before(U, LaterPairs, m)) < 1
      <4>1. m \in First(U, 1, LaterPairs) /\ IsFiniteSet(U)
        BY <1>2, <2>1, LaterFirst
      <4> QED
        BY <4>1, FS_Subset DEF First, Before
    <3>4. Before(U, LaterPairs, m) = {}
      <4>1. Cardinality(Before(U, LaterPairs, m)) = 0
        BY <3>3, FS_CardinalityType
      <4> QED
        BY <3>3, <4>1, FS_EmptySet
    <3> QED
      BY <2>2, <3>2, <3>4 DEF Before
  <2> QED
    BY <2>3
<1> QED
  BY <1>2, <1>6, <1>7, <1>8, <1>9

LEMMA HistoryStepPreserves ==
    ASSUME IInv, HistoryStep
    PROVE  IInv'
<1> DEFINE r == [walk EXCEPT
                   !.pc = IF HistoryPage = {} THEN "done" ELSE @,
                   !.cursor = IF HistoryPage = {} THEN Null ELSE LastOf(HistoryPage, Later),
                   !.shown = @ \cup HistoryPage,
                   !.passed = IF CursorGone THEN @ \cup UpToCursor ELSE @]
<1>1. /\ walk.pc = "history" /\ walk' = r /\ UNCHANGED <<now, row, updated, msg, req, opened, late>>
      /\ walk \in WalksTyped
  BY DEF HistoryStep, IInv
<1>2. /\ walk.kind = "history" /\ walk.of \in Conversations
      /\ walk.cursor # Null => walk.cursor \in In(walk.of)
      /\ walk.steady \subseteq Visible(walk.of)
      /\ \A m \in walk.steady : Seen(m) \/ walk.cursor = Null \/ msg[m].at < msg[walk.cursor].at
  BY <1>1 DEF IInv, HistoryFits
<1>3. /\ r.pc = (IF HistoryPage = {} THEN "done" ELSE "history") /\ r.kind = walk.kind /\ r.of = walk.of
      /\ r.cursor = (IF HistoryPage = {} THEN Null ELSE LastOf(HistoryPage, Later)) /\ r.steady = walk.steady
      /\ r.shown = walk.shown \cup HistoryPage
      /\ r.passed = IF CursorGone THEN walk.passed \cup UpToCursor ELSE walk.passed
  BY <1>1 DEF WalksTyped
<1>4. /\ HistoryPage \subseteq Visible(walk.of)
      /\ HistoryPage # {} => LastOf(HistoryPage, Later) \in HistoryPage
  BY <1>1, HistoryPageFacts
<1>5. r \in WalksTyped
  <2>1. HistoryPage \subseteq Items
    BY <1>4 DEF Items, Visible, In
  <2>2. HistoryPage # {} => LastOf(HistoryPage, Later) \in Items
    BY <1>4, <2>1
  <2>3. UpToCursor \subseteq Items
    BY DEF UpToCursor, Visible, In, Items
  <2> QED
    BY <1>1, <2>1, <2>2, <2>3 DEF WalksTyped
<1> HIDE DEF r
<1>6. ASSUME NEW m \in walk.steady
      PROVE  \/ m \in r.shown \cup r.passed
             \/ HistoryPage # {} /\ msg[m].at < msg[LastOf(HistoryPage, Later)].at
  <2>1. CASE Seen(m)
    BY <1>3, <2>1 DEF Seen
  <2>2. CASE ~Seen(m)
    <3>1. m \in UpToCursor /\ m # walk.cursor
      <4>1. walk.cursor = Null \/ msg[m].at < msg[walk.cursor].at
        BY <1>2, <2>2
      <4>2. m \in Visible(walk.of) /\ m \in Messages /\ msg[m].at \in Nat
        BY <1>2 DEF Visible, In, IInv, StoreTyped, MessagesTyped
      <4>3. walk.cursor # Null => msg[walk.cursor].at \in Nat
        BY <1>2 DEF In, IInv, StoreTyped, MessagesTyped
      <4> QED
        BY <4>1, <4>2, <4>3 DEF UpToCursor
    <3> QED
      BY <1>1, <1>3, <3>1, HistoryPageFacts
  <2> QED
    BY <2>1, <2>2
<1>7. HistoryFits'
  <2> SUFFICES ASSUME HistoryPage # {}
               PROVE  /\ LastOf(HistoryPage, Later) \in In(walk.of)
                      /\ \A m \in walk.steady :
                            m \in r.shown \cup r.passed \/ msg[m].at < msg[LastOf(HistoryPage, Later)].at
    BY <1>1, <1>2, <1>3 DEF HistoryFits, Seen, Visible, In
  <2> QED
    BY <1>4, <1>6 DEF Visible
<1>8. ListFits' /\ DoneFits'
  BY <1>1, <1>3, <1>6 DEF ListFits, DoneFits, Seen
<1> QED
  BY <1>1, <1>5, <1>7, <1>8, StoreRests DEF IInv

LEMMA GoodPreserves ==
    ASSUME IInv, Good
    PROVE  IInv'
<1>1. updated' \in [Conversations -> Nat]
  BY DEF Good, StoreTyped
<1>2. Outside
  BY DEF Good
<1>3. walk' \in WalksTyped /\ ListFits' /\ HistoryFits' /\ DoneFits'
  BY <1>1, <1>2, OutsideKeeps
<1> QED
  BY <1>3 DEF Good, IInv

----------------------------------------------------------------------------
(* The invariant holds.                                                    *)

LEMMA InitEstablishes ==
    ASSUME Init
    PROVE  IInv
<1>1. now \in Nat
  BY FiniteAssumption, FS_CardinalityType DEF Init
<1>2. updated \in [Conversations -> 1..now] /\ \A c, d \in Conversations : updated[c] = updated[d] => c = d
  BY DEF Init
<1>3. \A c \in Conversations : row[c] = [left |-> FALSE, flags |-> {}, pinnedAt |-> 0, lastReadAt |-> 0]
  BY DEF Init
<1>4. \A m \in Messages : msg[m] = NoMessage
  BY DEF Init
<1>5. \A w \in Workers : req[w] = Idle
  BY DEF Init
<1>6. StoreTyped
  <2>1. updated \in [Conversations -> Nat]
    BY <1>1, <1>2
  <2>2. /\ row \in [Conversations -> RowsTyped] /\ msg \in [Messages -> MessagesTyped]
        /\ req \in [Workers -> RequestsTyped]
    BY DEF Init, RowsTyped, MessagesTyped, RequestsTyped, NoMessage, Idle
  <2> QED
    BY <1>1, <1>4, <1>5, <2>1, <2>2 DEF StoreTyped, NoMessage, Idle
<1>7. walk \in WalksTyped /\ walk.pc = "none"
  BY DEF Init, NoWalk, WalksTyped
<1>8. TimesFit
  <2>1. \A c \in Conversations : updated[c] <= now /\ row[c].pinnedAt <= now /\ row[c].lastReadAt <= now
    BY <1>1, <1>2, <1>3
  <2>2. \A m \in Messages : msg[m].at <= now /\ ~Exists(m)
    BY <1>1, <1>4 DEF NoMessage, Exists
  <2> QED
    BY <1>2, <1>3, <2>1, <2>2 DEF TimesFit, Pinned
<1>9. ReadsFit
  BY <1>4, <1>5 DEF ReadsFit, NothingReadUnasked, Exists, NoMessage, Idle
<1> QED
  BY <1>6, <1>7, <1>8, <1>9 DEF IInv, ListFits, HistoryFits, DoneFits

LEMMA NextPreserves ==
    ASSUME IInv, [Next]_vars
    PROVE  IInv'
<1>1. ASSUME NEW view \in Views, ListBegin(view) PROVE IInv'
  BY <1>1, ListBeginPreserves
<1>2. CASE ListPage
  BY <1>2, ListPagePreserves
<1>3. CASE ListCursor
  BY <1>3, ListCursorPreserves
<1>4. ASSUME NEW c \in Conversations, HistoryBegin(c) PROVE IInv'
  BY <1>4, HistoryBeginPreserves
<1>5. CASE HistoryStep
  BY <1>5, HistoryStepPreserves
<1>6. ASSUME NEW m \in Messages, NEW c \in Conversations, Arrive(m, c) PROVE IInv'
  BY <1>6, ArriveGood, GoodPreserves
<1>7. ASSUME NEW m \in Messages, Touch(m) \/ DeleteMessage(m) \/ ReadMessage(m) PROVE IInv'
  BY <1>7, TouchGood, DeleteMessageGood, ReadMessageGood, GoodPreserves
<1>8. CASE ReadAll
  BY <1>8, ReadAllGood, GoodPreserves
<1>9. ASSUME NEW c \in Conversations, NEW flag \in UNION Views, NEW on \in BOOLEAN, SetFlag(c, flag, on) PROVE IInv'
  BY <1>9, SettingsGood, GoodPreserves
<1>10. ASSUME NEW c \in Conversations, Pin(c) \/ Unpin(c) \/ Leave(c) \/ Return(c) PROVE IInv'
  BY <1>10, SettingsGood, GoodPreserves
<1>11. ASSUME NEW w \in Workers, Step(w) PROVE IInv'
  <2>1. ASSUME NEW c \in Conversations, ReadBegin(w, c) PROVE IInv'
    BY <2>1, ReadBeginGood, GoodPreserves
  <2>2. CASE ReadFind(w)
    BY <2>2, ReadFindGood, GoodPreserves
  <2>3. CASE ReadWrite(w)
    BY <2>3, ReadWriteGood, GoodPreserves
  <2>4. CASE ReadRow(w)
    BY <2>4, ReadRowGood, GoodPreserves
  <2> QED
    BY <1>11, <2>1, <2>2, <2>3, <2>4 DEF Step
<1>12. CASE UNCHANGED vars
  <2>1. Outside
    BY <1>12, SameStore DEF vars
  <2>2. StoreTyped' /\ TimesFit' /\ ReadsFit'
    BY <1>12, StoreRests DEF vars
  <2> QED
    BY <2>1, <2>2, GoodPreserves DEF Good
<1> QED
  BY <1>1, <1>2, <1>3, <1>4, <1>5, <1>6, <1>7, <1>8, <1>9, <1>10, <1>11, <1>12 DEF Next

LEMMA Invariance == Spec => []IInv
<1>1. Init => IInv
  BY InitEstablishes
<1>2. IInv /\ [Next]_vars => IInv'
  BY NextPreserves
<1> QED
  BY <1>1, <1>2, PTL DEF Spec

\* NothingReadUnasked: a message becomes READ only by a read of it or of its conversation once it
\* had come, and the count of the list omits it only then, after a markAllConversationsAsRead, or
\* when it came in the middle of a read of its conversation.
THEOREM NothingIsReadUnasked == Spec => []NothingReadUnasked
<1>1. IInv => NothingReadUnasked
  BY DEF IInv, ReadsFit
<1> QED
  BY <1>1, Invariance, PTL

\* ListWalkComplete: a walk through getUserConversations shows every conversation that was in the
\* list all along and received nothing, unless a page ended with a pin and left it out, or it lay
\* between two dates of a cursor whose updatedAt an older date was written over.
THEOREM ListWalksComplete == Spec => []ListWalkComplete
<1>1. IInv => ListWalkComplete
  BY DEF IInv, DoneFits, ListWalkComplete, Done, Seen
<1> QED
  BY <1>1, Invariance, PTL

\* HistoryWalkComplete: a walk through getMessages shows every message that was there from its
\* first page on and is not deleted, unless it is older than a cursor that was deleted, which ends
\* the walk.
THEOREM HistoryWalksComplete == Spec => []HistoryWalkComplete
<1>1. IInv => HistoryWalkComplete
  BY DEF IInv, DoneFits, HistoryWalkComplete, Done, Seen
<1> QED
  BY <1>1, Invariance, PTL

===========================================================================
