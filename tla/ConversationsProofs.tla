------------------------- MODULE ConversationsProofs -------------------------
(***************************************************************************)
(* That a block silences whoever acts after it in a DIRECT conversation,   *)
(* and that a request which no write overtook does what its checks         *)
(* promise, for any accounts, conversations and requests in flight.        *)
(***************************************************************************)
EXTENDS Conversations, FiniteSetTheorems, TLAPS

----------------------------------------------------------------------------
(* The inductive invariant.                                                *)

\* A DIRECT conversation has the rows of two users at most.
PairsOnly ==
    \A c \in Directs : \E u, v \in Users : \A x \in Users : row[c][x] # "none" => x \in {u, v}

\* A creation concerns one other user.
OneInvited ==
    \A w \in Workers : req[w].pc \in {"create_block", "create_commit"} => \E v \in Users : req[w].who = {v}

\* The sender by and the blocked v share the DIRECT conversation that request r is about.
BetweenThem(r, v) ==
    /\ v # r.by
    /\ Blocked(r.by, v)
    /\ \E c \in Directs : r.conv = {c} /\ row[c][r.by] # "none" /\ row[c][v] # "none"

\* How far a barred request can be: it has the block check before it, or the other side has left.
Held(w) ==
    \/ req[w].pc = "create_block" /\ \E v \in req[w].who : Blocked(req[w].by, v)
    \/ req[w].pc = "send_other" /\ \E v \in Users : BetweenThem(req[w], v)
    \/ req[w].pc = "send_block" /\ \E v \in req[w].who : Blocked(req[w].by, v)
    \/ req[w].pc = "send_recipients" /\ \E v \in Users : /\ BetweenThem(req[w], v)
                                                       /\ \E c \in req[w].conv : row[c][v] = "left"
    \/ req[w].pc = "send_create" /\ req[w].who = {}

\* A deletion is by someone who has a row.
DeletesOwn ==
    \A w \in Workers : req[w].pc = "delete_write" =>
      \A c \in req[w].conv \cap Directs : row[c][req[w].by] # "none"

BarredHeld == \A w \in barred : Held(w)

IInv == TypeOK /\ PairsOnly /\ OneInvited /\ DeletesOwn /\ BarredHeld

----------------------------------------------------------------------------
(* The invariant holds at the start and every step preserves it.           *)

\* The leaves see the invariant, the types and the helpers, and cite the action.
USE SelfAssumption, ApartAssumption, BlockableAssumption
    DEF IInv, TypeOK, PairsOnly, OneInvited, DeletesOwn, BarredHeld, Held, BetweenThem,
        Stages, RowStates, Requests, Ask, Idle, At, Blocked, Convs

\* What it is to rewrite one request.
LEMMA OneRequest ==
    ASSUME req \in [Workers -> Requests], NEW w \in Workers, NEW r \in Requests,
           req' = [req EXCEPT ![w] = r]
    PROVE  /\ req' \in [Workers -> Requests]
           /\ req'[w] = r
           /\ \A v \in Workers \ {w} : req'[v] = req[v]
  OBVIOUS

\* Groups have everybody, nothing is asked.
LEMMA InitEstablishes == Init => IInv
  BY DEF Init

\* A barred request that others do not touch stays held: rows of DIRECT conversations do not come
\* back, and the block is still there.
LEMMA HeldStays ==
    ASSUME IInv, NEW x \in barred, req'[x] = req[x], blocks \subseteq blocks',
           \A c \in Directs, u \in Users : row[c][u] # "none" => row'[c][u] # "none",
           \A c \in Directs, u \in Users : row[c][u] = "left" => row'[c][u] = "left"
    PROVE  Held(x)'
<1>1. x \in Workers /\ Held(x) /\ req[x].by \in Users
  OBVIOUS
<1>2. ASSUME NEW v \in Users, BetweenThem(req[x], v)
      PROVE  BetweenThem(req[x], v)'
  <2>1. PICK c \in Directs : req[x].conv = {c} /\ row[c][req[x].by] # "none" /\ row[c][v] # "none"
    BY <1>2
  <2>2. row'[c][req[x].by] # "none" /\ row'[c][v] # "none"
    BY <1>1, <2>1
  <2> QED
    BY <1>2, <2>1, <2>2
<1>3. CASE req[x].pc = "send_other"
  <2>1. PICK v \in Users : BetweenThem(req[x], v)
    BY <1>1, <1>3
  <2>2. BetweenThem(req[x], v)'
    BY <1>2, <2>1
  <2> HIDE DEF BetweenThem
  <2> QED
    BY <1>3, <2>2
<1>4. CASE req[x].pc = "send_recipients"
  <2>1. PICK v \in Users : BetweenThem(req[x], v) /\ \E c \in req[x].conv : row[c][v] = "left"
    BY <1>1, <1>4
  <2>2. \E c \in req[x].conv : row'[c][v] = "left"
    BY <2>1
  <2>3. BetweenThem(req[x], v)'
    BY <1>2, <2>1
  <2> HIDE DEF BetweenThem
  <2> QED
    BY <1>4, <2>2, <2>3
<1>5. CASE req[x].pc \in {"create_block", "send_block"}
  <2>1. PICK v \in req[x].who : Blocked(req[x].by, v)
    BY <1>1, <1>5
  <2>2. Blocked(req[x].by, v)'
    BY <2>1
  <2> QED
    BY <1>5, <2>1, <2>2
<1>6. CASE req[x].pc = "send_create"
  BY <1>1, <1>6
<1>7. req[x].pc \in {"create_block", "send_other", "send_block", "send_recipients", "send_create"}
  BY <1>1
<1> HIDE DEF Held
<1> QED
  BY <1>3, <1>4, <1>5, <1>6, <1>7

\* A request that begins at its first stage, barred exactly if a block stands.
LEMMA BeginPreserves ==
    ASSUME IInv, NEW w \in Workers, NEW r \in Requests, NEW others \in SUBSET Users, Begin(w, r, others),
           r.pc \in {"create_block", "pin_count", "unpin_write", "delete_write", "send_other"},
           r.pc = "create_block" => others = r.who /\ \E v \in Users : r.who = {v},
           r.pc = "send_other" =>
             \A v \in others : v # r.by /\ \E c \in Directs : r.conv = {c} /\ row[c][r.by] # "none" /\ row[c][v] # "none",
           r.pc \in {"pin_count", "unpin_write", "delete_write"} => others = {},
           r.pc = "delete_write" => \A c \in r.conv \cap Directs : row[c][r.by] # "none"
    PROVE  IInv'
<1>1. /\ req' \in [Workers -> Requests]
      /\ req'[w] = r
      /\ \A v \in Workers \ {w} : req'[v] = req[v]
  BY OneRequest DEF Begin
<1>2. w \notin barred /\ w \notin overtaken
  BY DEF Begin
<1>3. TypeOK'
  BY <1>1, <1>2 DEF Begin
<1>4. PairsOnly' /\ OneInvited' /\ DeletesOwn'
  <2>1. row' = row
    BY DEF Begin
  <2>2. PairsOnly'
    BY <2>1
  <2>3. OneInvited'
    <3> SUFFICES ASSUME NEW x \in Workers, req'[x].pc \in {"create_block", "create_commit"}
                 PROVE  \E v \in Users : req'[x].who = {v}
      OBVIOUS
    <3> QED
      BY <1>1
  <2>4. DeletesOwn'
    <3> SUFFICES ASSUME NEW x \in Workers, req'[x].pc = "delete_write"
                 PROVE  \A c \in req'[x].conv \cap Directs : row'[c][req'[x].by] # "none"
      OBVIOUS
    <3> QED
      BY <1>1, <2>1
  <2> QED
    BY <2>2, <2>3, <2>4
<1>5. BarredHeld'
  <2>0. row' = row /\ blocks' = blocks /\ barred' \subseteq barred \cup {w}
    BY DEF Begin
  <2>1. ASSUME NEW x \in barred PROVE Held(x)'
    <3>1. req'[x] = req[x]
      BY <1>1, <1>2
    <3> QED
      BY <2>0, <3>1, HeldStays
  <2>2. ASSUME w \in barred' PROVE Held(w)'
    <3>1. PICK v \in others : Blocked(r.by, v)
      BY <1>2, <2>2 DEF Begin
    <3>2. CASE r.pc = "create_block"
      <4>1. req'[w].pc = "create_block" /\ v \in req'[w].who
        BY <1>1, <3>1, <3>2
      <4>2. Blocked(req[w].by, v)'
        BY <1>1, <2>0, <3>1
      <4> QED
        BY <4>1, <4>2
    <3>3. CASE r.pc = "send_other"
      <4>1. BetweenThem(req[w], v)'
        BY <1>1, <2>0, <3>1, <3>3
      <4> QED
        BY <1>1, <3>1, <3>3, <4>1
    <3> QED
      BY <3>1, <3>2, <3>3
  <2> HIDE DEF Held
  <2> QED
    BY <2>0, <2>1, <2>2
<1> QED
  BY <1>3, <1>4, <1>5

\* A check of a request: what is left to show is the request's own part.
LEMMA CheckPreserves ==
    ASSUME IInv, NEW w \in Workers, NEW ok \in BOOLEAN, NEW pc \in Stages, NEW who \in SUBSET Users,
           Check(w, ok, pc, who), pc \notin {"idle", "delete_write"},
           ok /\ pc \in {"create_block", "create_commit"} => \E v \in Users : who = {v},
           ok /\ w \in barred => Held(w)'
    PROVE  IInv'
<1> DEFINE r == IF ok THEN Ask(pc, req[w].by, req[w].conv, who, req[w].was) ELSE Idle
<1>0. r \in Requests
  OBVIOUS
<1>1. /\ req' \in [Workers -> Requests]
      /\ req'[w] = r
      /\ \A v \in Workers \ {w} : req'[v] = req[v]
  BY <1>0, OneRequest DEF Check
<1>3. TypeOK'
  BY <1>1 DEF Check
<1>4. PairsOnly' /\ OneInvited' /\ DeletesOwn'
  <2>1. row' = row
    BY DEF Check
  <2>2. PairsOnly'
    BY <2>1
  <2>3. OneInvited'
    <3> SUFFICES ASSUME NEW x \in Workers, req'[x].pc \in {"create_block", "create_commit"}
                 PROVE  \E v \in Users : req'[x].who = {v}
      OBVIOUS
    <3> QED
      BY <1>1
  <2>4. DeletesOwn'
    <3> SUFFICES ASSUME NEW x \in Workers, req'[x].pc = "delete_write"
                 PROVE  \A c \in req'[x].conv \cap Directs : row'[c][req'[x].by] # "none"
      OBVIOUS
    <3> QED
      BY <1>1, <2>1
  <2> QED
    BY <2>2, <2>3, <2>4
<1>5. BarredHeld'
  <2>0. /\ row' = row /\ blocks' = blocks
        /\ barred' = IF ok THEN barred ELSE barred \ {w}
    BY DEF Check
  <2>1. ASSUME NEW x \in barred \ {w} PROVE Held(x)'
    <3>1. req'[x] = req[x]
      BY <1>1
    <3> QED
      BY <2>0, <3>1, HeldStays
  <2> HIDE DEF Held
  <2> QED
    BY <2>0, <2>1
<1> QED
  BY <1>3, <1>4, <1>5

\* The five checks.  In each the barred request either ends or is held at its next stage.
LEMMA CreateBlocksPreserves ==
    ASSUME IInv, NEW w \in Workers, CreateBlocks(w)
    PROVE  IInv'
<1> DEFINE ok == \A v \in req[w].who : ~Blocked(req[w].by, v)
<1>1. w \in barred => ~ok
  BY DEF CreateBlocks
<1>2. req[w].who \in SUBSET Users /\ \E v \in Users : req[w].who = {v}
  BY DEF CreateBlocks
<1>3. ok \in BOOLEAN /\ Check(w, ok, "create_commit", req[w].who)
  BY DEF CreateBlocks
<1>4. "create_commit" \in Stages
  OBVIOUS
<1> HIDE DEF IInv, Held, Stages, ok
<1> QED
  BY <1>1, <1>2, <1>3, <1>4, CheckPreserves

LEMMA PinCountPreserves ==
    ASSUME IInv, NEW w \in Workers, PinCount(w)
    PROVE  IInv'
<1>1. w \notin barred
  BY DEF PinCount
<1>2. PICK ok \in BOOLEAN : ok <=> MayPin(Cardinality(Pins), req[w].was)
  OBVIOUS
<1>3. Check(w, ok, "pin_write", {})
  BY <1>2 DEF PinCount, Check
<1>4. "pin_write" \in Stages /\ {} \in SUBSET Users
  OBVIOUS
<1> HIDE DEF IInv, Held, Stages
<1> QED
  BY <1>1, <1>3, <1>4, CheckPreserves

\* Nobody but the two can be among the others.
LEMMA RecipientsBetween ==
    ASSUME IInv, NEW w \in Workers, NEW v \in Users, BetweenThem(req[w], v)
    PROVE  /\ Recipients(w) \subseteq {v}
           /\ v \notin Recipients(w) => \E c \in req[w].conv : row[c][v] = "left"
           /\ (\E c \in req[w].conv : row[c][v] = "left") => Recipients(w) = {}
           /\ ~(req[w].conv \subseteq Groups)
<1>1. PICK c \in Directs : req[w].conv = {c} /\ row[c][req[w].by] # "none" /\ row[c][v] # "none"
  OBVIOUS
<1>2. Recipients(w) = {u \in Users : row[c][u] = "active"} \ {req[w].by}
  BY <1>1 DEF Recipients
<1>3. req[w].by \in Users /\ v # req[w].by
  OBVIOUS
<1>4. \A x \in Users : row[c][x] # "none" => x \in {req[w].by, v}
  BY <1>1, <1>3
<1>5. row[c][v] \in {"active", "left"}
  BY <1>1
<1>6. Recipients(w) \subseteq {v}
  BY <1>2, <1>4
<1>7. v \notin Recipients(w) => row[c][v] = "left"
  BY <1>2, <1>3, <1>5
<1>8. row[c][v] = "left" => Recipients(w) = {}
  BY <1>2, <1>6
<1>9. ~(req[w].conv \subseteq Groups)
  BY <1>1
<1> QED
  BY <1>1, <1>6, <1>7, <1>8, <1>9

LEMMA SendOtherPreserves ==
    ASSUME IInv, NEW w \in Workers, SendOther(w)
    PROVE  IInv'
<1> DEFINE pc == IF req[w].conv \subseteq Groups \/ Recipients(w) = {} THEN "send_recipients" ELSE "send_block"
<1>1. Recipients(w) \in SUBSET Users /\ pc \in Stages
  BY DEF Recipients
<1>2. Check(w, TRUE, pc, Recipients(w)) /\ At(w, "send_other")
  BY DEF SendOther
<1>3. w \in barred => Held(w)'
  <2> SUFFICES ASSUME w \in barred PROVE Held(w)'
    OBVIOUS
  <2>1. PICK v \in Users : BetweenThem(req[w], v)
    BY <1>2
  <2>2. req'[w] = Ask(pc, req[w].by, req[w].conv, Recipients(w), req[w].was)
    BY <1>2 DEF Check
  <2>3. BetweenThem(req[w], v)'
    <3>1. row' = row /\ blocks' = blocks /\ req'[w].by = req[w].by /\ req'[w].conv = req[w].conv
      BY <2>2, <1>2 DEF Check
    <3> QED
      BY <2>1, <3>1
  <2>4. CASE Recipients(w) = {}
    <3>1. req'[w].pc = "send_recipients" /\ req'[w].conv = req[w].conv /\ row' = row
      BY <2>2, <2>4, <1>2 DEF Check
    <3>2. \E c \in req[w].conv : row[c][v] = "left"
      BY <2>1, <2>4, RecipientsBetween
    <3>3. \E c \in req'[w].conv : row'[c][v] = "left"
      BY <3>1, <3>2
    <3> QED
      BY <2>3, <3>1, <3>3
  <2>5. CASE Recipients(w) # {}
    <3>1. v \in Recipients(w) /\ pc = "send_block"
      BY <2>1, <2>5, RecipientsBetween
    <3>2. req'[w].pc = "send_block" /\ req'[w].who = Recipients(w)
      BY <3>1, <2>2
    <3>3. Blocked(req[w].by, v)'
      BY <2>3
    <3> QED
      BY <3>1, <3>2, <3>3
  <2> QED
    BY <2>4, <2>5
<1>4. pc \notin {"idle", "delete_write", "create_block", "create_commit"}
  OBVIOUS
<1> HIDE DEF IInv, Held, Stages, pc
<1> QED
  BY <1>1, <1>2, <1>3, <1>4, CheckPreserves

LEMMA SendBlockPreserves ==
    ASSUME IInv, NEW w \in Workers, SendBlock(w)
    PROVE  IInv'
<1>1. w \in barred => ~(\A v \in req[w].who : ~Blocked(req[w].by, v))
  BY DEF SendBlock
<1> QED
  BY <1>1, CheckPreserves DEF SendBlock

LEMMA SendRecipientsPreserves ==
    ASSUME IInv, NEW w \in Workers, SendRecipients(w)
    PROVE  IInv'
<1>1. Recipients(w) \in SUBSET Users
  BY DEF Recipients
<1>2. Check(w, TRUE, "send_create", Recipients(w)) /\ At(w, "send_recipients")
  BY DEF SendRecipients
<1>3. w \in barred => Held(w)'
  <2>1. w \in barred => Recipients(w) = {}
    BY <1>2, RecipientsBetween
  <2>2. req'[w] = Ask("send_create", req[w].by, req[w].conv, Recipients(w), req[w].was)
    BY <1>2 DEF Check
  <2> QED
    BY <2>1, <2>2
<1>4. "send_create" \in Stages
  OBVIOUS
<1> HIDE DEF IInv, Held, Stages
<1> QED
  BY <1>1, <1>2, <1>3, <1>4, CheckPreserves

\* A write ends its request; rows of DIRECT conversations only go from active to left, or are new.
LEMMA CommitPreserves ==
    ASSUME IInv, NEW w \in Workers, Commit(w),
           row' \in [Convs -> [Users -> RowStates]], pinned' \subseteq Convs,
           PairsOnly',
           \A c \in Directs, u \in Users : row[c][u] # "none" => row'[c][u] # "none",
           \A c \in Directs, u \in Users : row[c][u] = "left" => row'[c][u] = "left"
    PROVE  IInv'
<1>0. Idle \in Requests
  OBVIOUS
<1>1. /\ req' \in [Workers -> Requests]
      /\ req'[w] = Idle
      /\ \A v \in Workers \ {w} : req'[v] = req[v]
  BY <1>0, OneRequest DEF Commit
<1>2. TypeOK'
  BY <1>1 DEF Commit, Overtake
<1>3. OneInvited'
  <2> SUFFICES ASSUME NEW x \in Workers, req'[x].pc \in {"create_block", "create_commit"}
               PROVE  \E v \in Users : req'[x].who = {v}
    OBVIOUS
  <2>1. req'[x] = req[x]
    BY <1>1
  <2> QED
    BY <2>1
<1>4. DeletesOwn'
  <2> SUFFICES ASSUME NEW x \in Workers, req'[x].pc = "delete_write", NEW c \in req'[x].conv \cap Directs
               PROVE  row'[c][req'[x].by] # "none"
    OBVIOUS
  <2>1. req'[x] = req[x]
    BY <1>1
  <2> QED
    BY <2>1
<1>5. BarredHeld'
  <2>1. ASSUME NEW x \in barred \ {w} PROVE Held(x)'
    <3>1. req'[x] = req[x] /\ blocks' = blocks
      BY <1>1 DEF Commit
    <3> QED
      BY <3>1, HeldStays
  <2>2. barred' = barred \ {w}
    BY DEF Commit
  <2> HIDE DEF Held
  <2> QED
    BY <2>1, <2>2
<1> QED
  BY <1>2, <1>3, <1>4, <1>5

LEMMA CreateCommitPreserves ==
    ASSUME IInv, NEW w \in Workers, CreateCommit(w)
    PROVE  IInv'
<1>1. PICK c \in Unborn :
        row' = [row EXCEPT ![c] = [u \in Users |-> IF u \in req[w].who \cup {req[w].by}
                                                    THEN "active" ELSE "none"]]
  BY DEF CreateCommit
<1>2. PICK v \in Users : req[w].who = {v}
  BY DEF CreateCommit
<1>3. c \in Directs /\ req[w].by \in Users /\ \A u \in Users : row[c][u] = "none"
  BY DEF Unborn
<1>4. \A d \in Convs : d # c => row'[d] = row[d]
  BY <1>1
<1>5. row'[c] = [u \in Users |-> IF u \in {v, req[w].by} THEN "active" ELSE "none"]
  BY <1>1, <1>2, <1>3
<1>6. PairsOnly'
  <2> SUFFICES ASSUME NEW d \in Directs
               PROVE  \E a, b \in Users : \A x \in Users : row'[d][x] # "none" => x \in {a, b}
    OBVIOUS
  <2>1. CASE d = c
    <3>1. \A x \in Users : row'[d][x] # "none" => x \in {v, req[w].by}
      BY <1>5, <2>1
    <3> QED
      BY <1>3, <3>1
  <2>2. CASE d # c
    <3>1. PICK a, b \in Users : \A x \in Users : row[d][x] # "none" => x \in {a, b}
      OBVIOUS
    <3> QED
      BY <1>4, <2>2, <3>1
  <2> QED
    BY <2>1, <2>2
<1>7. row' \in [Convs -> [Users -> RowStates]]
  <2>1. row'[c] \in [Users -> RowStates]
    BY <1>5
  <2>2. c \in Convs /\ row \in [Convs -> [Users -> RowStates]] /\ row' = [row EXCEPT ![c] = row'[c]]
    BY <1>1, <1>3
  <2> HIDE DEF Convs, RowStates
  <2> QED
    BY <2>1, <2>2
<1>8. \A d \in Directs, u \in Users : row[d][u] # "none" => row'[d][u] = row[d][u]
  BY <1>3, <1>4
<1>9. Commit(w) /\ pinned' = pinned
  BY DEF CreateCommit
<1>10. pinned' \subseteq Convs
  BY <1>9
<1> HIDE DEF IInv, PairsOnly, RowStates, Convs
<1> QED
  BY <1>6, <1>7, <1>8, <1>9, <1>10, CommitPreserves

LEMMA PinWritesPreserve ==
    ASSUME IInv, NEW w \in Workers, PinWrite(w) \/ UnpinWrite(w)
    PROVE  IInv'
<1>1. Commit(w) /\ row' = row /\ PairsOnly'
  BY DEF PinWrite, UnpinWrite
<1>2. pinned' \subseteq Convs
  BY DEF PinWrite, UnpinWrite
<1> QED
  BY <1>1, <1>2, CommitPreserves

LEMMA DeleteWritePreserves ==
    ASSUME IInv, NEW w \in Workers, DeleteWrite(w)
    PROVE  IInv'
<1>1. row' = [c \in Convs |-> [u \in Users |-> IF c \in req[w].conv /\ u = req[w].by
                                               THEN "left" ELSE row[c][u]]]
  BY DEF DeleteWrite
<1>2. Commit(w) /\ pinned' = pinned
  BY DEF DeleteWrite
<1>3. row' \in [Convs -> [Users -> RowStates]]
  BY <1>1
<1>4. /\ \A c \in Directs, u \in Users : row'[c][u] = row[c][u] \/ row'[c][u] = "left"
      /\ \A c \in Directs, u \in Users : row'[c][u] # "none" <=> row[c][u] # "none"
  <2>1. req[w].pc = "delete_write"
    BY DEF DeleteWrite
  <2> QED
    BY <1>1, <2>1
<1>5. PairsOnly'
  BY <1>4
<1>6. pinned' \subseteq Convs
  BY <1>2
<1>7. \A c \in Directs, u \in Users : row[c][u] = "left" => row'[c][u] = "left"
  BY <1>4
<1> HIDE DEF IInv, PairsOnly, RowStates, Convs
<1> QED
  BY <1>2, <1>3, <1>4, <1>5, <1>6, <1>7, CommitPreserves

\* The steps of others: groups, and blocks set and lifted.
LEMMA OthersPreserve ==
    ASSUME IInv,
           \/ \E c \in Convs : LeaveGroup(c) \/ Rejoin(c)
           \/ \E p \in Blockable : BlockUser(p) \/ UnblockUser(p)
    PROVE  IInv'
<1>1. CASE \E c \in Convs : LeaveGroup(c) \/ Rejoin(c)
  <2>1. PICK c \in Convs, to \in {"left", "active"} : c \in Groups /\ row' = [row EXCEPT ![c][Self] = to]
    BY <1>1 DEF LeaveGroup, Rejoin, GroupChange
  <2>2. UNCHANGED <<pinned, blocks, req, barred>> /\ Overtake({})
    BY <1>1 DEF LeaveGroup, Rejoin, GroupChange
  <2>3. \A d \in Directs : row'[d] = row[d]
    BY <2>1
  <2>4. row' \in [Convs -> [Users -> RowStates]]
    <3>1. row[c] \in [Users -> RowStates] /\ to \in RowStates
      BY <2>1
    <3>2. [row[c] EXCEPT ![Self] = to] \in [Users -> RowStates]
      BY <3>1
    <3>3. row \in [Convs -> [Users -> RowStates]] /\ row' = [row EXCEPT ![c] = [row[c] EXCEPT ![Self] = to]]
      BY <2>1
    <3> HIDE DEF Convs, RowStates
    <3> QED
      BY <3>2, <3>3
  <2>5. TypeOK'
    <3>1. overtaken' \subseteq {v \in Workers : ~At(v, "idle")}'
      BY <2>2 DEF Overtake
    <3> HIDE DEF Requests
    <3> QED
      BY <2>2, <2>4, <3>1
  <2>6. PairsOnly'
    <3> SUFFICES ASSUME NEW d \in Directs
                 PROVE  \E a, b \in Users : \A x \in Users : row'[d][x] # "none" => x \in {a, b}
      OBVIOUS
    <3>1. PICK a, b \in Users : \A x \in Users : row[d][x] # "none" => x \in {a, b}
      OBVIOUS
    <3> QED
      BY <2>3, <3>1
  <2>7. OneInvited' /\ DeletesOwn'
    BY <2>2, <2>3
  <2>8. BarredHeld'
    <3>1. ASSUME NEW x \in barred PROVE Held(x)'
      BY <2>2, <2>3, HeldStays
    <3> HIDE DEF Held
    <3> QED
      BY <2>2, <3>1
  <2> QED
    BY <2>5, <2>6, <2>7, <2>8
<1>2. CASE \E p \in Blockable : BlockUser(p)
  <2>1. blocks \subseteq blocks' /\ blocks' \subseteq Blockable /\ UNCHANGED <<row, pinned, req, overtaken, barred>>
    BY <1>2 DEF BlockUser
  <2>2. TypeOK' /\ PairsOnly' /\ OneInvited' /\ DeletesOwn'
    BY <2>1
  <2>3. BarredHeld'
    <3>1. ASSUME NEW x \in barred PROVE Held(x)'
      BY <2>1, HeldStays
    <3> HIDE DEF Held
    <3> QED
      BY <2>1, <3>1
  <2> QED
    BY <2>2, <2>3
<1>3. CASE \E p \in Blockable : UnblockUser(p)
  <2>1. barred' = {} /\ blocks' \subseteq Blockable /\ UNCHANGED <<row, pinned, req, overtaken>>
    BY <1>3 DEF UnblockUser
  <2> QED
    BY <2>1
<1> QED
  BY <1>1, <1>2, <1>3

\* The five beginnings.
LEMMA BeginningsPreserve ==
    ASSUME IInv, NEW w \in Workers,
           \/ \E u, v \in Users : CreateBegin(w, u, v)
           \/ \E c \in Convs : PinBegin(w, c) \/ UnpinBegin(w, c)
           \/ \E u \in Users, c \in Convs : DeleteBegin(w, u, c) \/ SendBegin(w, u, c)
    PROVE  IInv'
<1>1. CASE \E u, v \in Users : CreateBegin(w, u, v)
  <2>1. PICK u, v \in Users : Begin(w, Ask("create_block", u, {}, {v}, FALSE), {v})
    BY <1>1 DEF CreateBegin
  <2> DEFINE r == Ask("create_block", u, {}, {v}, FALSE)
  <2>2. r \in Requests /\ r.pc = "create_block" /\ r.who = {v} /\ {v} \in SUBSET Users
    OBVIOUS
  <2> HIDE DEF IInv, Requests, r
  <2> QED
    BY <2>1, <2>2, BeginPreserves DEF r
<1>2. CASE \E c \in Convs : PinBegin(w, c)
  <2>1. PICK c \in Convs : Begin(w, Ask("pin_count", Self, {c}, {}, c \in pinned), {})
    BY <1>2 DEF PinBegin
  <2> DEFINE r == Ask("pin_count", Self, {c}, {}, c \in pinned)
  <2>2. r \in Requests /\ r.pc = "pin_count"
    OBVIOUS
  <2> HIDE DEF IInv, Requests
  <2> QED
    BY <2>1, <2>2, BeginPreserves
<1>3. CASE \E c \in Convs : UnpinBegin(w, c)
  <2>1. PICK c \in Convs : Begin(w, Ask("unpin_write", Self, {c}, {}, FALSE), {})
    BY <1>3 DEF UnpinBegin
  <2> DEFINE r == Ask("unpin_write", Self, {c}, {}, FALSE)
  <2>2. r \in Requests /\ r.pc = "unpin_write"
    OBVIOUS
  <2> HIDE DEF IInv, Requests
  <2> QED
    BY <2>1, <2>2, BeginPreserves
<1>4. CASE \E u \in Users, c \in Convs : DeleteBegin(w, u, c)
  <2>1. PICK u \in Users, c \in Directs :
          row[c][u] = "active" /\ Begin(w, Ask("delete_write", u, {c}, {}, FALSE), {})
    BY <1>4 DEF DeleteBegin
  <2> DEFINE r == Ask("delete_write", u, {c}, {}, FALSE)
  <2>2. r \in Requests /\ r.pc = "delete_write" /\ \A d \in r.conv \cap Directs : row[d][r.by] # "none"
    BY <2>1
  <2> HIDE DEF IInv, Requests
  <2> QED
    BY <2>1, <2>2, BeginPreserves
<1>5. CASE \E u \in Users, c \in Convs : SendBegin(w, u, c)
  <2>1. PICK u \in Users, c \in Convs :
          row[c][u] = "active" /\ Begin(w, Ask("send_other", u, {c}, {}, FALSE), Partners(c, u))
    BY <1>5 DEF SendBegin
  <2> DEFINE r == Ask("send_other", u, {c}, {}, FALSE)
  <2>2. r \in Requests /\ r.pc = "send_other" /\ Partners(c, u) \in SUBSET Users
    BY DEF Partners
  <2>3. \A v \in Partners(c, u) : v # r.by /\ \E d \in Directs :
           r.conv = {d} /\ row[d][r.by] # "none" /\ row[d][v] # "none"
    BY <2>1 DEF Partners
  <2> HIDE DEF IInv, Requests
  <2> QED
    BY <2>1, <2>2, <2>3, BeginPreserves
<1> QED
  BY <1>1, <1>2, <1>3, <1>4, <1>5

LEMMA SendCreatePreserves ==
    ASSUME IInv, NEW w \in Workers, SendCreate(w)
    PROVE  IInv'
<1>1. Idle \in Requests
  OBVIOUS
<1>2. /\ req' \in [Workers -> Requests]
      /\ req'[w] = Idle
      /\ \A v \in Workers \ {w} : req'[v] = req[v]
  BY <1>1, OneRequest DEF SendCreate
<1>3. UNCHANGED <<row, pinned, blocks>> /\ overtaken' = overtaken \ {w} /\ barred' = barred \ {w}
  BY DEF SendCreate
<1>4. TypeOK'
  BY <1>2, <1>3
<1>5. PairsOnly'
  BY <1>3
<1>6. OneInvited' /\ DeletesOwn'
  <2> SUFFICES ASSUME NEW x \in Workers, req'[x].pc # "idle"
               PROVE  req'[x] = req[x]
    BY <1>3
  <2> QED
    BY <1>2
<1>7. BarredHeld'
  <2>1. ASSUME NEW x \in barred \ {w} PROVE Held(x)'
    <3>1. req'[x] = req[x]
      BY <1>2
    <3> QED
      BY <1>3, <3>1, HeldStays
  <2> HIDE DEF Held
  <2> QED
    BY <1>3, <2>1
<1> QED
  BY <1>4, <1>5, <1>6, <1>7

LEMMA NextPreserves == IInv /\ [Next]_vars => IInv'
<1> SUFFICES ASSUME IInv, [Next]_vars PROVE IInv'
  OBVIOUS
<1> HIDE DEF IInv
<1>1. CASE \E w \in Workers :
             \/ \E u, v \in Users : CreateBegin(w, u, v)
             \/ \E c \in Convs : PinBegin(w, c) \/ UnpinBegin(w, c)
             \/ \E u \in Users, c \in Convs : DeleteBegin(w, u, c) \/ SendBegin(w, u, c)
  BY <1>1, BeginningsPreserve
<1>2. CASE \E w \in Workers : CreateBlocks(w)
  BY <1>2, CreateBlocksPreserves
<1>3. CASE \E w \in Workers : CreateCommit(w)
  BY <1>3, CreateCommitPreserves
<1>4. CASE \E w \in Workers : PinCount(w)
  BY <1>4, PinCountPreserves
<1>5. CASE \E w \in Workers : PinWrite(w) \/ UnpinWrite(w)
  BY <1>5, PinWritesPreserve
<1>6. CASE \E w \in Workers : DeleteWrite(w)
  BY <1>6, DeleteWritePreserves
<1>7. CASE \E w \in Workers : SendOther(w)
  BY <1>7, SendOtherPreserves
<1>8. CASE \E w \in Workers : SendBlock(w)
  BY <1>8, SendBlockPreserves
<1>9. CASE \E w \in Workers : SendRecipients(w)
  BY <1>9, SendRecipientsPreserves
<1>10. CASE \E w \in Workers : SendCreate(w)
  BY <1>10, SendCreatePreserves
<1>11. CASE \/ \E c \in Convs : LeaveGroup(c) \/ Rejoin(c)
            \/ \E p \in Blockable : BlockUser(p) \/ UnblockUser(p)
  BY <1>11, OthersPreserve
<1>12. CASE UNCHANGED vars
  <2>1. UNCHANGED <<row, pinned, blocks, req, overtaken, barred>>
    BY <1>12 DEF vars
  <2>2. ASSUME NEW x \in barred PROVE Held(x)'
    BY <2>1, HeldStays
  <2>3. BarredHeld'
    <3> HIDE DEF Held
    <3> QED
      BY <2>1, <2>2
  <2>4. TypeOK' /\ PairsOnly'
    BY <2>1 DEF IInv
  <2>5. OneInvited' /\ DeletesOwn'
    BY <2>1 DEF IInv
  <2> QED
    BY <2>3, <2>4, <2>5 DEF IInv
<1> QED
  BY <1>1, <1>2, <1>3, <1>4, <1>5, <1>6, <1>7, <1>8, <1>9, <1>10, <1>11, <1>12 DEF Next

LEMMA Invariance == Spec => []IInv
<1> HIDE DEF IInv
<1> QED
  BY InitEstablishes, NextPreserves, PTL DEF Spec

----------------------------------------------------------------------------
(* What the invariant gives.                                               *)

\* Rows, pins, blocks and requests keep their types, and history speaks of requests in flight only.
THEOREM ConversationTypes == Spec => []TypeOK
<1>1. IInv => TypeOK
  OBVIOUS
<1> HIDE DEF IInv, TypeOK
<1> QED
  BY <1>1, Invariance, PTL

\* Of the stages before a write or a message, a barred request reaches the message only, and then
\* there is nobody to write to.
LEMMA HeldIsSilent ==
    ASSUME IInv, NEW w \in barred
    PROVE  ~CreateCommit(w) /\ (SendCreate(w) => req[w].who = {})
<1>1. Held(w)
  OBVIOUS
<1> QED
  BY <1>1 DEF CreateCommit, SendCreate

\* A request that begins while a block stands between its caller and the other side neither opens
\* a conversation with the other side nor sends it a message, for any accounts, conversations and
\* requests (messages.service.ts:755-775, conversations.service.ts:124-130).
THEOREM BlockedAreSilent == Spec => BlockSilences
<1>1. IInv /\ [Next]_vars =>
        [\A w \in barred : /\ ~CreateCommit(w)
                           /\ SendCreate(w) => req[w].who = {}]_vars
  <2> SUFFICES ASSUME IInv, NEW w \in barred PROVE ~CreateCommit(w) /\ (SendCreate(w) => req[w].who = {})
    OBVIOUS
  <2> HIDE DEF IInv
  <2> QED
    BY HeldIsSilent
<1> HIDE DEF IInv
<1> QED
  BY <1>1, Invariance, PTL DEF Spec, BlockSilences

----------------------------------------------------------------------------
(* What a request that no write overtook has read still holds.             *)

\* A creation has found no conversation of the two in use, a pin that is not one again has
\* counted fewer than MAX_PINNED, a sender takes part and has read everybody else who does.
StillTrue(w) ==
    /\ req[w].pc \in {"create_block", "create_commit"} =>
         \A v \in req[w].who, c \in Directs : ~({v, req[w].by} \subseteq ActiveIn(c))
    /\ req[w].pc \in {"pin_count", "pin_write"} => \E c \in Convs : req[w].conv = {c}
    /\ req[w].pc = "pin_write" /\ ~req[w].was => Cardinality(Pins) < MaxPinned
    /\ req[w].pc \in {"send_other", "send_block", "send_recipients", "send_create"} =>
         \E c \in Convs : req[w].conv = {c} /\ row[c][req[w].by] = "active"
    /\ req[w].pc = "send_create" => \A c \in req[w].conv : req[w].who = ActiveIn(c) \ {req[w].by}

ReadsHold == \A w \in Workers \ overtaken : StillTrue(w)

\* While rows and pins stand still, what a request has read stays as true as it was.
LEMMA StaysTrue ==
    ASSUME UNCHANGED <<row, pinned>>, NEW w \in Workers, req'[w] = req[w], StillTrue(w)
    PROVE  StillTrue(w)'
<1>1. Pins' = Pins /\ \A c \in Directs \cup Convs : ActiveIn(c)' = ActiveIn(c)
  BY DEF Pins, ActiveIn
<1>2. row' = row
  OBVIOUS
<1> HIDE DEF Convs, Pins, ActiveIn
<1>3. CASE req[w].pc \in {"create_block", "create_commit"}
  BY <1>1, <1>3 DEF StillTrue
<1>4. CASE req[w].pc = "pin_count"
  BY <1>1, <1>4 DEF StillTrue
<1>5. CASE req[w].pc = "pin_write"
  BY <1>1, <1>5 DEF StillTrue
<1>6. CASE req[w].pc \in {"send_other", "send_block", "send_recipients"}
  BY <1>1, <1>2, <1>6 DEF StillTrue
<1>7. CASE req[w].pc = "send_create"
  <2>1. PICK c \in Convs : req[w].conv = {c} /\ row[c][req[w].by] = "active"
    BY <1>7 DEF StillTrue
  <2>2. req[w].who = ActiveIn(c)' \ {req[w].by}
    BY <1>1, <1>7, <2>1 DEF StillTrue
  <2> QED
    BY <1>2, <1>7, <2>1, <2>2 DEF StillTrue
<1> QED
  BY <1>3, <1>4, <1>5, <1>6, <1>7 DEF StillTrue

\* A write overtakes whoever else is in flight, and those at rest have read nothing.
LEMMA WriteHolds ==
    ASSUME NEW ws, overtaken' = {v \in Workers : req'[v].pc # "idle" /\ v \notin ws},
           \A v \in ws : req'[v].pc = "idle"
    PROVE  ReadsHold'
<1> SUFFICES ASSUME NEW v \in Workers \ overtaken' PROVE StillTrue(v)'
  BY DEF ReadsHold
<1>1. req'[v].pc = "idle"
  OBVIOUS
<1> QED
  BY <1>1 DEF StillTrue

\* A request that begins or has a query answered: its own reading is what is left to show.
LEMMA ReadHolds ==
    ASSUME ReadsHold, NEW w \in Workers, UNCHANGED <<row, pinned>>,
           \A v \in Workers \ {w} : req'[v] = req[v],
           \A v \in Workers \ {w} : v \in overtaken => v \in overtaken',
           w \notin overtaken' => StillTrue(w)'
    PROVE  ReadsHold'
<1> SUFFICES ASSUME NEW v \in Workers \ overtaken', v # w PROVE StillTrue(v)'
  BY DEF ReadsHold
<1>1. req'[v] = req[v] /\ StillTrue(v)
  BY DEF ReadsHold
<1> HIDE DEF StillTrue
<1> QED
  BY <1>1, StaysTrue

LEMMA BeginningsHold ==
    ASSUME IInv, ReadsHold, NEW w \in Workers,
           \/ \E u, v \in Users : CreateBegin(w, u, v)
           \/ \E c \in Convs : PinBegin(w, c) \/ UnpinBegin(w, c)
           \/ \E u \in Users, c \in Convs : DeleteBegin(w, u, c) \/ SendBegin(w, u, c)
    PROVE  ReadsHold'
<1>1. UNCHANGED <<row, pinned, overtaken>> /\ \A v \in Workers \ {w} : req'[v] = req[v]
  BY DEF CreateBegin, PinBegin, UnpinBegin, DeleteBegin, SendBegin, Begin
<1>2. StillTrue(w)'
  <2>1. CASE \E u, v \in Users : CreateBegin(w, u, v)
    <3>0. PICK u, v \in Users : CreateBegin(w, u, v)
      BY <2>1
    <3>1. u # v /\ FindDirect(u, v) = {} /\ req'[w] = Ask("create_block", u, {}, {v}, FALSE)
      BY <3>0 DEF CreateBegin, Begin
    <3>2. ASSUME NEW c \in Directs, {v, u} \subseteq ActiveIn(c) PROVE FALSE
      <4>1. PICK a, b \in Users : \A x \in Users : row[c][x] # "none" => x \in {a, b}
        OBVIOUS
      <4>2. {a, b} = {u, v} /\ ActiveIn(c) \subseteq {a, b}
        BY <3>1, <3>2, <4>1 DEF ActiveIn
      <4>3. ActiveIn(c) = {u, v}
        BY <3>2, <4>2
      <4> QED
        BY <3>1, <4>3 DEF FindDirect
    <3>3. \A c \in Directs : ActiveIn(c)' = ActiveIn(c)
      BY <1>1 DEF ActiveIn
    <3>4. req'[w].pc = "create_block" /\ req'[w].by = u /\ req'[w].who = {v}
      BY <3>1
    <3> QED
      BY <3>2, <3>3, <3>4 DEF StillTrue
  <2>2. CASE \E c \in Convs : PinBegin(w, c)
    <3>1. PICK c \in Convs : req'[w] = Ask("pin_count", Self, {c}, {}, c \in pinned)
      BY <2>2 DEF PinBegin, Begin
    <3>2. req'[w].pc = "pin_count" /\ req'[w].conv = {c}
      BY <3>1
    <3> QED
      BY <3>2 DEF StillTrue
  <2>3. CASE \/ \E c \in Convs : UnpinBegin(w, c)
             \/ \E u \in Users, c \in Convs : DeleteBegin(w, u, c)
    <3>1. req'[w].pc \in {"unpin_write", "delete_write"}
      BY <2>3 DEF UnpinBegin, DeleteBegin, Begin
    <3> QED
      BY <3>1 DEF StillTrue
  <2>4. CASE \E u \in Users, c \in Convs : SendBegin(w, u, c)
    <3>0. PICK u \in Users, c \in Convs : SendBegin(w, u, c)
      BY <2>4
    <3>1. row[c][u] = "active" /\ req'[w] = Ask("send_other", u, {c}, {}, FALSE)
      BY <3>0 DEF SendBegin, Begin
    <3>2. req'[w].pc = "send_other" /\ req'[w].conv = {c} /\ row'[c][req'[w].by] = "active"
      BY <1>1, <3>1
    <3> QED
      BY <3>2 DEF StillTrue
  <2> QED
    BY <2>1, <2>2, <2>3, <2>4
<1> HIDE DEF IInv, StillTrue
<1> QED
  BY <1>1, <1>2, ReadHolds

\* The five queries: each lets the request go on with what it has just read.
LEMMA ChecksHold ==
    ASSUME IInv, ReadsHold, NEW w \in Workers,
           CreateBlocks(w) \/ PinCount(w) \/ SendOther(w) \/ SendBlock(w) \/ SendRecipients(w)
    PROVE  ReadsHold'
<1>1. PICK ok \in BOOLEAN, pc \in Stages, who \in SUBSET Users :
        /\ Check(w, ok, pc, who)
        /\ \/ req[w].pc = "create_block" /\ pc = "create_commit" /\ who = req[w].who
           \/ /\ req[w].pc = "pin_count" /\ pc = "pin_write"
              /\ ok <=> MayPin(Cardinality(Pins), req[w].was)
           \/ req[w].pc \in {"send_other", "send_block"} /\ pc \in {"send_recipients", "send_block"}
           \/ req[w].pc = "send_recipients" /\ pc = "send_create" /\ who = Recipients(w)
  <2>1. CASE CreateBlocks(w)
    <3> DEFINE ok == \A v \in req[w].who : ~Blocked(req[w].by, v)
    <3>1. ok \in BOOLEAN /\ "create_commit" \in Stages /\ req[w].who \in SUBSET Users
      OBVIOUS
    <3>2. Check(w, ok, "create_commit", req[w].who) /\ req[w].pc = "create_block"
      BY <2>1 DEF CreateBlocks
    <3> HIDE DEF ok, Stages
    <3> QED
      BY <3>1, <3>2
  <2>2. CASE PinCount(w)
    <3>1. PICK ok \in BOOLEAN : ok <=> MayPin(Cardinality(Pins), req[w].was)
      OBVIOUS
    <3>2. Check(w, ok, "pin_write", {}) /\ req[w].pc = "pin_count"
      BY <2>2, <3>1 DEF PinCount, Check
    <3>3. "pin_write" \in Stages /\ {} \in SUBSET Users
      OBVIOUS
    <3> HIDE DEF Stages
    <3> QED
      BY <3>1, <3>2, <3>3
  <2>3. CASE SendOther(w)
    <3> DEFINE pc == IF req[w].conv \subseteq Groups \/ Recipients(w) = {} THEN "send_recipients" ELSE "send_block"
    <3>1. pc \in Stages /\ pc \in {"send_recipients", "send_block"} /\ Recipients(w) \in SUBSET Users
      BY DEF Recipients
    <3>2. Check(w, TRUE, pc, Recipients(w)) /\ req[w].pc = "send_other"
      BY <2>3 DEF SendOther
    <3> HIDE DEF Stages, pc
    <3> QED
      BY <3>1, <3>2
  <2>4. CASE SendBlock(w)
    <3> DEFINE ok == \A v \in req[w].who : ~Blocked(req[w].by, v)
    <3>1. ok \in BOOLEAN /\ "send_recipients" \in Stages /\ {} \in SUBSET Users
      OBVIOUS
    <3>2. Check(w, ok, "send_recipients", {}) /\ req[w].pc = "send_block"
      BY <2>4 DEF SendBlock
    <3> HIDE DEF ok, Stages
    <3> QED
      BY <3>1, <3>2
  <2>5. CASE SendRecipients(w)
    <3>1. "send_create" \in Stages /\ Recipients(w) \in SUBSET Users
      BY DEF Recipients
    <3>2. Check(w, TRUE, "send_create", Recipients(w)) /\ req[w].pc = "send_recipients"
      BY <2>5 DEF SendRecipients
    <3> HIDE DEF Stages
    <3> QED
      BY <3>1, <3>2
  <2> QED
    BY <2>1, <2>2, <2>3, <2>4, <2>5
<1>2. /\ UNCHANGED <<row, pinned>>
      /\ \A v \in Workers \ {w} : req'[v] = req[v]
      /\ \A v \in Workers \ {w} : v \in overtaken => v \in overtaken'
      /\ ok => w \in overtaken \/ w \notin overtaken'
  BY <1>1 DEF Check
<1>3. CASE ~ok
  <2>1. req'[w].pc = "idle"
    BY <1>1, <1>3 DEF Check
  <2>2. StillTrue(w)'
    BY <2>1 DEF StillTrue
  <2> HIDE DEF IInv, StillTrue
  <2> QED
    BY <1>2, <2>2, ReadHolds
<1>4. CASE ok
  <2>1. /\ req'[w] = Ask(pc, req[w].by, req[w].conv, who, req[w].was)
        /\ overtaken' = overtaken
    BY <1>1, <1>4 DEF Check
  <2>2. /\ req'[w].pc = pc /\ req'[w].by = req[w].by /\ req'[w].conv = req[w].conv
        /\ req'[w].who = who /\ req'[w].was = req[w].was
    BY <2>1
  <2>3. Pins' = Pins /\ \A c \in Convs : ActiveIn(c)' = ActiveIn(c) /\ row'[c] = row[c]
    BY <1>2 DEF Pins, ActiveIn
  <2>4. ASSUME StillTrue(w) PROVE StillTrue(w)'
    <3>1. CASE req[w].pc = "create_block" /\ pc = "create_commit" /\ who = req[w].who
      BY <2>2, <2>3, <2>4, <3>1 DEF StillTrue
    <3>2. CASE /\ req[w].pc = "pin_count" /\ pc = "pin_write"
               /\ ok <=> MayPin(Cardinality(Pins), req[w].was)
      BY <1>4, <2>2, <2>3, <2>4, <3>2 DEF StillTrue, MayPin
    <3>3. CASE req[w].pc \in {"send_other", "send_block"} /\ pc \in {"send_recipients", "send_block"}
      <4>1. PICK c \in Convs : req[w].conv = {c} /\ row[c][req[w].by] = "active"
        BY <2>4, <3>3 DEF StillTrue
      <4>2. req'[w].conv = {c} /\ row'[c][req'[w].by] = "active"
        BY <2>2, <2>3, <4>1
      <4> QED
        BY <2>2, <3>3, <4>2 DEF StillTrue
    <3>4. CASE req[w].pc = "send_recipients" /\ pc = "send_create" /\ who = Recipients(w)
      <4>1. PICK c \in Convs : req[w].conv = {c} /\ row[c][req[w].by] = "active"
        BY <2>4, <3>4 DEF StillTrue
      <4>2. req'[w].conv = {c} /\ row'[c][req'[w].by] = "active"
        BY <2>2, <2>3, <4>1
      <4>3. req'[w].who = ActiveIn(c) \ {req'[w].by}
        BY <2>2, <3>4, <4>1 DEF Recipients, ActiveIn
      <4>4. req'[w].who = ActiveIn(c)' \ {req'[w].by}
        BY <2>3, <4>3
      <4> QED
        BY <2>2, <3>4, <4>2, <4>4 DEF StillTrue
    <3> QED
      BY <1>1, <3>1, <3>2, <3>3, <3>4
  <2>5. w \notin overtaken' => StillTrue(w)'
    BY <2>1, <2>4 DEF ReadsHold
  <2> HIDE DEF IInv, StillTrue
  <2> QED
    BY <1>2, <2>5, ReadHolds
<1> QED
  BY <1>3, <1>4

LEMMA WritesHold ==
    ASSUME IInv, ReadsHold,
           \/ \E w \in Workers : CreateCommit(w) \/ PinWrite(w) \/ UnpinWrite(w) \/ DeleteWrite(w)
           \/ \E c \in Convs : LeaveGroup(c) \/ Rejoin(c)
    PROVE  ReadsHold'
<1>1. CASE \E w \in Workers : CreateCommit(w) \/ PinWrite(w) \/ UnpinWrite(w) \/ DeleteWrite(w)
  <2>1. PICK w \in Workers : Commit(w)
    BY <1>1 DEF CreateCommit, PinWrite, UnpinWrite, DeleteWrite
  <2>2. overtaken' = {v \in Workers : req'[v].pc # "idle" /\ v \notin {w}} /\ req'[w].pc = "idle"
    BY <2>1 DEF Commit, Overtake
  <2> HIDE DEF ReadsHold, IInv
  <2> QED
    BY <2>2, WriteHolds
<1>2. CASE \E c \in Convs : LeaveGroup(c) \/ Rejoin(c)
  <2>1. overtaken' = {v \in Workers : req'[v].pc # "idle" /\ v \notin {}}
    BY <1>2 DEF LeaveGroup, Rejoin, GroupChange, Overtake
  <2> HIDE DEF ReadsHold, IInv
  <2> QED
    BY <2>1, WriteHolds
<1> QED
  BY <1>1, <1>2

LEMMA ReadsStep == IInv /\ ReadsHold /\ [Next]_vars => ReadsHold'
<1> SUFFICES ASSUME IInv, ReadsHold, [Next]_vars PROVE ReadsHold'
  OBVIOUS
<1>1. CASE \E w \in Workers :
             \/ \E u, v \in Users : CreateBegin(w, u, v)
             \/ \E c \in Convs : PinBegin(w, c) \/ UnpinBegin(w, c)
             \/ \E u \in Users, c \in Convs : DeleteBegin(w, u, c) \/ SendBegin(w, u, c)
  <2> HIDE DEF IInv
  <2> QED
    BY <1>1, BeginningsHold
<1>2. CASE \E w \in Workers :
             CreateBlocks(w) \/ PinCount(w) \/ SendOther(w) \/ SendBlock(w) \/ SendRecipients(w)
  <2> HIDE DEF IInv
  <2> QED
    BY <1>2, ChecksHold
<1>3. CASE \/ \E w \in Workers : CreateCommit(w) \/ PinWrite(w) \/ UnpinWrite(w) \/ DeleteWrite(w)
           \/ \E c \in Convs : LeaveGroup(c) \/ Rejoin(c)
  <2> HIDE DEF IInv
  <2> QED
    BY <1>3, WritesHold
<1>4. CASE \E w \in Workers : SendCreate(w)
  <2>1. PICK w \in Workers : SendCreate(w)
    BY <1>4
  <2>2. /\ UNCHANGED <<row, pinned>> /\ req'[w].pc = "idle" /\ overtaken' = overtaken \ {w}
        /\ \A v \in Workers \ {w} : req'[v] = req[v]
    BY <2>1 DEF SendCreate
  <2>3. StillTrue(w)'
    BY <2>2 DEF StillTrue
  <2> HIDE DEF IInv, StillTrue
  <2> QED
    BY <2>2, <2>3, ReadHolds
<1>5. CASE (\E p \in Blockable : BlockUser(p) \/ UnblockUser(p)) \/ UNCHANGED vars
  <2>1. UNCHANGED <<row, pinned, req, overtaken>>
    BY <1>5 DEF BlockUser, UnblockUser, vars
  <2> SUFFICES ASSUME NEW w \in Workers \ overtaken PROVE StillTrue(w)'
    BY <2>1 DEF ReadsHold
  <2>2. StillTrue(w)
    BY DEF ReadsHold
  <2> HIDE DEF IInv, StillTrue
  <2> QED
    BY <2>1, <2>2, StaysTrue
<1> HIDE DEF IInv, ReadsHold
<1> QED
  BY <1>1, <1>2, <1>3, <1>4, <1>5 DEF Next

LEMMA ReadsInvariance == Spec => [](IInv /\ ReadsHold)
<1>1. Init => ReadsHold
  BY DEF Init, ReadsHold, StillTrue
<1>2. IInv /\ ReadsHold /\ [Next]_vars => ReadsHold'
  BY ReadsStep
<1> HIDE DEF IInv, ReadsHold
<1> QED
  BY <1>1, <1>2, Invariance, PTL DEF Spec

\* A creation that no write overtook is the first of the two in use: between the look
\* (conversations.service.ts:106) and the insert (133) none of the others has committed.
THEOREM CreatesAreFirst == Spec => IsolatedCreateIsFirst
<1>1. IInv /\ ReadsHold /\ [Next]_vars =>
        [\A w \in Workers \ overtaken : CreateCommit(w) =>
           \A v \in req[w].who : \A c \in Directs : ~({v, req[w].by} \subseteq ActiveIn(c))]_vars
  <2> SUFFICES ASSUME ReadsHold, NEW w \in Workers \ overtaken, CreateCommit(w)
               PROVE  \A v \in req[w].who : \A c \in Directs : ~({v, req[w].by} \subseteq ActiveIn(c))
    OBVIOUS
  <2> QED
    BY DEF ReadsHold, StillTrue, CreateCommit
<1> HIDE DEF IInv, ReadsHold
<1> QED
  BY <1>1, ReadsInvariance, PTL DEF Spec, IsolatedCreateIsFirst

\* One pin more than were counted is no more than MAX_PINNED.
LEMMA OnePinMore ==
    ASSUME IInv, ReadsHold, NEW w \in Workers \ overtaken, PinWrite(w), ~req[w].was
    PROVE  Cardinality(Pins') <= MaxPinned
<1>1. Cardinality(Pins) < MaxPinned /\ \E c \in Convs : req[w].conv = {c}
  BY DEF ReadsHold, StillTrue, PinWrite
<1>2. PICK c \in Convs : req[w].conv = {c}
  BY <1>1
<1>3. Pins' \subseteq Pins \cup {c}
  BY <1>2 DEF Pins, PinWrite
<1>4. IsFiniteSet(Convs)
  BY FS_Union
<1>5. Pins \subseteq Convs
  BY DEF Pins
<1>6. IsFiniteSet(Pins) /\ Cardinality(Pins) \in Nat
  BY <1>4, <1>5, FS_Subset, FS_CardinalityType
<1>7. /\ IsFiniteSet(Pins \cup {c}) /\ Cardinality(Pins \cup {c}) \in Nat
      /\ Cardinality(Pins \cup {c}) <= Cardinality(Pins) + 1
  <2> DEFINE P == Pins
  <2>1. IsFiniteSet(P) /\ Cardinality(P) \in Nat
    BY <1>6
  <2> HIDE DEF P
  <2>2. IsFiniteSet(P \cup {c}) /\ Cardinality(P \cup {c}) = IF c \in P THEN Cardinality(P) ELSE Cardinality(P) + 1
    BY <2>1, FS_AddElement
  <2>3. Cardinality(P \cup {c}) \in Nat /\ Cardinality(P \cup {c}) <= Cardinality(P) + 1
    BY <2>1, <2>2
  <2> QED
    BY <2>2, <2>3 DEF P
<1>8. Cardinality(Pins') <= Cardinality(Pins \cup {c}) /\ Cardinality(Pins') \in Nat
  BY <1>3, <1>7, FS_Subset, FS_CardinalityType
<1> HIDE DEF IInv, ReadsHold
<1> QED
  BY <1>1, <1>6, <1>7, <1>8, PinnedAssumption

\* A pin that no write overtook, and that is not a pin again, leaves no more than MAX_PINNED
\* conversations pinned (conversations.service.ts:575-588).
THEOREM PinsFit == Spec => IsolatedPinFits
<1>1. IInv /\ ReadsHold /\ [Next]_vars =>
        [\A w \in Workers \ overtaken : PinWrite(w) /\ ~req[w].was => Cardinality(Pins') <= MaxPinned]_vars
  <2> HIDE DEF IInv, ReadsHold
  <2> QED
    BY OnePinMore
<1> HIDE DEF IInv, ReadsHold
<1> QED
  BY <1>1, ReadsInvariance, PTL DEF Spec, IsolatedPinFits

\* A message that no write overtook is from a participant and has a row for everybody else who
\* takes part, and for nobody more (messages.service.ts:100-130).
THEOREM SendsReach == Spec => IsolatedSendReaches
<1>1. IInv /\ ReadsHold /\ [Next]_vars =>
        [\A w \in Workers \ overtaken : SendCreate(w) =>
           \A c \in req[w].conv : ActiveIn(c) = req[w].who \cup {req[w].by}]_vars
  <2> SUFFICES ASSUME IInv, ReadsHold, NEW w \in Workers \ overtaken, SendCreate(w), NEW c \in req[w].conv
               PROVE  ActiveIn(c) = req[w].who \cup {req[w].by}
    OBVIOUS
  <2>1. req[w].who = ActiveIn(c) \ {req[w].by} /\ row[c][req[w].by] = "active" /\ req[w].by \in Users
    BY DEF ReadsHold, StillTrue, SendCreate
  <2>2. req[w].by \in ActiveIn(c)
    BY <2>1 DEF ActiveIn
  <2> QED
    BY <2>1, <2>2
<1> HIDE DEF IInv, ReadsHold
<1> QED
  BY <1>1, ReadsInvariance, PTL DEF Spec, IsolatedSendReaches
=============================================================================
