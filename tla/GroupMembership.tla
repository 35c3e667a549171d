-------------------------- MODULE GroupMembership --------------------------
(***************************************************************************)
(* Membership of one GROUP conversation, as kept by the REST and socket    *)
(* entry points of conversations/group-management.service.ts, by           *)
(* ConversationsService.createConversation and by UsersService.blockUser   *)
(* and unblockUser.                                                        *)
(*                                                                         *)
(* A request is served by a worker (an asynchronous call chain of the Node *)
(* process).  Every `await this.prisma...` is one step, so the requests of *)
(* different workers interleave between any two queries, which is what     *)
(* Postgres at READ COMMITTED allows.  The transaction of addMembers is    *)
(* one step, its commit: it locks the rows it rewrites and its inserts are *)
(* invisible until then.                                                   *)
(*                                                                         *)
(* Reads of data that never changes (the creator of the group, the users   *)
(* that exist) are folded into the query before them.  The loop of         *)
(* checkIfBlocked over newcomers and members is one step.                  *)
(***************************************************************************)
EXTENDS Integers, FiniteSets

CONSTANTS
    Users,          \* the accounts
    Creator,        \* Conversation.createdBy, never updated
    Workers,        \* requests that may be in flight together
    MaxGroupSize,   \* env MAX_GROUP_SIZE
    MaxBatch,       \* bound: users named by one createConversation or addMembers
    Blockable       \* bound: the ordered pairs <<userId, blockedId>> that may be blocked

ASSUME UsersAssumption == IsFiniteSet(Users) /\ Creator \in Users
ASSUME SizeAssumption == MaxGroupSize \in Nat /\ MaxGroupSize >= 2
ASSUME WorkersAssumption == IsFiniteSet(Workers) /\ Workers # {} /\ MaxBatch \in Nat
ASSUME BlockableAssumption == Blockable \subseteq Users \X Users

VARIABLES
    row,        \* row[u]: u's conversation_participants row; leftAt null is "active"
    role,       \* role[u]: the role column of that row
    blocks,     \* the rows of blocked_users
    req,        \* req[w]: the request worker w is serving, and what it has read
    overtaken,  \* history: the requests in flight since before another request's last write
    creatorLeft \* history: leaveGroup has committed for the creator

vars == <<row, role, blocks, req, overtaken, creatorLeft>>

Roles == {"member", "admin"}

Stages == {"idle", "create_blocks", "create_commit",
           "add_count", "add_existing", "add_blocks", "add_active", "add_previous", "add_commit",
           "remove_find", "remove_commit",
           "leave_admins", "leave_find", "leave_commit",
           "role_find", "role_commit"}

Requests == [pc : Stages, who : SUBSET Users, seen : SUBSET Users, newRole : Roles]

Idle == [pc |-> "idle", who |-> {}, seen |-> {}, newRole |-> "member"]

Active == {u \in Users : row[u] = "active"}
Admins == {u \in Active : role[u] = "admin"}

Batches == {S \in SUBSET Users : S # {} /\ Cardinality(S) <= MaxBatch}

Init ==
    /\ row = [u \in Users |-> "none"]
    /\ role = [u \in Users |-> "member"]
    /\ blocks = {}
    /\ req = [w \in Workers |-> Idle]
    /\ overtaken = {}
    /\ creatorLeft = FALSE

----------------------------------------------------------------------------
(* How a request moves. *)

Begin(w, r) ==
    /\ req[w].pc = "idle"
    /\ req' = [req EXCEPT ![w] = r]
    /\ UNCHANGED <<row, role, blocks, overtaken, creatorLeft>>

\* A query whose answer lets the request go on as r, or ends it with an exception.
Check(w, ok, r) ==
    /\ req' = [req EXCEPT ![w] = IF ok THEN r ELSE Idle]
    /\ overtaken' = IF ok THEN overtaken ELSE overtaken \ {w}
    /\ UNCHANGED <<row, role, blocks, creatorLeft>>

\* The request's write commits and it returns; every request in flight is overtaken.
Commit(w) ==
    /\ req' = [req EXCEPT ![w] = Idle]
    /\ overtaken' = {v \in Workers \ {w} : req[v].pc # "idle"}
    /\ UNCHANGED blocks

At(w, pc) == req[w].pc = pc
GoTo(w, pc) == [req[w] EXCEPT !.pc = pc]
GoSeeing(w, pc, S) == [pc |-> pc, who |-> req[w].who, seen |-> S, newRole |-> req[w].newRole]

----------------------------------------------------------------------------
(* Guards shared by the operations. *)

BlockedByMemberOnly(a, b) == <<a, b>> \in blocks
BlockedEitherWay(a, b) == <<a, b>> \in blocks \/ <<b, a>> \in blocks

CountsMembersOnly(count, added) == count <= MaxGroupSize
FitsLimit(count, added) == count + added <= MaxGroupSize

IsAdmin(u) == u \in Admins

----------------------------------------------------------------------------
(* createConversation with type GROUP.  It is the request that brings this *)
(* group into being, so it runs once, before there is a participant.       *)

Forming == /\ \A u \in Users : row[u] = "none"
           /\ \A w \in Workers : At(w, "idle")

CreateBegin(w, S) ==
    /\ Forming
    /\ Creator \notin S
    /\ FitsLimit(1, Cardinality(S))
    /\ Begin(w, [Idle EXCEPT !.pc = "create_blocks", !.who = S])

CreateBlocks(w) ==
    /\ At(w, "create_blocks")
    /\ Check(w, \A u \in req[w].who : ~BlockedEitherWay(Creator, u), GoTo(w, "create_commit"))

CreateCommit(w) ==
    /\ At(w, "create_commit")
    /\ row' = [u \in Users |-> IF u \in req[w].who \cup {Creator} THEN "active" ELSE "none"]
    /\ role' = [u \in Users |-> IF u = Creator THEN "admin" ELSE "member"]
    /\ Commit(w)
    /\ UNCHANGED creatorLeft

----------------------------------------------------------------------------
(* addMembers: seven queries, the last a transaction. *)

AddBegin(w, by, S) ==
    /\ IsAdmin(by)
    /\ Begin(w, [Idle EXCEPT !.pc = "add_count", !.who = S])

AddCount(w) ==
    /\ At(w, "add_count")
    /\ Check(w, FitsLimit(Cardinality(Active), Cardinality(req[w].who)), GoTo(w, "add_existing"))

AddExisting(w) ==
    /\ At(w, "add_existing")
    /\ Check(w, TRUE, GoSeeing(w, "add_blocks", Active))

AddBlocks(w) ==
    /\ At(w, "add_blocks")
    /\ Check(w, \A u \in req[w].who, m \in req[w].seen : ~BlockedEitherWay(m, u),
             GoSeeing(w, "add_active", {}))

AddActive(w) ==
    /\ At(w, "add_active")
    /\ Check(w, req[w].who \cap Active = {}, GoTo(w, "add_previous"))

Previous(S) == {u \in S : row[u] = "left"}

AddPrevious(w) ==
    /\ At(w, "add_previous")
    /\ Check(w, TRUE, GoSeeing(w, "add_commit", Previous(req[w].who)))

\* updateMany rewrites the rows of the previous participants whatever they hold now;
\* a create that meets an existing row violates the unique key and rolls all back.
AddCommit(w) ==
    LET fresh == req[w].who \ req[w].seen
    IN  /\ At(w, "add_commit")
        /\ IF \A u \in fresh : row[u] = "none"
           THEN /\ row' = [u \in Users |-> IF u \in req[w].who THEN "active" ELSE row[u]]
                /\ role' = [u \in Users |-> IF u \in req[w].who THEN "member" ELSE role[u]]
                /\ Commit(w)
                /\ UNCHANGED creatorLeft
           ELSE Check(w, FALSE, Idle)

----------------------------------------------------------------------------
(* removeMember *)

IsRemovableUnguarded(u) == TRUE
IsRemovable(u) == u # Creator

RemoveBegin(w, by, u) ==
    /\ IsAdmin(by)
    /\ by # u
    /\ IsRemovable(u)
    /\ Begin(w, [Idle EXCEPT !.pc = "remove_find", !.who = {u}])

RemoveFind(w) ==
    /\ At(w, "remove_find")
    /\ Check(w, req[w].who \subseteq Active, GoTo(w, "remove_commit"))

\* The update is by row id, with no condition on what the row holds by now.
Leave(S) == row' = [u \in Users |-> IF u \in S THEN "left" ELSE row[u]]

RemoveCommit(w) ==
    /\ At(w, "remove_commit")
    /\ Leave(req[w].who)
    /\ Commit(w)
    /\ UNCHANGED <<role, creatorLeft>>

----------------------------------------------------------------------------
(* leaveGroup *)

LeaveBegin(w, u) ==
    /\ u \in Active
    /\ Begin(w, [Idle EXCEPT !.pc = IF u = Creator THEN "leave_admins" ELSE "leave_find",
                             !.who = {u}])

AdminsWithLeaver(S) == Admins
AdminsBesides(S) == Admins \ S

LeaveAdmins(w) ==
    /\ At(w, "leave_admins")
    /\ Check(w, AdminsBesides(req[w].who) # {}, GoTo(w, "leave_find"))

LeaveFind(w) ==
    /\ At(w, "leave_find")
    /\ Check(w, req[w].who \subseteq Active, GoTo(w, "leave_commit"))

LeaveCommit(w) ==
    /\ At(w, "leave_commit")
    /\ Leave(req[w].who)
    /\ creatorLeft' = (creatorLeft \/ Creator \in req[w].who)
    /\ Commit(w)
    /\ UNCHANGED role

----------------------------------------------------------------------------
(* updateMemberRole *)

RoleBegin(w, by, u, newRole) ==
    /\ IsAdmin(by)
    /\ by # u
    /\ Begin(w, [Idle EXCEPT !.pc = "role_find", !.who = {u}, !.newRole = newRole])

FoundWithoutFilter(u, newRole) == newRole = "member" => u # Creator
MayTakeRole(u, newRole) == u \in Active /\ (newRole = "member" => u # Creator)

RoleFind(w) ==
    /\ At(w, "role_find")
    /\ Check(w, \A u \in req[w].who : MayTakeRole(u, req[w].newRole), GoTo(w, "role_commit"))

RoleCommit(w) ==
    /\ At(w, "role_commit")
    /\ role' = [u \in Users |-> IF u \in req[w].who THEN req[w].newRole ELSE role[u]]
    /\ Commit(w)
    /\ UNCHANGED <<row, creatorLeft>>

----------------------------------------------------------------------------
(* blockUser and unblockUser: the unique key makes each a single effect. *)

OvertakeAll == overtaken' = {v \in Workers : req[v].pc # "idle"}

BlockUser(a, b) ==
    /\ a # b
    /\ <<a, b>> \notin blocks
    /\ blocks' = blocks \cup {<<a, b>>}
    /\ OvertakeAll
    /\ UNCHANGED <<row, role, req, creatorLeft>>

UnblockUser(a, b) ==
    /\ <<a, b>> \in blocks
    /\ blocks' = blocks \ {<<a, b>>}
    /\ OvertakeAll
    /\ UNCHANGED <<row, role, req, creatorLeft>>

----------------------------------------------------------------------------

Step(w) ==
    \/ \E S \in Batches : CreateBegin(w, S)
    \/ CreateBlocks(w) \/ CreateCommit(w)
    \/ \E by \in Users, S \in Batches : AddBegin(w, by, S)
    \/ AddCount(w) \/ AddExisting(w) \/ AddBlocks(w) \/ AddActive(w) \/ AddPrevious(w)
    \/ AddCommit(w)
    \/ \E by, u \in Users : RemoveBegin(w, by, u)
    \/ RemoveFind(w) \/ RemoveCommit(w)
    \/ \E u \in Users : LeaveBegin(w, u)
    \/ LeaveAdmins(w) \/ LeaveFind(w) \/ LeaveCommit(w)
    \/ \E by, u \in Users, newRole \in Roles : RoleBegin(w, by, u, newRole)
    \/ RoleFind(w) \/ RoleCommit(w)

Next ==
    \/ \E w \in Workers : Step(w)
    \/ \E p \in Blockable : BlockUser(p[1], p[2]) \/ UnblockUser(p[1], p[2])

Spec == Init /\ [][Next]_vars

----------------------------------------------------------------------------
(* Properties *)

\* Every variable has its type, and a role other than the default belongs to a row:
\* updateMemberRole never writes to a participant that does not exist.
TypeOK ==
    /\ row \in [Users -> {"none", "active", "left"}]
    /\ role \in [Users -> Roles]
    /\ blocks \subseteq Users \X Users
    /\ req \in [Workers -> Requests]
    /\ overtaken \subseteq Workers
    /\ creatorLeft \in BOOLEAN
    /\ \A u \in Users : row[u] = "none" => role[u] = "member"

\* Until the creator leaves by leaveGroup it is an active admin of the group, whatever
\* removals, demotions and re-additions are in flight: the group is never without an
\* admin before that (removeMember and updateMemberRole refuse the creator, and
\* addMembers never rewrites the row of a participant that has not left).
CreatorKeepsGroup ==
    creatorLeft \/ row[Creator] = "none" \/ (row[Creator] = "active" /\ role[Creator] = "admin")

\* The users that request w, past its size check, is about to make members.
Joining(w) ==
    IF req[w].pc \in {"add_existing", "add_blocks", "add_active", "add_previous", "add_commit"}
    THEN req[w].who
    ELSE IF req[w].pc \in {"create_blocks", "create_commit"} THEN req[w].who \cup {Creator}
    ELSE {}

\* A seat for each of them, counted once for every request that has promised it.
Promised == {s \in Workers \X Users : s[2] \in Joining(s[1])}

\* The members, with those that requests past their size check are about to add, exceed
\* the limit by at most one batch for each other worker: what the check in addMembers
\* and createConversation gives when requests overlap.
OverrunBounded ==
    Cardinality(Active) + Cardinality(Promised)
        <= MaxGroupSize + (Cardinality(Workers) - 1) * MaxBatch

\* An addMembers that no other write overtook keeps the group within MAX_GROUP_SIZE.
IsolatedAddFits ==
    [][\A w \in Workers : AddCommit(w) /\ w \notin overtaken
           => Cardinality(Active') <= MaxGroupSize]_vars

\* A leaveGroup of the creator that no other write overtook leaves an active admin behind
\* ("Group creator must promote another admin before leaving").
IsolatedCreatorLeaveKeepsAdmin ==
    [][\A w \in Workers : LeaveCommit(w) /\ Creator \in req[w].who /\ w \notin overtaken
           => Admins' # {}]_vars

\* Request w may still add u although a block with m came after it looked: its block check
\* is past, or its list of members was read without m.
Unaware(w, u, m) ==
    /\ u \in req[w].who
    /\ \/ req[w].pc \in {"add_active", "add_previous", "add_commit", "create_commit"}
       \/ req[w].pc = "add_blocks" /\ m \notin req[w].seen

KeptApart(u, m) ==
    /\ u \notin Active /\ m \in Active
    /\ <<u, m>> \in blocks \/ <<m, u>> \in blocks
    /\ \A w \in Workers : ~Unaware(w, u, m)

\* Once an outsider and a member are blocked, in either direction, and no addition that
\* looked before that is in flight, the outsider stays out for as long as the block and
\* the membership last.
BlockKeepsOut ==
    [][\A u, m \in Users :
           KeptApart(u, m) /\ m \in Active' /\ (<<u, m>> \in blocks' \/ <<m, u>> \in blocks')
               => KeptApart(u, m)']_vars

\* Contradicted: group-management.service.ts:357, "Group creator must promote another
\* admin before leaving": the creator's departure leaves an active admin.
CreatorLeavesAnAdmin ==
    [][(Creator \in Active /\ Creator \notin Active') => Admins' # {}]_vars
=============================================================================
