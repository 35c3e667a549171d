----------------------- MODULE GroupMembershipProofs -----------------------
(* Theorems about GroupMembership, for any number of accounts, requests in  *)
(* flight and blocks.  The inductive invariant IInv says what a request     *)
(* still knows to be true when the rows it read may have changed.           *)
EXTENDS GroupMembership, FiniteSetTheorems, FunctionTheorems, TLAPS

Creating == {"create_blocks", "create_commit"}
Removing == {"remove_find", "remove_commit"}
PastCount == {"add_existing", "add_blocks", "add_active", "add_previous", "add_commit"}
PastAdmins == {"leave_find", "leave_commit"}

\* While the group is being created nobody is in it and no other request runs.
CreationIsAlone ==
    \A w \in Workers : req[w].pc \in Creating =>
        /\ \A u \in Users : row[u] = "none"
        /\ \A v \in Workers : v # w => req[v].pc = "idle"

\* A group with a member, or with a request on it, has a row for its creator.
CreatorHasRow ==
    /\ \A u \in Users : row[u] = "active" => row[Creator] # "none"
    /\ \A w \in Workers : req[w].pc \notin Creating \cup {"idle"} => row[Creator] # "none"

\* A role is only ever written to a participant's row.
RoleHasRow ==
    \A w \in Workers : req[w].pc = "role_commit" => \A u \in req[w].who : row[u] # "none"

\* What a request in flight still holds of the creator, however old its reads are.
CreatorSpared ==
    \A w \in Workers :
        /\ req[w].pc = "add_commit" /\ Creator \in req[w].seen => creatorLeft
        /\ req[w].pc \in Removing => Creator \notin req[w].who
        /\ req[w].pc = "role_commit" /\ req[w].newRole = "member" => Creator \notin req[w].who

\* What a request that nothing overtook still holds of the group.
IsolatedReads ==
    \A w \in Workers \ overtaken :
        /\ req[w].pc \in PastCount =>
               Cardinality(Active) + Cardinality(req[w].who) <= MaxGroupSize
        /\ req[w].pc \in PastAdmins /\ Creator \in req[w].who => Admins \ req[w].who # {}

IInv ==
    /\ TypeOK
    /\ CreatorKeepsGroup
    /\ CreationIsAlone
    /\ CreatorHasRow
    /\ RoleHasRow
    /\ CreatorSpared
    /\ IsolatedReads

----------------------------------------------------------------------------

LEMMA InitInv == Init => IInv
  <1> SUFFICES ASSUME Init PROVE IInv
    OBVIOUS
  <1> USE DEF Init, Idle
  <1>1. TypeOK
    BY DEF TypeOK, Requests, Stages, Roles
  <1>2. CreatorKeepsGroup
    BY UsersAssumption DEF CreatorKeepsGroup
  <1>3. CreationIsAlone /\ CreatorHasRow /\ RoleHasRow /\ CreatorSpared
    BY DEF CreationIsAlone, CreatorHasRow, RoleHasRow, CreatorSpared, Creating, Removing
  <1>4. IsolatedReads
    BY DEF IsolatedReads, PastCount, PastAdmins
  <1> QED
    BY <1>1, <1>2, <1>3, <1>4 DEF IInv

\* Every step is one of these three kinds of step of a worker, or a block being changed.
LEMMA TypeStep == TypeOK /\ RoleHasRow /\ [Next]_vars => TypeOK'
  <1> SUFFICES ASSUME TypeOK, RoleHasRow, [Next]_vars PROVE TypeOK'
    OBVIOUS
  <1>1. CASE UNCHANGED vars
    BY <1>1 DEF TypeOK, vars
  <1>2. ASSUME NEW p \in Blockable, BlockUser(p[1], p[2]) \/ UnblockUser(p[1], p[2])
        PROVE  TypeOK'
    <2>1. <<p[1], p[2]>> \in Users \X Users
      BY BlockableAssumption
    <2> QED
      BY <1>2, <2>1 DEF TypeOK, BlockUser, UnblockUser, OvertakeAll
  <1>3. ASSUME NEW w \in Workers, Step(w) PROVE TypeOK'
    <2>0. Idle \in Requests
      BY DEF Requests, Idle, Requests, Stages, Roles
    <2> DEFINE Asked == [pc : Stages, who : SUBSET Users, seen : {{}}, newRole : Roles]
    <2>a. ASSUME NEW r \in Asked, Begin(w, r) PROVE TypeOK'
      <3>1. r \in Requests
        BY <2>a DEF Requests
      <3> QED
        BY <2>a, <3>1 DEF TypeOK, Begin
    <2>1. ASSUME NEW S \in Batches, CreateBegin(w, S) PROVE TypeOK'
      <3>1. [Idle EXCEPT !.pc = "create_blocks", !.who = S] \in Asked
        BY DEF Idle, Batches, Stages, Roles
      <3> QED
        BY <2>1, <2>a, <3>1 DEF CreateBegin
    <2>2. ASSUME NEW by \in Users, NEW S \in Batches, AddBegin(w, by, S) PROVE TypeOK'
      <3>1. [Idle EXCEPT !.pc = "add_count", !.who = S] \in Asked
        BY DEF Idle, Batches, Stages, Roles
      <3> QED
        BY <2>2, <2>a, <3>1 DEF AddBegin
    <2>3. ASSUME NEW by \in Users, NEW u \in Users, RemoveBegin(w, by, u) PROVE TypeOK'
      <3>1. [Idle EXCEPT !.pc = "remove_find", !.who = {u}] \in Asked
        BY DEF Idle, Stages, Roles
      <3> QED
        BY <2>3, <2>a, <3>1 DEF RemoveBegin
    <2>4. ASSUME NEW u \in Users, LeaveBegin(w, u) PROVE TypeOK'
      <3> DEFINE r == [Idle EXCEPT !.pc = IF u = Creator THEN "leave_admins" ELSE "leave_find",
                                   !.who = {u}]
      <3>1. r \in Asked
        BY DEF Idle, Stages, Roles
      <3>2. Begin(w, r)
        BY <2>4 DEF LeaveBegin
      <3> HIDE DEF r, Asked
      <3> QED
        BY <2>a, <3>1, <3>2
    <2>5. ASSUME NEW by \in Users, NEW u \in Users, NEW r \in Roles, RoleBegin(w, by, u, r)
          PROVE TypeOK'
      <3>1. [Idle EXCEPT !.pc = "role_find", !.who = {u}, !.newRole = r] \in Asked
        BY DEF Idle, Stages, Roles
      <3> QED
        BY <2>5, <2>a, <3>1 DEF RoleBegin
    <2>6. CASE \/ CreateBlocks(w) \/ AddCount(w) \/ AddExisting(w) \/ AddBlocks(w)
               \/ AddActive(w) \/ AddPrevious(w) \/ RemoveFind(w) \/ LeaveAdmins(w)
               \/ LeaveFind(w) \/ RoleFind(w)
      <3>1. PICK r \in Requests : req' = [req EXCEPT ![w] = r] /\ overtaken' \subseteq overtaken
        BY <2>0, <2>6 DEF TypeOK, CreateBlocks, AddCount, AddExisting, AddBlocks, AddActive,
           AddPrevious, RemoveFind, LeaveAdmins, LeaveFind, RoleFind, Check, GoTo, GoSeeing,
           Requests, Stages, Active, Previous
      <3>2. UNCHANGED <<row, role, blocks, creatorLeft>>
        BY <2>6 DEF CreateBlocks, AddCount, AddExisting, AddBlocks, AddActive,
           AddPrevious, RemoveFind, LeaveAdmins, LeaveFind, RoleFind, Check
      <3> QED
        BY <3>1, <3>2 DEF TypeOK
    <2>8. CASE CreateCommit(w)
      BY <2>0, <2>8 DEF TypeOK, CreateCommit, Commit, Roles
    <2>9. CASE AddCommit(w)
      <3>1. CASE req' = [req EXCEPT ![w] = Idle] /\ overtaken' \subseteq overtaken
                 /\ UNCHANGED <<row, role, blocks, creatorLeft>>
        BY <2>0, <3>1 DEF TypeOK
      <3>2. CASE \A u \in req[w].who \ req[w].seen : row[u] = "none"
        <4>1. /\ row' = [u \in Users |-> IF u \in req[w].who THEN "active" ELSE row[u]]
              /\ role' = [u \in Users |-> IF u \in req[w].who THEN "member" ELSE role[u]]
              /\ Commit(w) /\ UNCHANGED creatorLeft
          BY <2>9, <3>2, Zenon DEF AddCommit
        <4>2. row' \in [Users -> {"none", "active", "left"}] /\ role' \in [Users -> Roles]
          BY <4>1 DEF TypeOK, Roles
        <4>3. \A u \in Users : row'[u] = "none" => role'[u] = "member"
          BY <4>1 DEF TypeOK
        <4> QED
          BY <2>0, <4>1, <4>2, <4>3 DEF TypeOK, Commit
      <3> QED
        BY <2>9, <3>1, <3>2 DEF AddCommit, Check
    <2>10. CASE RemoveCommit(w) \/ LeaveCommit(w)
      <3>1. creatorLeft' \in BOOLEAN
        BY <2>10, Zenon DEF TypeOK, RemoveCommit, LeaveCommit
      <3> QED
        BY <2>0, <2>10, <3>1 DEF TypeOK, RemoveCommit, LeaveCommit, Leave, Commit
    <2>11. CASE RoleCommit(w)
      BY <2>0, <2>11 DEF TypeOK, RoleHasRow, RoleCommit, Commit, At, Requests
    <2> QED
      BY <1>3, <2>1, <2>2, <2>3, <2>4, <2>5, <2>6, <2>8, <2>9, <2>10, <2>11 DEF Step
  <1> QED
    BY <1>1, <1>2, <1>3 DEF Next

----------------------------------------------------------------------------
(* The steps preserve IInv: one lemma per kind of step. *)

LEMMA BeginPreserves ==
  ASSUME IInv, NEW w \in Workers,
         \/ \E S \in Batches : CreateBegin(w, S)
         \/ \E by \in Users, S \in Batches : AddBegin(w, by, S)
         \/ \E by, u \in Users : RemoveBegin(w, by, u)
         \/ \E u \in Users : LeaveBegin(w, u)
         \/ \E by, u \in Users, newRole \in Roles : RoleBegin(w, by, u, newRole)
  PROVE  IInv'
  <1> DEFINE First == {"create_blocks", "add_count", "remove_find", "leave_admins",
                       "leave_find", "role_find"}
  <1>1. PICK r \in Requests :
          /\ req' = [req EXCEPT ![w] = r]
          /\ r.pc \in First
          /\ r.pc = "create_blocks" => Forming
          /\ r.pc # "create_blocks" => row[Creator] # "none"
          /\ r.pc \in {"remove_find", "leave_find"} => Creator \notin r.who
    <2> DEFINE Began(r) == /\ req' = [req EXCEPT ![w] = r]
                           /\ r.pc \in First
                           /\ r.pc = "create_blocks" => Forming
                           /\ r.pc # "create_blocks" => row[Creator] # "none"
                           /\ r.pc \in {"remove_find", "leave_find"} => Creator \notin r.who
    <2> SUFFICES \E r \in Requests : Began(r)
      OBVIOUS
    <2> USE DEF Begin, Requests, Idle, Stages, Roles, Batches
    <2>0. (\E u \in Users : u \in Admins) => row[Creator] # "none"
      BY DEF IInv, CreatorHasRow, Admins, Active
    <2>1. ASSUME NEW S \in Batches, CreateBegin(w, S) PROVE \E r \in Requests : Began(r)
      <3> WITNESS [Idle EXCEPT !.pc = "create_blocks", !.who = S] \in Requests
      <3> QED BY <2>1 DEF CreateBegin
    <2>2. ASSUME NEW by \in Users, NEW S \in Batches, AddBegin(w, by, S)
          PROVE  \E r \in Requests : Began(r)
      <3> WITNESS [Idle EXCEPT !.pc = "add_count", !.who = S] \in Requests
      <3> QED BY <2>0, <2>2 DEF AddBegin, IsAdmin
    <2>3. ASSUME NEW by \in Users, NEW u \in Users, RemoveBegin(w, by, u)
          PROVE  \E r \in Requests : Began(r)
      <3> WITNESS [Idle EXCEPT !.pc = "remove_find", !.who = {u}] \in Requests
      <3> QED BY <2>0, <2>3 DEF RemoveBegin, IsAdmin, IsRemovable
    <2>4. ASSUME NEW u \in Users, LeaveBegin(w, u) PROVE \E r \in Requests : Began(r)
      <3> WITNESS [Idle EXCEPT !.pc = IF u = Creator THEN "leave_admins" ELSE "leave_find",
                               !.who = {u}] \in Requests
      <3> QED BY <2>4 DEF LeaveBegin, IInv, CreatorHasRow, Active
    <2>5. ASSUME NEW by \in Users, NEW u \in Users, NEW newRole \in Roles,
                 RoleBegin(w, by, u, newRole)
          PROVE  \E r \in Requests : Began(r)
      <3> WITNESS [Idle EXCEPT !.pc = "role_find", !.who = {u}, !.newRole = newRole] \in Requests
      <3> QED BY <2>0, <2>5 DEF RoleBegin, IsAdmin
    <2> HIDE DEF Began
    <2> QED
      BY <2>1, <2>2, <2>3, <2>4, <2>5
  <1>2. req[w].pc = "idle" /\ UNCHANGED <<row, role, blocks, overtaken, creatorLeft>>
    BY DEF CreateBegin, AddBegin, RemoveBegin, LeaveBegin, RoleBegin, Begin
  <1>3. \A v \in Workers : req'[v] = IF v = w THEN r ELSE req[v]
    BY <1>1 DEF IInv, TypeOK
  <1>4. Active' = Active /\ Admins' = Admins
    BY <1>2 DEF Active, Admins
  <1>5. TypeOK' /\ CreatorKeepsGroup'
    BY <1>1, <1>2 DEF IInv, TypeOK, CreatorKeepsGroup
  <1>6. CreationIsAlone'
    BY <1>1, <1>2, <1>3, UsersAssumption DEF IInv, CreationIsAlone, Creating, Forming, At
  <1>7. CreatorHasRow'
    BY <1>1, <1>2, <1>3 DEF IInv, CreatorHasRow, Creating
  <1>8. RoleHasRow'
    BY <1>1, <1>2, <1>3 DEF IInv, RoleHasRow
  <1>9. CreatorSpared'
    BY <1>1, <1>2, <1>3 DEF IInv, CreatorSpared, Removing
  <1>10. IsolatedReads'
    BY <1>1, <1>2, <1>3, <1>4 DEF IInv, IsolatedReads, PastCount, PastAdmins
  <1> QED
    BY <1>5, <1>6, <1>7, <1>8, <1>9, <1>10 DEF IInv

LEMMA CheckPreserves ==
  ASSUME IInv, NEW w \in Workers,
         \/ CreateBlocks(w) \/ AddCount(w) \/ AddExisting(w) \/ AddBlocks(w)
         \/ AddActive(w) \/ AddPrevious(w) \/ RemoveFind(w) \/ LeaveAdmins(w)
         \/ LeaveFind(w) \/ RoleFind(w)
  PROVE  IInv'
  <1> USE DEF CreateBlocks, AddCount, AddExisting, AddBlocks, AddActive, AddPrevious,
          RemoveFind, LeaveAdmins, LeaveFind, RoleFind, At
  <1>1. UNCHANGED <<row, role, blocks, creatorLeft>> /\ Active' = Active /\ Admins' = Admins
    BY DEF Check, Active, Admins
  <1>2. TypeOK' /\ CreatorKeepsGroup'
    BY <1>1, TypeStep DEF IInv, CreatorKeepsGroup, Next, Step
  <1>3. req[w].pc # "idle" /\ req[w] \in Requests
    BY DEF IInv, TypeOK
  <1>4. CASE req' = [req EXCEPT ![w] = Idle] /\ overtaken' = overtaken \ {w}
    <2>1. \A v \in Workers : req'[v] = IF v = w THEN Idle ELSE req[v]
      BY <1>4 DEF IInv, TypeOK
    <2>2. CreationIsAlone' /\ CreatorHasRow' /\ RoleHasRow' /\ CreatorSpared'
      BY <1>1, <2>1 DEF IInv, CreationIsAlone, CreatorHasRow, RoleHasRow, CreatorSpared,
         Creating, Removing, Idle
    <2>3. IsolatedReads'
      BY <1>1, <1>4, <2>1 DEF IInv, IsolatedReads, PastCount, PastAdmins, Idle
    <2> QED
      BY <1>2, <2>2, <2>3 DEF IInv
  <1> DEFINE Onward(r) ==
        /\ r.who = req[w].who /\ r.newRole = req[w].newRole
        /\ r.pc \in Creating <=> req[w].pc \in Creating
        /\ r.pc # "idle"
        /\ r.pc \in Removing <=> req[w].pc \in Removing
        /\ r.pc = "role_commit" => \A u \in r.who : MayTakeRole(u, r.newRole)
        /\ r.pc = "add_commit" => r.seen = Previous(r.who)
        /\ r.pc \in PastCount => \/ req[w].pc \in PastCount
                                 \/ FitsLimit(Cardinality(Active), Cardinality(r.who))
        /\ r.pc \in PastAdmins => \/ req[w].pc \in PastAdmins
                                  \/ Creator \notin r.who
                                  \/ AdminsBesides(r.who) # {}
  <1>5. ASSUME NEW r \in Requests, Onward(r), overtaken' = overtaken, req' = [req EXCEPT ![w] = r]
        PROVE  IInv'
    <2>1. \A v \in Workers : req'[v] = IF v = w THEN r ELSE req[v]
      BY <1>5 DEF IInv, TypeOK
    <2>2. CreationIsAlone'
      BY <1>1, <1>3, <1>5, <2>1 DEF IInv, CreationIsAlone
    <2>3. CreatorHasRow'
      BY <1>1, <1>3, <1>5, <2>1 DEF IInv, CreatorHasRow
    <2>4. RoleHasRow'
      BY <1>1, <1>5, <2>1 DEF IInv, RoleHasRow, MayTakeRole, Active
    <2>5. CreatorSpared'
      <3>1. Creator \in Previous(r.who) => creatorLeft
        BY DEF IInv, CreatorKeepsGroup, Previous
      <3> QED
        BY <1>1, <1>5, <2>1, <3>1 DEF IInv, CreatorSpared, MayTakeRole
    <2>6. IsolatedReads'
      BY <1>1, <1>5, <2>1 DEF IInv, IsolatedReads, FitsLimit, AdminsBesides
    <2> QED
      BY <1>2, <2>2, <2>3, <2>4, <2>5, <2>6 DEF IInv
  <1>6. ASSUME NEW pc \in Stages
        PROVE  /\ GoTo(w, pc) \in Requests
               /\ GoTo(w, pc).pc = pc
               /\ GoTo(w, pc).who = req[w].who
               /\ GoTo(w, pc).seen = req[w].seen
               /\ GoTo(w, pc).newRole = req[w].newRole
    BY <1>3 DEF GoTo, Requests
  <1>7. ASSUME NEW pc \in Stages, NEW S \in SUBSET Users
        PROVE  /\ GoSeeing(w, pc, S) \in Requests
               /\ GoSeeing(w, pc, S).pc = pc
               /\ GoSeeing(w, pc, S).who = req[w].who
               /\ GoSeeing(w, pc, S).seen = S
               /\ GoSeeing(w, pc, S).newRole = req[w].newRole
    BY <1>3 DEF GoSeeing, Requests
  <1> QED
    <2> USE DEF Stages, Creating, Removing, PastCount, PastAdmins
    <2>1. CASE CreateBlocks(w)
      <3>1. CASE ~(\A u \in req[w].who : ~BlockedEitherWay(Creator, u))
        BY <1>4, <2>1, <3>1 DEF Check
      <3> DEFINE r == GoTo(w, "create_commit")
      <3>2. CASE \A u \in req[w].who : ~BlockedEitherWay(Creator, u)
        <4>1. r \in Requests /\ Onward(r)
          BY <1>3, <1>6, <2>1, <3>2
        <4>2. overtaken' = overtaken /\ req' = [req EXCEPT ![w] = r]
          BY <2>1, <3>2 DEF Check
        <4> HIDE DEF r, Onward
        <4> QED
          BY <1>5, <4>1, <4>2
      <3> QED
        BY <3>1, <3>2
    <2>2. CASE AddCount(w)
      <3>1. CASE ~(FitsLimit(Cardinality(Active), Cardinality(req[w].who)))
        BY <1>4, <2>2, <3>1 DEF Check
      <3> DEFINE r == GoTo(w, "add_existing")
      <3>2. CASE FitsLimit(Cardinality(Active), Cardinality(req[w].who))
        <4>1. r \in Requests /\ Onward(r)
          BY <1>3, <1>6, <2>2, <3>2
        <4>2. overtaken' = overtaken /\ req' = [req EXCEPT ![w] = r]
          BY <2>2, <3>2 DEF Check
        <4> HIDE DEF r, Onward
        <4> QED
          BY <1>5, <4>1, <4>2
      <3> QED
        BY <3>1, <3>2
    <2>3. CASE AddExisting(w)
      <3> DEFINE r == GoSeeing(w, "add_blocks", Active)
      <3>3. Active \in SUBSET Users
        BY DEF Active
      <3>4. /\ r \in Requests /\ r.pc = "add_blocks" /\ r.who = req[w].who
            /\ r.seen = Active /\ r.newRole = req[w].newRole
        BY <1>7, <3>3
      <3>1. Onward(r)
        <4> HIDE DEF r
        <4> QED BY <1>3, <2>3, <3>4
      <3>2. overtaken' = overtaken /\ req' = [req EXCEPT ![w] = r]
        BY <2>3 DEF Check
      <3> HIDE DEF r, Onward
      <3> QED
        BY <1>5, <3>1, <3>2, <3>4
    <2>4. CASE AddBlocks(w)
      <3>1. CASE ~(\A u \in req[w].who, m \in req[w].seen : ~BlockedEitherWay(m, u))
        BY <1>4, <2>4, <3>1 DEF Check
      <3> DEFINE r == GoSeeing(w, "add_active", {})
      <3>2. CASE \A u \in req[w].who, m \in req[w].seen : ~BlockedEitherWay(m, u)
        <4>3. /\ r \in Requests /\ r.pc = "add_active" /\ r.who = req[w].who
              /\ r.newRole = req[w].newRole
          BY <1>7
        <4>1. Onward(r)
          <5> HIDE DEF r
          <5> QED BY <1>3, <2>4, <4>3
        <4>2. overtaken' = overtaken /\ req' = [req EXCEPT ![w] = r]
          BY <2>4, <3>2 DEF Check
        <4> HIDE DEF r, Onward
        <4> QED
          BY <1>5, <4>1, <4>2, <4>3
      <3> QED
        BY <3>1, <3>2
    <2>5. CASE AddActive(w)
      <3>1. CASE ~(req[w].who \cap Active = {})
        BY <1>4, <2>5, <3>1 DEF Check
      <3> DEFINE r == GoTo(w, "add_previous")
      <3>2. CASE req[w].who \cap Active = {}
        <4>1. r \in Requests /\ Onward(r)
          BY <1>3, <1>6, <2>5, <3>2
        <4>2. overtaken' = overtaken /\ req' = [req EXCEPT ![w] = r]
          BY <2>5, <3>2 DEF Check
        <4> HIDE DEF r, Onward
        <4> QED
          BY <1>5, <4>1, <4>2
      <3> QED
        BY <3>1, <3>2
    <2>6. CASE AddPrevious(w)
      <3> DEFINE r == GoSeeing(w, "add_commit", Previous(req[w].who))
      <3>3. Previous(req[w].who) \in SUBSET Users
        BY <1>3 DEF Previous, Requests
      <3>4. /\ r \in Requests /\ r.pc = "add_commit" /\ r.who = req[w].who
            /\ r.seen = Previous(req[w].who) /\ r.newRole = req[w].newRole
        BY <1>7, <3>3
      <3>1. Onward(r)
        <4> HIDE DEF r
        <4> QED BY <1>3, <2>6, <3>4
      <3>2. overtaken' = overtaken /\ req' = [req EXCEPT ![w] = r]
        BY <2>6 DEF Check
      <3> HIDE DEF r, Onward
      <3> QED
        BY <1>5, <3>1, <3>2, <3>4
    <2>7. CASE RemoveFind(w)
      <3>1. CASE ~(req[w].who \subseteq Active)
        BY <1>4, <2>7, <3>1 DEF Check
      <3> DEFINE r == GoTo(w, "remove_commit")
      <3>2. CASE req[w].who \subseteq Active
        <4>1. r \in Requests /\ Onward(r)
          BY <1>3, <1>6, <2>7, <3>2
        <4>2. overtaken' = overtaken /\ req' = [req EXCEPT ![w] = r]
          BY <2>7, <3>2 DEF Check
        <4> HIDE DEF r, Onward
        <4> QED
          BY <1>5, <4>1, <4>2
      <3> QED
        BY <3>1, <3>2
    <2>8. CASE LeaveAdmins(w)
      <3>1. CASE ~(AdminsBesides(req[w].who) # {})
        BY <1>4, <2>8, <3>1 DEF Check
      <3> DEFINE r == GoTo(w, "leave_find")
      <3>2. CASE AdminsBesides(req[w].who) # {}
        <4>1. r \in Requests /\ Onward(r)
          BY <1>3, <1>6, <2>8, <3>2
        <4>2. overtaken' = overtaken /\ req' = [req EXCEPT ![w] = r]
          BY <2>8, <3>2 DEF Check
        <4> HIDE DEF r, Onward
        <4> QED
          BY <1>5, <4>1, <4>2
      <3> QED
        BY <3>1, <3>2
    <2>9. CASE LeaveFind(w)
      <3>1. CASE ~(req[w].who \subseteq Active)
        BY <1>4, <2>9, <3>1 DEF Check
      <3> DEFINE r == GoTo(w, "leave_commit")
      <3>2. CASE req[w].who \subseteq Active
        <4>1. r \in Requests /\ Onward(r)
          BY <1>3, <1>6, <2>9, <3>2
        <4>2. overtaken' = overtaken /\ req' = [req EXCEPT ![w] = r]
          BY <2>9, <3>2 DEF Check
        <4> HIDE DEF r, Onward
        <4> QED
          BY <1>5, <4>1, <4>2
      <3> QED
        BY <3>1, <3>2
    <2>10. CASE RoleFind(w)
      <3>1. CASE ~(\A u \in req[w].who : MayTakeRole(u, req[w].newRole))
        BY <1>4, <2>10, <3>1 DEF Check
      <3> DEFINE r == GoTo(w, "role_commit")
      <3>2. CASE \A u \in req[w].who : MayTakeRole(u, req[w].newRole)
        <4>1. r \in Requests /\ Onward(r)
          BY <1>3, <1>6, <2>10, <3>2
        <4>2. overtaken' = overtaken /\ req' = [req EXCEPT ![w] = r]
          BY <2>10, <3>2 DEF Check
        <4> HIDE DEF r, Onward
        <4> QED
          BY <1>5, <4>1, <4>2
      <3> QED
        BY <3>1, <3>2
    <2> QED
      BY <2>1, <2>2, <2>3, <2>4, <2>5, <2>6, <2>7, <2>8, <2>9, <2>10

\* After a write every request but the one that wrote is overtaken, and that one is over.
LEMMA CommitOvertakes ==
  ASSUME TypeOK, NEW w \in Workers, Commit(w)
  PROVE  IsolatedReads'
  <1>1. \A v \in Workers \ overtaken' : req'[v].pc = "idle"
    BY DEF TypeOK, Commit, Idle
  <1> QED
    BY <1>1 DEF IsolatedReads, PastCount, PastAdmins

LEMMA CommitPreserves ==
  ASSUME IInv, NEW w \in Workers,
         \/ CreateCommit(w) \/ AddCommit(w) \/ RemoveCommit(w) \/ LeaveCommit(w)
         \/ RoleCommit(w)
  PROVE  IInv'
  <1>1. TypeOK'
    BY TypeStep DEF IInv, Next, Step
  <1> DEFINE RolledBack == overtaken' = overtaken \ {w} /\ UNCHANGED <<row, role, blocks, creatorLeft>>
  <1>2. req' = [req EXCEPT ![w] = Idle] /\ (Commit(w) \/ RolledBack)
    BY DEF CreateCommit, AddCommit, RemoveCommit, LeaveCommit, RoleCommit, Commit, Check
  <1>3. \A v \in Workers : req'[v] = IF v = w THEN Idle ELSE req[v]
    BY <1>2 DEF IInv, TypeOK
  <1>4. IsolatedReads'
    <2>1. CASE Commit(w)
      BY <2>1, CommitOvertakes DEF IInv
    <2>2. CASE RolledBack
      <3>1. Active' = Active /\ Admins' = Admins /\ overtaken' = overtaken \ {w}
        BY <2>2 DEF Active, Admins
      <3> QED
        BY <1>3, <3>1 DEF IInv, IsolatedReads, PastCount, PastAdmins, Idle
    <2> QED
      BY <1>2, <2>1, <2>2
  <1>5. /\ row[Creator] # "none" => row'[Creator] # "none"
        /\ (\E u \in Users : row'[u] = "active") => row'[Creator] # "none"
        /\ \A u \in Users : req[w].pc \notin Creating /\ row[u] # "none" => row'[u] # "none"
    BY UsersAssumption
    DEF IInv, TypeOK, CreatorHasRow, CreateCommit, AddCommit, RemoveCommit, LeaveCommit,
        RoleCommit, Leave, Check, At, Creating
  <1>6. CreationIsAlone'
    <2>1. \A v \in Workers \ {w} : req[v].pc \notin Creating
      BY DEF IInv, CreationIsAlone, CreateCommit, AddCommit, RemoveCommit, LeaveCommit,
         RoleCommit, At
    <2> QED
      BY <1>3, <2>1 DEF CreationIsAlone, Creating, Idle
  <1>7. CreatorHasRow'
    BY <1>3, <1>5 DEF IInv, CreatorHasRow, Idle
  <1>8. RoleHasRow'
    <2>1. CASE req[w].pc \in Creating
      BY <1>3, <2>1 DEF IInv, CreationIsAlone, RoleHasRow, Idle
    <2>2. CASE req[w].pc \notin Creating
      BY <1>3, <1>5, <2>2 DEF IInv, TypeOK, Requests, RoleHasRow, Idle
    <2> QED
      BY <2>1, <2>2
  <1>9. creatorLeft => creatorLeft'
    BY DEF CreateCommit, AddCommit, RemoveCommit, LeaveCommit, RoleCommit, Check
  <1>10. CreatorSpared'
    BY <1>3, <1>9 DEF IInv, CreatorSpared, Removing, Idle
  <1>11. CreatorKeepsGroup'
    <2>1. CASE CreateCommit(w)
      BY <2>1, UsersAssumption DEF CreateCommit, CreatorKeepsGroup
    <2>2. CASE AddCommit(w)
      BY <2>2, UsersAssumption
      DEF AddCommit, Check, At, IInv, CreatorSpared, CreatorHasRow, CreatorKeepsGroup, Creating
    <2>3. CASE RemoveCommit(w)
      BY <2>3, UsersAssumption
      DEF RemoveCommit, Leave, At, IInv, CreatorSpared, CreatorKeepsGroup, Removing
    <2>4. CASE LeaveCommit(w)
      BY <2>4, UsersAssumption DEF LeaveCommit, Leave, IInv, CreatorKeepsGroup
    <2>5. CASE RoleCommit(w)
      <3>1. req[w].newRole \in Roles
        BY DEF IInv, TypeOK, Requests
      <3> QED
        BY <2>5, <3>1, UsersAssumption
        DEF RoleCommit, At, IInv, CreatorSpared, CreatorKeepsGroup, Roles
    <2> QED
      BY <2>1, <2>2, <2>3, <2>4, <2>5
  <1> QED
    BY <1>1, <1>4, <1>6, <1>7, <1>8, <1>10, <1>11 DEF IInv

LEMMA BlockPreserves ==
  ASSUME IInv, NEW p \in Blockable, BlockUser(p[1], p[2]) \/ UnblockUser(p[1], p[2])
  PROVE  IInv'
  <1>1. TypeOK'
    BY TypeStep DEF IInv, Next
  <1>2. UNCHANGED <<row, role, req, creatorLeft>>
        /\ overtaken' = {v \in Workers : req[v].pc # "idle"}
    BY DEF BlockUser, UnblockUser, OvertakeAll
  <1>3. IsolatedReads'
    BY <1>2 DEF IsolatedReads, PastCount, PastAdmins
  <1>4. CreatorKeepsGroup' /\ CreationIsAlone' /\ CreatorHasRow' /\ RoleHasRow' /\ CreatorSpared'
    BY <1>2 DEF IInv, CreatorKeepsGroup, CreationIsAlone, CreatorHasRow, RoleHasRow, CreatorSpared
  <1> QED
    BY <1>1, <1>3, <1>4 DEF IInv

LEMMA InvStep == IInv /\ [Next]_vars => IInv'
  <1> SUFFICES ASSUME IInv, [Next]_vars PROVE IInv'
    OBVIOUS
  <1>1. CASE UNCHANGED vars
    BY <1>1
    DEF vars, IInv, TypeOK, CreatorKeepsGroup, CreationIsAlone, CreatorHasRow, RoleHasRow,
        CreatorSpared, IsolatedReads, Active, Admins
  <1>2. ASSUME NEW w \in Workers, Step(w) PROVE IInv'
    BY <1>2, BeginPreserves, CheckPreserves, CommitPreserves DEF Step
  <1>3. ASSUME NEW p \in Blockable, BlockUser(p[1], p[2]) \/ UnblockUser(p[1], p[2])
        PROVE  IInv'
    BY <1>3, BlockPreserves
  <1> QED
    BY <1>1, <1>2, <1>3 DEF Next

LEMMA Invariance == Spec => []IInv
  BY InitInv, InvStep, PTL DEF Spec

----------------------------------------------------------------------------

\* TypeOK for every value of the constants: no write of a request in flight, however
\* late, puts a value of the wrong type or a role without a participant in the tables.
THEOREM TypeCorrect == Spec => []TypeOK
  <1>1. IInv => TypeOK
    BY DEF IInv
  <1> QED
    BY <1>1, Invariance, PTL

\* CreatorKeepsGroup for any number of overlapping requests: until the creator leaves by
\* leaveGroup it is an active admin.
THEOREM CreatorStays == Spec => []CreatorKeepsGroup
  <1>1. IInv => CreatorKeepsGroup
    BY DEF IInv
  <1> QED
    BY <1>1, Invariance, PTL

\* IsolatedAddFits for any number of requests and any limit: only overlapping requests
\* can take a group over MAX_GROUP_SIZE.
THEOREM AddsFitWhenIsolated == Spec => IsolatedAddFits
  <1>1. ASSUME IInv, NEW w \in Workers, AddCommit(w), w \notin overtaken
        PROVE  Cardinality(Active') <= MaxGroupSize
    <2>1. Cardinality(Active) + Cardinality(req[w].who) <= MaxGroupSize
      BY <1>1 DEF IInv, IsolatedReads, AddCommit, At, PastCount
    <2>2. req[w].who \subseteq Users /\ Active \subseteq Users
      BY <1>1 DEF IInv, TypeOK, Requests, Active
    <2>3. IsFiniteSet(Active) /\ IsFiniteSet(req[w].who)
      BY <2>2, UsersAssumption, FS_Subset
    <2>4. Active' \subseteq Active \cup req[w].who
      BY <1>1, <2>2 DEF AddCommit, Check, Active
    <2>5. /\ IsFiniteSet(Active \cup req[w].who)
          /\ Cardinality(Active \cup req[w].who)
               = Cardinality(Active) + Cardinality(req[w].who)
                 - Cardinality(Active \cap req[w].who)
      BY <2>3, FS_Union
    <2>6. IsFiniteSet(Active \cap req[w].who)
      BY <2>3, FS_Intersection
    <2>7. Cardinality(Active') <= Cardinality(Active \cup req[w].who)
          /\ IsFiniteSet(Active')
      BY <2>4, <2>5, FS_Subset
    <2>8. /\ Cardinality(Active) \in Nat /\ Cardinality(req[w].who) \in Nat
          /\ Cardinality(Active \cap req[w].who) \in Nat /\ Cardinality(Active') \in Nat
      BY <2>3, <2>6, <2>7, FS_CardinalityType
    <2> QED
      BY <2>1, <2>5, <2>7, <2>8, SizeAssumption
  <1>2. IInv /\ [Next]_vars
          => [\A w \in Workers : AddCommit(w) /\ w \notin overtaken
                  => Cardinality(Active') <= MaxGroupSize]_vars
    BY <1>1
  <1> QED
    BY <1>2, Invariance, PTL DEF Spec, IsolatedAddFits

\* IsolatedCreatorLeaveKeepsAdmin for every group: only a write that overlaps the
\* creator's leaveGroup can make it leave a group without an admin.
THEOREM CreatorLeavesAdminWhenIsolated == Spec => IsolatedCreatorLeaveKeepsAdmin
  <1>1. ASSUME IInv, NEW w \in Workers, LeaveCommit(w), Creator \in req[w].who,
               w \notin overtaken
        PROVE  Admins' # {}
    <2>1. Admins \ req[w].who # {}
      BY <1>1 DEF IInv, IsolatedReads, LeaveCommit, At, PastAdmins
    <2>2. Admins \ req[w].who \subseteq Admins'
      BY <1>1 DEF LeaveCommit, Leave, Admins, Active
    <2> QED
      BY <2>1, <2>2
  <1>2. IInv /\ [Next]_vars
          => [\A w \in Workers : LeaveCommit(w) /\ Creator \in req[w].who /\ w \notin overtaken
                  => Admins' # {}]_vars
    BY <1>1
  <1> QED
    BY <1>2, Invariance, PTL DEF Spec, IsolatedCreatorLeaveKeepsAdmin

----------------------------------------------------------------------------
(* A block in force keeps an outsider out. *)

Barred(u, m) == <<u, m>> \in blocks \/ <<m, u>> \in blocks

\* No request that could not add u beside m becomes able to while the two are barred.
LEMMA StaysAware ==
  ASSUME IInv, Next, NEW u \in Users, NEW m \in Users, KeptApart(u, m), NEW w \in Workers
  PROVE  ~Unaware(w, u, m)'
  <1> DEFINE Blind == {"add_active", "add_previous", "add_commit", "create_commit"}
  <1>0. ~Unaware(w, u, m) /\ m \in Active /\ Barred(u, m)
    BY DEF KeptApart, Barred
  <1>1. CASE req'[w] = req[w] \/ req'[w] = Idle
    BY <1>0, <1>1 DEF Unaware, Idle
  <1>2. ASSUME req'[w] # req[w], req'[w] # Idle PROVE ~Unaware(w, u, m)'
    <2>1. Step(w)
      <3>1. ASSUME NEW v \in Workers, v # w, Step(v) PROVE req'[w] = req[w]
        BY <3>1
        DEF IInv, TypeOK, Step, Begin, Check, Commit, CreateBegin, CreateBlocks, CreateCommit,
            AddBegin, AddCount, AddExisting, AddBlocks, AddActive, AddPrevious, AddCommit,
            RemoveBegin, RemoveFind, RemoveCommit, LeaveBegin, LeaveAdmins, LeaveFind,
            LeaveCommit, RoleBegin, RoleFind, RoleCommit
      <3>2. ASSUME NEW p \in Blockable, BlockUser(p[1], p[2]) \/ UnblockUser(p[1], p[2])
            PROVE  req'[w] = req[w]
        BY <3>2 DEF BlockUser, UnblockUser
      <3> QED
        BY <1>2, <3>1, <3>2 DEF Next
    <2>2. CASE CreateBlocks(w)
      BY <1>0, <2>2 DEF IInv, CreationIsAlone, CreateBlocks, At, Creating, Active
    <2>3. CASE AddExisting(w)
      <3>1. req'[w].pc = "add_blocks" /\ m \in req'[w].seen
        BY <1>0, <2>3 DEF IInv, TypeOK, AddExisting, Check, GoSeeing
      <3> QED
        BY <3>1 DEF Unaware
    <2>4. CASE AddBlocks(w)
      <3>1. \A x \in req[w].who, y \in req[w].seen : ~BlockedEitherWay(y, x)
        BY <1>2, <2>4 DEF IInv, TypeOK, AddBlocks, Check
      <3>2. req'[w].who = req[w].who
        BY <1>2, <2>4 DEF IInv, TypeOK, AddBlocks, Check, GoSeeing
      <3>3. u \in req[w].who => m \in req[w].seen
        BY <1>0, <2>4 DEF Unaware, AddBlocks, At
      <3>4. u \notin req[w].who
        BY <1>0, <3>1, <3>3 DEF Barred, BlockedEitherWay
      <3> QED
        BY <3>2, <3>4 DEF Unaware
    <2>5. CASE AddActive(w) \/ AddPrevious(w)
      <3>1. req'[w].who = req[w].who /\ req[w].pc \in Blind
        BY <1>2, <2>5 DEF IInv, TypeOK, Requests, AddActive, AddPrevious, Check, GoTo, GoSeeing, At
      <3> QED
        BY <1>0, <3>1 DEF Unaware
    <2>6. CASE AddCount(w) \/ RemoveFind(w) \/ LeaveAdmins(w) \/ LeaveFind(w) \/ RoleFind(w)
      <3>1. req'[w].pc \in {"add_existing", "remove_commit", "leave_find", "leave_commit",
                            "role_commit"}
        BY <1>2, <2>6 DEF IInv, TypeOK, Requests, AddCount, RemoveFind, LeaveAdmins, LeaveFind,
           RoleFind, Check, GoTo
      <3> QED
        BY <3>1 DEF Unaware
    <2>7. CASE \/ CreateCommit(w) \/ AddCommit(w) \/ RemoveCommit(w) \/ LeaveCommit(w)
               \/ RoleCommit(w)
      BY <1>2, <2>7 DEF IInv, TypeOK, CreateCommit, AddCommit, RemoveCommit, LeaveCommit,
         RoleCommit, Commit, Check
    <2>8. CASE \/ \E S \in Batches : CreateBegin(w, S)
               \/ \E by \in Users, S \in Batches : AddBegin(w, by, S)
               \/ \E by, x \in Users : RemoveBegin(w, by, x)
               \/ \E x \in Users : LeaveBegin(w, x)
               \/ \E by, x \in Users, newRole \in Roles : RoleBegin(w, by, x, newRole)
      <3>1. req \in [Workers -> Requests]
        BY DEF IInv, TypeOK
      <3>2. CASE \E S \in Batches : CreateBegin(w, S) \/ \E by \in Users : AddBegin(w, by, S)
        <4>1. req'[w].pc \in {"create_blocks", "add_count"}
          BY <3>1, <3>2 DEF CreateBegin, AddBegin, Begin, Idle
        <4> QED
          BY <4>1 DEF Unaware
      <3>3. CASE \E by, x \in Users : RemoveBegin(w, by, x)
        <4>1. req'[w].pc = "remove_find"
          BY <3>1, <3>3 DEF RemoveBegin, Begin, Idle
        <4> QED
          BY <4>1 DEF Unaware
      <3>4. CASE \E x \in Users : LeaveBegin(w, x)
        <4>1. req'[w].pc \in {"leave_admins", "leave_find"}
          BY <3>1, <3>4 DEF LeaveBegin, Begin, Idle
        <4> QED
          BY <4>1 DEF Unaware
      <3>5. CASE \E by, x \in Users, newRole \in Roles : RoleBegin(w, by, x, newRole)
        <4>1. req'[w].pc = "role_find"
          BY <3>1, <3>5 DEF RoleBegin, Begin, Idle
        <4> QED
          BY <4>1 DEF Unaware
      <3> QED
        BY <2>8, <3>2, <3>3, <3>4, <3>5
    <2> QED
      BY <2>1, <2>2, <2>3, <2>4, <2>5, <2>6, <2>7, <2>8 DEF Step
  <1> QED
    BY <1>1, <1>2

\* BlockKeepsOut for any accounts, blocks and overlapping requests: a block in force, in
\* either direction, keeps an outsider out of a group with the other party in it, save
\* for an addition that had already looked.
THEOREM BlockedStayOut == Spec => BlockKeepsOut
  <1>1. ASSUME IInv, Next, NEW u \in Users, NEW m \in Users, KeptApart(u, m), m \in Active',
               <<u, m>> \in blocks' \/ <<m, u>> \in blocks'
        PROVE  KeptApart(u, m)'
    <2>1. \A w \in Workers : ~Unaware(w, u, m)'
      BY <1>1, StaysAware
    <2>2. u \notin Active'
      <3>1. ASSUME NEW w \in Workers, AddCommit(w) PROVE u \notin Active'
        BY <1>1, <3>1 DEF KeptApart, Unaware, AddCommit, Check, Active, At
      <3>2. ASSUME NEW w \in Workers, CreateCommit(w) PROVE u \notin Active'
        BY <1>1, <3>2 DEF IInv, CreationIsAlone, Creating, KeptApart, CreateCommit, Active, At
      <3>3. ASSUME NEW w \in Workers, RemoveCommit(w) \/ LeaveCommit(w) PROVE u \notin Active'
        BY <1>1, <3>3 DEF KeptApart, RemoveCommit, LeaveCommit, Leave, Active
      <3>4. CASE UNCHANGED row
        BY <1>1, <3>4 DEF KeptApart, Active
      <3> QED
        BY <1>1, <3>1, <3>2, <3>3, <3>4
        DEF Next, Step, Begin, Check, CreateBegin, CreateBlocks, AddBegin, AddCount,
            AddExisting, AddBlocks, AddActive, AddPrevious, RemoveBegin, RemoveFind, LeaveBegin,
            LeaveAdmins, LeaveFind, RoleBegin, RoleFind, RoleCommit, BlockUser, UnblockUser
    <2> QED
      BY <1>1, <2>1, <2>2 DEF KeptApart
  <1>2. IInv /\ [Next]_vars
          => [\A u, m \in Users :
                 KeptApart(u, m) /\ m \in Active' /\ (<<u, m>> \in blocks' \/ <<m, u>> \in blocks')
                     => KeptApart(u, m)']_vars
    BY <1>1
  <1> QED
    BY <1>2, Invariance, PTL DEF Spec, BlockKeepsOut

----------------------------------------------------------------------------
(* By how much overlapping additions can exceed the limit. *)

\* An addition names a batch of users, and what is promised stays within the bound.
BatchesOnly ==
    \A w \in Workers : req[w].pc \in PastCount \cup {"add_count"} => Cardinality(req[w].who) <= MaxBatch

SeatsFit == BatchesOnly /\ OverrunBounded

Slack == (Cardinality(Workers) - 1) * MaxBatch

LEMMA SlackType == Slack \in Nat
  <1> DEFINE n == Cardinality(Workers)
  <1>1. n \in Nat /\ n # 0
    BY WorkersAssumption, FS_CardinalityType, FS_EmptySet
  <1> HIDE DEF n
  <1>2. n - 1 \in Nat
    BY <1>1
  <1>3. \A a, b \in Nat : a * b \in Nat
    OBVIOUS
  <1> QED
    BY <1>2, <1>3, WorkersAssumption DEF Slack, n

\* Everything counted here is finite.
LEMMA AllFinite ==
  ASSUME TypeOK
  PROVE  /\ IsFiniteSet(Active) /\ Cardinality(Active) \in Nat
         /\ IsFiniteSet(Workers \X Users)
         /\ \A S \in SUBSET (Workers \X Users) : IsFiniteSet(S) /\ Cardinality(S) \in Nat
         /\ \A S \in SUBSET Users : IsFiniteSet(S) /\ Cardinality(S) \in Nat
         /\ \A w \in Workers : Joining(w) \in SUBSET Users
  <1>1. IsFiniteSet(Workers \X Users)
    BY UsersAssumption, WorkersAssumption, FS_Product
  <1>2. ASSUME NEW U, IsFiniteSet(U), NEW S \in SUBSET U PROVE IsFiniteSet(S) /\ Cardinality(S) \in Nat
    BY <1>2, FS_Subset, FS_CardinalityType
  <1>3. Active \in SUBSET Users
    BY DEF Active
  <1>4. \A w \in Workers : Joining(w) \in SUBSET Users
    BY UsersAssumption DEF TypeOK, Requests, Joining
  <1> QED
    BY <1>1, <1>2, <1>3, <1>4, UsersAssumption

\* One seat for each of the users of one request.
LEMMA SeatsOfOne ==
  ASSUME NEW w, NEW J \in SUBSET Users
  PROVE  Cardinality({w} \X J) = Cardinality(J) /\ IsFiniteSet({w} \X J)
  <1>1. IsFiniteSet(J) /\ Cardinality(J) \in Nat
    BY UsersAssumption, FS_Subset, FS_CardinalityType
  <1>2. IsFiniteSet({w}) /\ Cardinality({w}) = 1
    BY FS_Singleton
  <1> QED
    BY <1>1, <1>2, FS_Product

\* Seats whose users are numbered within a batch, request by request, are no more than a
\* batch for each request.
LEMMA BatchEach ==
  ASSUME NEW W \in SUBSET Workers, NEW S \in SUBSET (W \X Users),
         \A v \in W : Cardinality({u \in Users : <<v, u>> \in S}) <= MaxBatch
  PROVE  Cardinality(S) <= Cardinality(W) * MaxBatch
  <1> DEFINE Of(v) == {u \in Users : <<v, u>> \in S}
  <1>1. ASSUME NEW v \in W PROVE Injection(Of(v), 1..MaxBatch) # {}
    <2> DEFINE n == Cardinality(Of(v))
    <2>1. IsFiniteSet(Of(v)) /\ n \in Nat
      BY UsersAssumption, FS_Subset, FS_CardinalityType
    <2>2. n <= MaxBatch
      OBVIOUS
    <2>3. IsFiniteSet(1..n) /\ Cardinality(1..n) = n
      <3> HIDE DEF n
      <3> QED
        BY <2>1, FS_Interval
    <2>4. Bijection(Of(v), 1..n) # {}
      <3> HIDE DEF Of
      <3>1. ExistsBijection(Of(v), 1..n)
        BY <2>1, <2>3, FS_SameCardinalityBij
      <3> QED
        BY <3>1, Fun_ExistsBij
    <2>5. PICK f \in Bijection(Of(v), 1..n) : TRUE
      BY <2>4
    <2>6. 1..n \subseteq 1..MaxBatch
      <3> HIDE DEF n
      <3> QED
        BY <2>1, <2>2, WorkersAssumption
    <2>7. f \in Injection(Of(v), 1..MaxBatch)
      <3> HIDE DEF n, Of
      <3> QED
        BY <2>5, <2>6 DEF Bijection, Injection
    <2> QED
      BY <2>7
  <1> DEFINE number == [v \in W |-> CHOOSE f \in Injection(Of(v), 1..MaxBatch) : TRUE]
             seat == [s \in S |-> <<s[1], number[s[1]][s[2]]>>]
  <1>2. ASSUME NEW v \in W PROVE number[v] \in Injection(Of(v), 1..MaxBatch)
    <2> HIDE DEF Of
    <2> QED
      BY <1>1
  <1>3. ASSUME NEW s \in S
        PROVE  /\ s[1] \in W /\ s[2] \in Of(s[1]) /\ s = <<s[1], s[2]>>
               /\ number[s[1]][s[2]] \in 1..MaxBatch
    <2>1. s[1] \in W /\ s[2] \in Of(s[1]) /\ s = <<s[1], s[2]>>
      OBVIOUS
    <2>2. number[s[1]] \in Injection(Of(s[1]), 1..MaxBatch)
      BY <1>2, <2>1
    <2> HIDE DEF number, Of
    <2> QED
      BY <2>1, <2>2 DEF Injection
  <1>4. seat \in [S -> W \X (1..MaxBatch)]
    <2> HIDE DEF number, Of
    <2> QED
      BY <1>3
  <1>5. ASSUME NEW s \in S, NEW t \in S, seat[s] = seat[t] PROVE s = t
    <2> HIDE DEF number, Of
    <2>1. s[1] = t[1] /\ number[s[1]][s[2]] = number[s[1]][t[2]]
      BY <1>5
    <2>2. number[s[1]] \in Injection(Of(s[1]), 1..MaxBatch) /\ s[2] \in Of(s[1]) /\ t[2] \in Of(s[1])
      BY <1>2, <1>3, <2>1
    <2>3. ASSUME NEW T, NEW f \in Injection(T, 1..MaxBatch), NEW a \in T, NEW b \in T, f[a] = f[b]
          PROVE  a = b
      BY <2>3 DEF Injection, IsInjective
    <2>4. s[2] = t[2]
      BY <2>1, <2>2, <2>3
    <2> QED
      BY <1>3, <2>1, <2>4
  <1>6. IsFiniteSet(W) /\ Cardinality(W) \in Nat
    BY WorkersAssumption, FS_Subset, FS_CardinalityType
  <1>7. IsFiniteSet(1..MaxBatch) /\ Cardinality(1..MaxBatch) = MaxBatch
    BY WorkersAssumption, FS_Interval
  <1>8. /\ IsFiniteSet(W \X (1..MaxBatch))
        /\ Cardinality(W \X (1..MaxBatch)) = Cardinality(W) * MaxBatch
    BY <1>6, <1>7, FS_Product
  <1>9. seat \in Injection(S, W \X (1..MaxBatch))
    <2> DEFINE T == W \X (1..MaxBatch)
    <2>1. seat \in [S -> T] /\ \A s, t \in S : seat[s] = seat[t] => s = t
      BY <1>4, <1>5
    <2> HIDE DEF seat, T
    <2>2. seat \in Injection(S, T)
      BY <2>1 DEF Injection, IsInjective
    <2> QED
      BY <2>2 DEF T
  <1> HIDE DEF seat
  <1>10. Cardinality(S) <= Cardinality(W \X (1..MaxBatch))
    BY <1>8, <1>9, FS_Injection
  <1> QED
    BY <1>8, <1>10

\* A request that ends, or that has promised nothing and does not begin to, adds nobody
\* but those it had promised.
LEMMA NoNewSeats ==
  ASSUME TypeOK, TypeOK', OverrunBounded, NEW w \in Workers,
         \A v \in Workers \ {w} : Joining(v)' = Joining(v),
         Joining(w)' = {}, Active' \subseteq Active \cup Joining(w)
  PROVE  OverrunBounded'
  <1> DEFINE J == Joining(w)
             A == Active
             P == Promised
             Q == Promised'
  <1>1. J \in SUBSET Users /\ IsFiniteSet(J) /\ Cardinality(J) \in Nat
        /\ IsFiniteSet(A) /\ Cardinality(A) \in Nat
    BY AllFinite
  <1>2. P \in SUBSET (Workers \X Users) /\ Q \in SUBSET (Workers \X Users)
    BY DEF Promised
  <1>3. IsFiniteSet(P) /\ Cardinality(P) \in Nat /\ IsFiniteSet(Q) /\ Cardinality(Q) \in Nat
    BY <1>2, AllFinite
  <1>4. Q = P \ ({w} \X J)
    BY <1>1 DEF Promised
  <1>5. ({w} \X J) \subseteq P
    BY <1>1 DEF Promised
  <1>6. Cardinality({w} \X J) = Cardinality(J) /\ IsFiniteSet({w} \X J)
    BY <1>1, SeatsOfOne
  <1>7. Cardinality(Q) = Cardinality(P) - Cardinality(J)
    <2> HIDE DEF P, Q, J
    <2> DEFINE Mine == {w} \X J
    <2>1. P \cap Mine = Mine
      BY <1>5
    <2>2. Q = P \ Mine /\ Cardinality(Mine) = Cardinality(J)
      BY <1>4, <1>6
    <2> HIDE DEF Mine
    <2>3. Cardinality(P \ Mine) = Cardinality(P) - Cardinality(P \cap Mine)
      BY <1>3, FS_Difference
    <2> QED
      BY <2>1, <2>2, <2>3
  <1>8. Cardinality(Active') <= Cardinality(A) + Cardinality(J)
    <2> DEFINE B == Active'
    <2>1. B \subseteq A \cup J
      OBVIOUS
    <2> HIDE DEF A, B, J
    <2>2. /\ IsFiniteSet(A \cup J)
          /\ Cardinality(A \cup J) = Cardinality(A) + Cardinality(J) - Cardinality(A \cap J)
      BY <1>1, FS_Union
    <2>3. IsFiniteSet(A \cap J) /\ Cardinality(A \cap J) \in Nat
      BY <1>1, FS_Intersection, FS_CardinalityType
    <2>4. Cardinality(B) <= Cardinality(A \cup J) /\ IsFiniteSet(B)
      BY <2>1, <2>2, FS_Subset
    <2>5. Cardinality(B) \in Nat
      BY <2>4, FS_CardinalityType
    <2>6. Cardinality(B) <= Cardinality(A) + Cardinality(J)
      BY <1>1, <2>2, <2>3, <2>4, <2>5
    <2> QED
      BY <2>6 DEF B
  <1>9. Cardinality(Active') \in Nat
    <2>1. Active' \in SUBSET Users
      BY DEF Active
    <2> QED
      BY <2>1, AllFinite
  <1>10. Cardinality(A) + Cardinality(P) <= MaxGroupSize + Slack
    BY DEF OverrunBounded, Slack
  <1>11. Cardinality(Active') + Cardinality(Q) <= MaxGroupSize + Slack
    <2> HIDE DEF A, P, Q, J
    <2> QED
      BY <1>1, <1>3, <1>7, <1>8, <1>9, <1>10, SlackType, SizeAssumption
  <1> QED
    BY <1>11 DEF OverrunBounded, Slack

\* While the promises and the members stay, so does the bound.
LEMMA SameSeats ==
  ASSUME OverrunBounded, \A v \in Workers : Joining(v)' = Joining(v), Active' = Active
  PROVE  OverrunBounded'
  <1>1. Promised' = Promised
    BY DEF Promised
  <1> QED
    BY <1>1 DEF OverrunBounded

\* A size check that passes: this request's newcomers fit beside the members, and every other
\* request has promised a batch at most.
LEMMA CountedSeats ==
  ASSUME TypeOK, TypeOK', NEW w \in Workers, Active' = Active,
         \A v \in Workers \ {w} : Cardinality(Joining(v)') <= MaxBatch,
         Cardinality(Active) + Cardinality(Joining(w)') <= MaxGroupSize
  PROVE  OverrunBounded'
  <1> DEFINE J == Joining(w)'
             Q == Promised'
             Mine == {w} \X J
             Rest == Q \ Mine
             W == Workers \ {w}
  <1>1. /\ J \in SUBSET Users /\ Cardinality(J) \in Nat /\ Cardinality(Active) \in Nat
        /\ \A v \in Workers : Joining(v)' \in SUBSET Users
    <2>1. \A v \in Workers : Joining(v)' \in SUBSET Users
      BY UsersAssumption DEF TypeOK, Requests, Joining
    <2> QED
      BY <2>1, AllFinite
  <1>2. Q \in SUBSET (Workers \X Users) /\ IsFiniteSet(Q) /\ Cardinality(Q) \in Nat
    <2>1. Q \in SUBSET (Workers \X Users)
      BY DEF Promised
    <2> QED
      BY <2>1, AllFinite
  <1>3. Mine \subseteq Q
    BY <1>1 DEF Promised
  <1>4. Cardinality(Mine) = Cardinality(J) /\ IsFiniteSet(Mine)
    BY <1>1, SeatsOfOne
  <1>5. Cardinality(Q) = Cardinality(J) + Cardinality(Rest) /\ Cardinality(Rest) \in Nat
    <2> HIDE DEF Mine, Q
    <2>1. Q \cap Mine = Mine
      BY <1>3
    <2>2. IsFiniteSet(Rest) /\ Cardinality(Rest) = Cardinality(Q) - Cardinality(Mine)
      BY <1>2, <2>1, FS_Difference, ZenonT(40)
    <2>3. Cardinality(Rest) \in Nat
      BY <2>2, FS_CardinalityType
    <2> HIDE DEF Rest
    <2> QED
      BY <1>1, <1>2, <1>4, <2>2, <2>3
  <1>6. Rest \in SUBSET (W \X Users)
    BY <1>1 DEF Promised
  <1>7. ASSUME NEW v \in W PROVE Cardinality({u \in Users : <<v, u>> \in Rest}) <= MaxBatch
    <2>1. {u \in Users : <<v, u>> \in Rest} = Joining(v)'
      BY <1>1 DEF Promised
    <2> QED
      BY <2>1
  <1>8. Cardinality(Rest) <= Cardinality(W) * MaxBatch
    <2> HIDE DEF Rest
    <2> QED
      BY <1>6, <1>7, BatchEach
  <1>9. Cardinality(W) = Cardinality(Workers) - 1
    BY WorkersAssumption, FS_RemoveElement
  <1>10. Cardinality(Rest) <= Slack
    BY <1>8, <1>9 DEF Slack
  <1>11. Cardinality(Active') + Cardinality(Q) <= MaxGroupSize + Slack
    <2>1. Cardinality(Active') = Cardinality(Active) /\ Cardinality(Active) + Cardinality(J) <= MaxGroupSize
      OBVIOUS
    <2> HIDE DEF J, Q, Rest
    <2> QED
      BY <1>1, <1>5, <1>10, <2>1, SlackType, SizeAssumption
  <1> QED
    BY <1>11 DEF OverrunBounded, Slack

\* The ways in which a request's step can change what it has promised.
Forgets(w) ==
    req'[w].pc \notin PastCount \cup Creating \cup {"add_count"} /\ Active' \subseteq Active \cup Joining(w)

Keeps(w) ==
    /\ req'[w].who = req[w].who /\ Active' = Active
    /\ \/ req[w].pc \in PastCount /\ req'[w].pc \in PastCount
       \/ req[w].pc \in Creating /\ req'[w].pc \in Creating

Asks(w) ==
    /\ req[w].pc = "idle" /\ Active' = Active
    /\ req'[w].pc = "add_count" /\ req'[w].who \in Batches

Counts(w) ==
    /\ req[w].pc = "add_count" /\ req'[w].pc \in PastCount /\ Active' = Active
    /\ req'[w].who = req[w].who
    /\ Cardinality(Active) + Cardinality(req[w].who) <= MaxGroupSize

Founds(w) ==
    /\ Forming /\ Active' = Active
    /\ req'[w].pc \in Creating /\ req'[w].who \in SUBSET Users /\ Creator \notin req'[w].who
    /\ 1 + Cardinality(req'[w].who) <= MaxGroupSize

LEMMA StepKinds ==
  ASSUME IInv, NEW w \in Workers, Step(w)
  PROVE  /\ \A v \in Workers \ {w} : req'[v] = req[v]
         /\ Forgets(w) \/ Keeps(w) \/ Asks(w) \/ Counts(w) \/ Founds(w)
  <1> USE DEF PastCount, Creating, At
  <1>0. req \in [Workers -> Requests] /\ req[w] \in Requests
    BY DEF IInv, TypeOK
  <1>1. CASE \E S \in Batches : CreateBegin(w, S)
    <2>1. PICK S \in Batches : CreateBegin(w, S)
      BY <1>1
    <2>2. /\ req'[w].pc = "create_blocks" /\ req'[w].who = S /\ row' = row
          /\ \A v \in Workers \ {w} : req'[v] = req[v]
      BY <1>0, <2>1 DEF CreateBegin, Begin, Idle
    <2>3. Founds(w)
      BY <2>1, <2>2 DEF Founds, CreateBegin, Active, FitsLimit, Batches
    <2> QED
      BY <2>2, <2>3
  <1>2. CASE \E by \in Users, S \in Batches : AddBegin(w, by, S)
    <2>1. PICK S \in Batches : \E by \in Users : AddBegin(w, by, S)
      BY <1>2
    <2>2. /\ req[w].pc = "idle" /\ req'[w].pc = "add_count" /\ req'[w].who = S /\ row' = row
          /\ \A v \in Workers \ {w} : req'[v] = req[v]
      BY <1>0, <2>1 DEF AddBegin, Begin, Idle
    <2>3. Asks(w)
      BY <2>1, <2>2 DEF Asks, Active
    <2> QED
      BY <2>2, <2>3
  <1>3. CASE \/ \E by, u \in Users : RemoveBegin(w, by, u)
             \/ \E u \in Users : LeaveBegin(w, u)
             \/ \E by, u \in Users, newRole \in Roles : RoleBegin(w, by, u, newRole)
    <2>1. /\ req'[w].pc \in {"remove_find", "leave_admins", "leave_find", "role_find"} /\ row' = row
          /\ \A v \in Workers \ {w} : req'[v] = req[v]
      <3>1. CASE \E by, u \in Users : RemoveBegin(w, by, u)
        BY <1>0, <3>1 DEF RemoveBegin, Begin, Idle
      <3>2. CASE \E u \in Users : LeaveBegin(w, u)
        BY <1>0, <3>2 DEF LeaveBegin, Begin, Idle
      <3>3. CASE \E by, u \in Users, newRole \in Roles : RoleBegin(w, by, u, newRole)
        BY <1>0, <3>3 DEF RoleBegin, Begin, Idle
      <3> QED
        BY <1>3, <3>1, <3>2, <3>3
    <2>2. Forgets(w)
      BY <2>1 DEF Forgets, Active
    <2> QED
      BY <2>1, <2>2
  <1>4. CASE \/ CreateBlocks(w) \/ AddCount(w) \/ AddExisting(w) \/ AddBlocks(w)
             \/ AddActive(w) \/ AddPrevious(w) \/ RemoveFind(w) \/ LeaveAdmins(w)
             \/ LeaveFind(w) \/ RoleFind(w)
    <2>1. /\ row' = row /\ \A v \in Workers \ {w} : req'[v] = req[v]
          /\ \/ req'[w] = Idle
             \/ /\ req'[w].who = req[w].who
                /\ \/ req[w].pc = "create_blocks" /\ req'[w].pc = "create_commit"
                   \/ /\ req[w].pc = "add_count" /\ req'[w].pc = "add_existing"
                      /\ FitsLimit(Cardinality(Active), Cardinality(req[w].who))
                   \/ req[w].pc \in PastCount /\ req'[w].pc \in PastCount
                   \/ req'[w].pc \in {"remove_commit", "leave_find", "leave_commit", "role_commit"}
      <3>1. CASE CreateBlocks(w)
        BY <1>0, <3>1 DEF CreateBlocks, Check, GoTo, Requests
      <3>2. CASE AddCount(w)
        BY <1>0, <3>2 DEF AddCount, Check, GoTo, Requests
      <3>3. CASE AddExisting(w)
        BY <1>0, <3>3 DEF AddExisting, Check, GoSeeing
      <3>4. CASE AddBlocks(w)
        BY <1>0, <3>4 DEF AddBlocks, Check, GoSeeing
      <3>5. CASE AddActive(w)
        BY <1>0, <3>5 DEF AddActive, Check, GoTo, Requests
      <3>6. CASE AddPrevious(w)
        BY <1>0, <3>6 DEF AddPrevious, Check, GoSeeing
      <3>7. CASE RemoveFind(w) \/ LeaveAdmins(w) \/ LeaveFind(w) \/ RoleFind(w)
        BY <1>0, <3>7 DEF RemoveFind, LeaveAdmins, LeaveFind, RoleFind, Check, GoTo, Requests
      <3> QED
        BY <1>4, <3>1, <3>2, <3>3, <3>4, <3>5, <3>6, <3>7
    <2>2. Active' = Active
      BY <2>1 DEF Active
    <2> QED
      BY <2>1, <2>2 DEF Forgets, Keeps, Counts, FitsLimit, Idle
  <1>5. CASE CreateCommit(w) \/ AddCommit(w) \/ RemoveCommit(w) \/ LeaveCommit(w) \/ RoleCommit(w)
    <2>1. req' = [req EXCEPT ![w] = Idle]
      BY <1>5 DEF CreateCommit, AddCommit, RemoveCommit, LeaveCommit, RoleCommit, Commit, Check
    <2>2. req'[w] = Idle /\ \A v \in Workers \ {w} : req'[v] = req[v]
      BY <1>0, <2>1
    <2>3. Active' \subseteq Active \cup Joining(w)
      <3>1. CASE CreateCommit(w)
        BY <3>1 DEF CreateCommit, Active, Joining
      <3>2. CASE AddCommit(w)
        BY <3>2 DEF AddCommit, Check, Active, Joining
      <3>3. CASE RemoveCommit(w) \/ LeaveCommit(w) \/ RoleCommit(w)
        BY <3>3 DEF RemoveCommit, LeaveCommit, RoleCommit, Leave, Active
      <3> QED
        BY <1>5, <3>1, <3>2, <3>3
    <2> QED
      BY <2>2, <2>3 DEF Forgets, Idle
  <1> QED
    BY <1>1, <1>2, <1>3, <1>4, <1>5 DEF Step

LEMMA SeatsStep == IInv /\ IInv' /\ SeatsFit /\ [Next]_vars => SeatsFit'
  <1> SUFFICES ASSUME IInv, IInv', SeatsFit, [Next]_vars PROVE SeatsFit'
    OBVIOUS
  <1>0. TypeOK /\ TypeOK' /\ BatchesOnly /\ OverrunBounded
    BY DEF IInv, SeatsFit
  <1>1. CASE (\E p \in Blockable : BlockUser(p[1], p[2]) \/ UnblockUser(p[1], p[2])) \/ UNCHANGED vars
    <2>1. UNCHANGED <<row, req>>
      BY <1>1 DEF BlockUser, UnblockUser, vars
    <2>2. Active' = Active /\ (\A v \in Workers : Joining(v)' = Joining(v)) /\ BatchesOnly'
      BY <1>0, <2>1 DEF Active, Joining, BatchesOnly
    <2> QED
      BY <1>0, <2>2, SameSeats DEF SeatsFit
  <1>2. ASSUME NEW w \in Workers, Step(w) PROVE SeatsFit'
    <2>1. /\ \A v \in Workers \ {w} : req'[v] = req[v]
          /\ Forgets(w) \/ Keeps(w) \/ Asks(w) \/ Counts(w) \/ Founds(w)
      BY <1>2, StepKinds
    <2>2. \A v \in Workers \ {w} : Joining(v)' = Joining(v)
      BY <2>1 DEF Joining
    <2>3. BatchesOnly'
      <3> SUFFICES ASSUME NEW v \in Workers, req'[v].pc \in PastCount \cup {"add_count"}
                   PROVE  Cardinality(req'[v].who) <= MaxBatch
        BY DEF BatchesOnly
      <3>1. CASE v # w
        BY <1>0, <2>1, <3>1 DEF BatchesOnly
      <3>2. CASE v = w
        <4>1. \/ req'[w].who \in Batches
              \/ req[w].pc \in PastCount \cup {"add_count"} /\ req'[w].who = req[w].who
          BY <2>1, <3>2 DEF Forgets, Keeps, Asks, Counts, Founds, PastCount, Creating
        <4> QED
          BY <1>0, <3>2, <4>1 DEF BatchesOnly, Batches
      <3> QED
        BY <3>1, <3>2
    <2>4. CASE Forgets(w)
      <3>1. Joining(w)' = {} /\ Active' \subseteq Active \cup Joining(w)
        BY <2>4 DEF Forgets, Joining, PastCount, Creating
      <3> QED
        BY <1>0, <2>2, <2>3, <3>1, NoNewSeats DEF SeatsFit
    <2>5. CASE Keeps(w)
      <3>1. Joining(w)' = Joining(w) /\ Active' = Active
        BY <2>5 DEF Keeps, Joining, PastCount, Creating
      <3> QED
        BY <1>0, <2>2, <2>3, <3>1, SameSeats DEF SeatsFit
    <2>6. CASE Asks(w)
      <3>1. Joining(w)' = {} /\ Joining(w) = {} /\ Active' = Active
        BY <2>6 DEF Asks, Joining
      <3> QED
        BY <1>0, <2>2, <2>3, <3>1, SameSeats DEF SeatsFit
    <2>7. CASE Counts(w)
      <3>1. Joining(w)' = req[w].who /\ Active' = Active
        BY <2>7 DEF Counts, Joining, PastCount
      <3>2. ASSUME NEW v \in Workers \ {w} PROVE Cardinality(Joining(v)') <= MaxBatch
        <4>1. req[v].pc \notin Creating
          BY <1>0, <2>7 DEF IInv, CreationIsAlone, Counts, Creating
        <4>2. Joining(v) = IF req[v].pc \in PastCount THEN req[v].who ELSE {}
          BY <4>1 DEF Joining, PastCount, Creating
        <4>3. Cardinality(Joining(v)) <= MaxBatch
          BY <1>0, <4>2, WorkersAssumption, FS_EmptySet DEF BatchesOnly
        <4> QED
          BY <2>2, <4>3
      <3> QED
        BY <1>0, <2>3, <2>7, <3>1, <3>2, CountedSeats DEF SeatsFit, Counts
    <2>8. CASE Founds(w)
      <3>1. /\ Active = {} /\ Active' = Active
            /\ \A v \in Workers \ {w} : Joining(v)' = {}
        <4>1. \A v \in Workers : Joining(v) = {}
          BY <2>8 DEF Founds, Forming, At, Joining
        <4> QED
          BY <2>2, <2>8, <4>1 DEF Founds, Forming, Active
      <3>2. Joining(w)' = req'[w].who \cup {Creator}
        BY <2>8 DEF Founds, Joining, Creating
      <3>3. Cardinality(Joining(w)') = 1 + Cardinality(req'[w].who) /\ Cardinality(Joining(w)') \in Nat
        <4> DEFINE S == req'[w].who
        <4>1. IsFiniteSet(S) /\ Creator \notin S /\ Cardinality(S) \in Nat
          BY <2>8, UsersAssumption, FS_Subset, FS_CardinalityType DEF Founds
        <4> HIDE DEF S
        <4>2. Cardinality(S \cup {Creator}) = Cardinality(S) + 1
          BY <4>1, FS_AddElement
        <4> QED
          BY <3>2, <4>1, <4>2 DEF S
      <3>4. Cardinality(Active) + Cardinality(Joining(w)') <= MaxGroupSize
        BY <2>8, <3>1, <3>3, FS_EmptySet DEF Founds
      <3>5. \A v \in Workers \ {w} : Cardinality(Joining(v)') <= MaxBatch
        BY <3>1, WorkersAssumption, FS_EmptySet
      <3> QED
        BY <1>0, <2>3, <3>1, <3>4, <3>5, CountedSeats DEF SeatsFit
    <2> QED
      BY <2>1, <2>4, <2>5, <2>6, <2>7, <2>8
  <1> QED
    BY <1>1, <1>2 DEF Next

\* OverrunBounded for any accounts, requests, limit and batch: overlapping additions and the
\* creation of the group can exceed MAX_GROUP_SIZE by a batch for each other request, no more.
THEOREM OverrunsStayBounded == Spec => []OverrunBounded
  <1>1. Init => SeatsFit
    <2> SUFFICES ASSUME Init PROVE SeatsFit
      OBVIOUS
    <2>1. Active = {} /\ \A w \in Workers : Joining(w) = {} /\ req[w].pc = "idle"
      BY DEF Init, Idle, Active, Joining
    <2>2. Promised = {}
      BY <2>1 DEF Promised
    <2>3. Cardinality(Active) + Cardinality(Promised) <= MaxGroupSize + Slack
      BY <2>1, <2>2, FS_EmptySet, SlackType, SizeAssumption
    <2> QED
      BY <2>1, <2>3 DEF SeatsFit, BatchesOnly, PastCount, OverrunBounded, Slack
  <1>2. SeatsFit => OverrunBounded
    BY DEF SeatsFit
  <1> QED
    BY <1>1, <1>2, Invariance, SeatsStep, PTL DEF Spec
=============================================================================
