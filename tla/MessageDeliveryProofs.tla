----------------------- MODULE MessageDeliveryProofs -----------------------
(***************************************************************************)
(* That no interleaving of sends, connections, calls and stopping servers  *)
(* loses a queued message or makes a status row lie, for any recipients,   *)
(* messages, sockets and inbox limit.                                      *)
(***************************************************************************)
EXTENDS MessageDelivery, TLAPS, SequenceTheorems

----------------------------------------------------------------------------
(* The inductive invariant.                                                *)

\* The status rows of m are there.
Created(m) == job[m].pc \notin {"new", "create"}

\* A participant is served once: it is to be served, being served or served.
JobFits(m) ==
    /\ job[m].to \cap job[m].at = {}
    /\ (job[m].to \cup job[m].at) \cap job[m].sent = {}
    /\ job[m].pc \in {"new", "create", "lookup"} => job[m].at = {} /\ job[m].sent = {}
    /\ job[m].pc \in {"lookup"} => job[m].to = {}
    /\ job[m].pc = "route" => job[m].at = {}

\* An inbox holds what was queued for the user.
InboxFits(u) == \A m \in Queued(u) : u \in job[m].sent

\* What a drain has fetched was sent; a message past its status row was received or is counted
\* as missed, and is marked before it is removed.
DrainFits(s) ==
    LET m == Head(conn[s].batch)
        u == Owner[s]
    IN  /\ \A i \in 1..Len(conn[s].batch) : Created(conn[s].batch[i])
        /\ conn[s].pc \in {"drain", "mark", "remove"} => conn[s].batch # <<>>
        /\ conn[s].pc \in {"mark", "remove"} => HasRow(m, u) /\ (m \in received[u] \/ <<m, u>> \in missed)
        /\ conn[s].pc = "remove" => status[m][u] \in Marks

\* A key is set while its socket is open or its DEL still to come.
SocketFits(s) == conn[s].pc = "joined" => conn[s].live \/ s \in bye

\* A call writes to rows that are there.
CallFits(c) == c.pc = "write" => \A m \in c.on : HasRow(m, c.user)

\* Where a delivery mark on its way would overwrite READ, the race is on record.
MarksFit == \A m \in Messages, u \in Users :
                MarkInFlight(m, u) /\ status[m][u] = "READ" => <<m, u>> \in raced

IInv ==
    /\ TypeOK
    /\ \A m \in Messages : JobFits(m)
    /\ \A u \in Users : InboxFits(u)
    /\ \A s \in Sockets : DrainFits(s) /\ SocketFits(s)
    /\ \A c \in calls : CallFits(c)
    /\ MarksFit
    /\ NothingLost
    /\ SenderToldTruth
    /\ KeyHasSocket

USE OwnerAssumption, MembersAssumption, InboxLimitAssumption, ClientOpsAssumption, FaultsAssumption

----------------------------------------------------------------------------
(* Sequences. *)

LEMMA AppendFacts ==
    ASSUME NEW q \in Seq(Messages), NEW m \in Messages
    PROVE  /\ Append(q, m) \in Seq(Messages)
           /\ Range(Append(q, m)) = Range(q) \cup {m}
           /\ IsInjective(q) /\ m \notin Range(q) => IsInjective(Append(q, m))
<1> DEFINE r == Append(q, m)
<1>1. r \in Seq(Messages) /\ Len(r) = Len(q) + 1 /\ Len(q) \in Nat
  OBVIOUS
<1>2. (\A i \in 1..Len(q) : r[i] = q[i]) /\ r[Len(q) + 1] = m
  OBVIOUS
<1>3. DOMAIN r = 1..Len(q) + 1 /\ DOMAIN q = 1..Len(q)
  OBVIOUS
<1> HIDE DEF r
<1>4. Range(r) = Range(q) \cup {m}
  BY <1>1, <1>2, <1>3 DEF Range
<1>5. IsInjective(q) /\ m \notin Range(q) => IsInjective(r)
  BY <1>1, <1>2, <1>3 DEF Range, IsInjective
<1> QED
  BY <1>1, <1>4, <1>5 DEF r

LEMMA WithoutFacts ==
    ASSUME NEW q \in Seq(Messages), NEW m \in Messages, IsInjective(q)
    PROVE  /\ Without(q, m) \in Seq(Messages)
           /\ Range(Without(q, m)) = Range(q) \ {m}
           /\ IsInjective(Without(q, m))
<1>1. CASE m \notin Range(q)
  BY <1>1 DEF Without
<1>2. CASE m \in Range(q)
  <2> DEFINE i == CHOOSE j \in DOMAIN q : q[j] = m
             a == SubSeq(q, 1, i - 1)
             b == SubSeq(q, i + 1, Len(q))
             r == a \o b
  <2>1. i \in DOMAIN q /\ q[i] = m
    BY <1>2 DEF Range
  <2>2. DOMAIN q = 1..Len(q) /\ Len(q) \in Nat /\ \A j \in 1..Len(q) : q[j] \in Messages
    OBVIOUS
  <2>3. Without(q, m) = r
    BY <1>2 DEF Without, RemoveAt
  <2> HIDE DEF i
  <2>4. i \in 1..Len(q)
    BY <2>1, <2>2
  <2>5. a \in Seq(Messages) /\ Len(a) = i - 1 /\ \A j \in 1..i - 1 : a[j] = q[j]
    BY <2>2, <2>4, SubSeqProperties
  <2>6. b \in Seq(Messages) /\ Len(b) = Len(q) - i /\ \A j \in 1..Len(q) - i : b[j] = q[i + j]
    <3>1. i + 1 \in Int /\ Len(q) \in Int /\ (\A j \in i + 1..Len(q) : q[j] \in Messages)
      BY <2>2, <2>4
    <3>2. /\ b \in Seq(Messages)
          /\ Len(b) = IF i + 1 <= Len(q) THEN Len(q) - (i + 1) + 1 ELSE 0
          /\ \A j \in 1..Len(q) - (i + 1) + 1 : b[j] = q[i + 1 + j - 1]
      BY <3>1, SubSeqProperties
    <3> HIDE DEF b
    <3>3. Len(q) - (i + 1) + 1 = Len(q) - i /\ (i + 1 <= Len(q) \/ Len(q) - i = 0)
      <4>1. ASSUME NEW n \in Nat, NEW k \in 1..n PROVE n - (k + 1) + 1 = n - k /\ (k + 1 <= n \/ n - k = 0)
        OBVIOUS
      <4> QED
        BY <2>2, <2>4, <4>1, Zenon
    <3>4. \A j \in 1..Len(q) - i : i + 1 + j - 1 = i + j
      BY <2>2, <2>4
    <3>5. Len(b) = Len(q) - i
      BY <3>2, <3>3
    <3> QED
      BY <3>2, <3>3, <3>4, <3>5
  <2> HIDE DEF a, b
  <2>0. /\ r \in Seq(Messages) /\ Len(r) = Len(a) + Len(b)
        /\ \A j \in 1..Len(a) + Len(b) : r[j] = IF j <= Len(a) THEN a[j] ELSE b[j - Len(a)]
    BY <2>5, <2>6, ConcatProperties
  <2> HIDE DEF r
  <2>7. Len(r) = Len(q) - 1 /\ DOMAIN r = 1..Len(q) - 1 /\ r \in Seq(Messages)
    BY <2>2, <2>4, <2>5, <2>6, <2>0
  <2>8. ASSUME NEW j \in 1..Len(q) - 1 PROVE r[j] = IF j < i THEN q[j] ELSE q[j + 1]
    <3>1. CASE j < i
      <4>1. j \in 1..Len(a) + Len(b) /\ j <= Len(a) /\ j \in 1..i - 1
        BY <2>2, <2>4, <2>5, <2>6, <3>1
      <4> QED
        BY <2>0, <2>5, <3>1, <4>1
    <3>2. CASE ~(j < i)
      <4>0. /\ j \in 1..(i - 1) + (Len(q) - i) /\ ~(j <= i - 1)
            /\ j - (i - 1) \in 1..Len(q) - i
        BY <2>2, <2>4, <3>2
      <4>1. r[j] = b[j - (i - 1)] /\ j - (i - 1) \in 1..Len(q) - i
        <5>1. Len(a) = i - 1 /\ Len(b) = Len(q) - i
          BY <2>5, <2>6
        <5>2. \A k \in 1..(i - 1) + (Len(q) - i) : r[k] = IF k <= i - 1 THEN a[k] ELSE b[k - (i - 1)]
          BY <2>0, <5>1
        <5> QED
          BY <4>0, <5>2
      <4>2. i + (j - (i - 1)) = j + 1
        BY <2>2, <2>4
      <4> QED
        BY <2>6, <3>2, <4>1, <4>2
    <3> QED
      BY <3>1, <3>2
  <2>9. \A j, k \in 1..Len(q) : q[j] = q[k] => j = k
    BY <2>2 DEF IsInjective
  <2>10. IsInjective(r)
    BY <2>2, <2>4, <2>7, <2>8, <2>9 DEF IsInjective
  <2>11. ASSUME NEW x \in Range(r) PROVE x \in Range(q) \ {m}
    <3>1. PICK j \in 1..Len(q) - 1 : x = r[j]
      BY <2>7 DEF Range
    <3>2. PICK k \in 1..Len(q) : x = q[k] /\ k # i
      BY <2>2, <2>4, <2>8, <3>1
    <3> QED
      BY <2>1, <2>2, <2>4, <2>9, <3>2 DEF Range
  <2>12. ASSUME NEW x \in Range(q), x # m PROVE x \in Range(r)
    <3>1. PICK k \in 1..Len(q) : x = q[k]
      BY <2>2 DEF Range
    <3>2. CASE k < i
      BY <2>2, <2>4, <2>7, <2>8, <3>1, <3>2, SMTT(30) DEF Range
    <3>3. CASE k > i
      <4>1. k - 1 \in 1..Len(q) - 1 /\ ~(k - 1 < i)
        BY <2>2, <2>4, <3>3
      <4>2. r[k - 1] = q[k]
        BY <2>2, <2>8, <4>1
      <4> QED
        BY <2>7, <3>1, <4>1, <4>2 DEF Range
    <3> QED
      BY <2>1, <2>2, <2>4, <2>12, <3>1, <3>2, <3>3
  <2> QED
    BY <2>3, <2>7, <2>10, <2>11, <2>12
<1> QED
  BY <1>1, <1>2

LEMMA OldestFacts ==
    ASSUME NEW q \in Seq(Messages)
    PROVE  /\ Oldest(q) \in Seq(Messages)
           /\ \A i \in 1..Len(Oldest(q)) : Oldest(q)[i] \in Range(q)
<1> DEFINE n == IF Len(q) < InboxLimit THEN Len(q) ELSE InboxLimit
<1>1. n \in Nat /\ n <= Len(q) /\ Len(q) \in Nat
  OBVIOUS
<1>2. \A i \in 1..n : q[i] \in Messages
  BY <1>1
<1> HIDE DEF n
<1>3. SubSeq(q, 1, n) \in Seq(Messages) /\ Len(SubSeq(q, 1, n)) = n /\ \A i \in 1..n : SubSeq(q, 1, n)[i] = q[i]
  BY <1>1, <1>2, SubSeqProperties
<1>4. Oldest(q) = SubSeq(q, 1, n)
  BY DEF Oldest, n
<1> QED
  BY <1>1, <1>3, <1>4 DEF Range

LEMMA TailFacts ==
    ASSUME NEW b \in Seq(Messages), b # <<>>
    PROVE  /\ Head(b) \in Messages /\ Len(b) \in Nat \ {0} /\ Head(b) = b[1]
           /\ Tail(b) \in Seq(Messages)
           /\ \A i \in 1..Len(Tail(b)) : i + 1 \in 1..Len(b) /\ Tail(b)[i] = b[i + 1]
  OBVIOUS

----------------------------------------------------------------------------
(* Which steps write which variable. *)

JobStep == \E m \in Messages :
    \/ \E via \in {"socket", "rest"} : SendBegin(m, via)
    \/ SendCreate(m) \/ SendLookup(m) \/ CrashSend(m)
    \/ \E u \in Users : RouteCheck(m, u) \/ RouteEmit(m, u) \/ RouteQueue(m, u)

StatusStep ==
    \/ \E m \in Messages : SendCreate(m)
    \/ \E s \in Sockets : MarksHead(s)
    \/ \E c \in calls : Writes(c)

InboxStep ==
    \/ \E m \in Messages, u \in Users : RouteQueue(m, u)
    \/ \E s \in Sockets : RemovesHead(s)
    \/ \E u \in Users : Expire(u)

SocketStep == \E s \in Sockets :
    \/ Connect(s) \/ ConnStep(s) \/ Disconnect(s) \/ SetOffline(s) \/ CrashSocket(s)
    \/ ConnRejected(s) \/ SetOfflineRejected(s)

ClientStep ==
    \/ \E op \in {"deliver", "read"}, u \in Users, m \in Messages : ClientMarks(op, u, m)
    \/ \E u \in Users : ClientReadsAll(u)

CallsStep ==
    \/ \E m \in Messages, u \in Users : RouteEmit(m, u)
    \/ ClientStep
    \/ \E c \in calls : CallLook(c) \/ CallWrite(c) \/ CrashCall(c)

ToldStep ==
    \/ \E s \in Sockets : DrainRemove(s)
    \/ \E c \in calls : CallLook(c) \/ CallWrite(c)

SeenStep ==
    \/ \E m \in Messages, u \in Users : RouteEmit(m, u)
    \/ \E s \in Sockets : DrainLook(s) \/ ConnRejected(s)
    \/ \E u \in Users : Expire(u)

Frame ==
    /\ UNCHANGED member \/ \E u \in Users : ChangeMember(u)
    /\ UNCHANGED job \/ JobStep
    /\ UNCHANGED status \/ StatusStep
    /\ UNCHANGED inbox \/ InboxStep
    /\ UNCHANGED <<online, conn, bye, stranded>> \/ SocketStep
    /\ UNCHANGED calls \/ CallsStep
    /\ UNCHANGED told \/ ToldStep
    /\ UNCHANGED <<received, missed>> \/ SeenStep
    /\ UNCHANGED raced \/ \E c \in calls : Writes(c)

\* Every step writes only what its action says.
LEMMA WhoWrites == [Next]_vars => Frame
<1> SUFFICES ASSUME [Next]_vars PROVE Frame
  OBVIOUS
<1>1. CASE \E m \in Messages : (\E via \in {"socket", "rest"} : SendBegin(m, via)) \/ SendLookup(m) \/ CrashSend(m)
  <2>1. JobStep
    BY <1>1 DEF JobStep
  <2>2. UNCHANGED <<member, status, inbox, calls, told>> /\ UNCHANGED <<socketVars, historyVars>>
    BY <1>1 DEF SendBegin, SendLookup, CrashSend
  <2> QED
    BY <2>1, <2>2 DEF Frame, socketVars, historyVars
<1>2. ASSUME NEW m \in Messages, SendCreate(m) PROVE Frame
  <2>1. JobStep /\ StatusStep
    BY <1>2 DEF JobStep, StatusStep
  <2>2. UNCHANGED <<member, inbox, calls, told>> /\ UNCHANGED <<socketVars, historyVars>>
    BY <1>2 DEF SendCreate
  <2> QED
    BY <2>1, <2>2 DEF Frame, socketVars, historyVars
<1>3. ASSUME NEW m \in Messages, NEW u \in Users, RouteCheck(m, u) PROVE Frame
  <2>1. JobStep
    BY <1>3 DEF JobStep
  <2>2. UNCHANGED <<member, status, inbox, calls, told>> /\ UNCHANGED <<socketVars, historyVars>>
    BY <1>3 DEF RouteCheck
  <2> QED
    BY <2>1, <2>2 DEF Frame, socketVars, historyVars
<1>4. ASSUME NEW m \in Messages, NEW u \in Users, RouteEmit(m, u) PROVE Frame
  <2>1. JobStep /\ CallsStep /\ SeenStep
    BY <1>4 DEF JobStep, CallsStep, SeenStep
  <2>2. UNCHANGED <<member, status, inbox, told, raced>> /\ UNCHANGED socketVars
    BY <1>4 DEF RouteEmit
  <2> QED
    BY <2>1, <2>2 DEF Frame, socketVars
<1>5. ASSUME NEW m \in Messages, NEW u \in Users, RouteQueue(m, u) PROVE Frame
  <2>1. JobStep /\ InboxStep
    BY <1>5 DEF JobStep, InboxStep
  <2>2. UNCHANGED <<member, status, calls, told>> /\ UNCHANGED <<socketVars, historyVars>>
    BY <1>5 DEF RouteQueue
  <2> QED
    BY <2>1, <2>2 DEF Frame, socketVars, historyVars
<1>6. CASE \E s \in Sockets : Connect(s) \/ SetOnline(s) \/ DrainFetch(s) \/ Disconnect(s) \/ SetOffline(s)
                                \/ CrashSocket(s) \/ SetOfflineRejected(s)
  <2>1. SocketStep
    BY <1>6 DEF SocketStep, ConnStep
  <2>2. UNCHANGED <<status, inbox, calls, told>> /\ UNCHANGED <<sendVars, historyVars>>
    BY <1>6 DEF Connect, SetOnline, DrainFetch, Disconnect, SetOffline, SetOfflineRejected, CrashSocket
  <2> QED
    BY <2>1, <2>2 DEF Frame, sendVars, historyVars
<1>7. ASSUME NEW s \in Sockets, DrainLook(s) PROVE Frame
  <2>1. SocketStep /\ SeenStep
    BY <1>7 DEF SocketStep, ConnStep, SeenStep
  <2>2. UNCHANGED <<status, inbox, calls, told, raced>> /\ UNCHANGED sendVars
    BY <1>7 DEF DrainLook
  <2> QED
    BY <2>1, <2>2 DEF Frame, sendVars
<1>8. ASSUME NEW s \in Sockets, DrainMark(s) PROVE Frame
  <2>1. SocketStep /\ StatusStep
    BY <1>8 DEF SocketStep, ConnStep, StatusStep, DrainMark
  <2>2. UNCHANGED <<inbox, calls, told>> /\ UNCHANGED <<sendVars, historyVars>>
    BY <1>8 DEF DrainMark
  <2> QED
    BY <2>1, <2>2 DEF Frame, sendVars, historyVars
<1>9. ASSUME NEW s \in Sockets, DrainRemove(s) PROVE Frame
  <2>1. SocketStep /\ InboxStep /\ ToldStep
    BY <1>9 DEF SocketStep, ConnStep, InboxStep, ToldStep, DrainRemove
  <2>2. UNCHANGED <<status, calls>> /\ UNCHANGED <<sendVars, historyVars>>
    BY <1>9 DEF DrainRemove
  <2> QED
    BY <2>1, <2>2 DEF Frame, sendVars, historyVars
<1>10. CASE ClientStep
  <2>1. CallsStep
    BY <1>10 DEF CallsStep
  <2>2. UNCHANGED <<status, inbox, told>> /\ UNCHANGED <<sendVars, socketVars, historyVars>>
    BY <1>10 DEF ClientStep, ClientMarks, ClientReadsAll, CallBegin
  <2> QED
    BY <2>1, <2>2 DEF Frame, sendVars, socketVars, historyVars
<1>11. ASSUME NEW c \in calls, CallLook(c) PROVE Frame
  <2>1. CallsStep /\ ToldStep
    BY <1>11 DEF CallsStep, ToldStep
  <2>2. UNCHANGED <<status, inbox>> /\ UNCHANGED <<sendVars, socketVars, historyVars>>
    BY <1>11 DEF CallLook
  <2> QED
    BY <2>1, <2>2 DEF Frame, sendVars, socketVars, historyVars
<1>12. ASSUME NEW c \in calls, CallWrite(c) PROVE Frame
  <2>1. CallsStep /\ StatusStep /\ ToldStep /\ Writes(c)
    BY <1>12 DEF CallsStep, StatusStep, ToldStep, CallWrite
  <2>2. UNCHANGED <<inbox, received, missed>> /\ UNCHANGED <<sendVars, socketVars>>
    BY <1>12 DEF CallWrite
  <2> QED
    BY <1>12, <2>1, <2>2 DEF Frame, sendVars, socketVars
<1>13. ASSUME NEW u \in Users, ChangeMember(u) PROVE Frame
  <2>1. UNCHANGED <<job, status, inbox, calls, told>> /\ UNCHANGED <<socketVars, historyVars>>
    BY <1>13 DEF ChangeMember
  <2> QED
    BY <1>13, <2>1 DEF Frame, socketVars, historyVars
<1>14. ASSUME NEW u \in Users, Expire(u) PROVE Frame
  <2>1. InboxStep /\ SeenStep
    BY <1>14 DEF InboxStep, SeenStep
  <2>2. UNCHANGED <<status, calls, told, raced>> /\ UNCHANGED <<sendVars, socketVars>>
    BY <1>14 DEF Expire
  <2> QED
    BY <2>1, <2>2 DEF Frame, sendVars, socketVars
<1>15. CASE UNCHANGED vars
  BY <1>15 DEF vars, Frame
<1>16. ASSUME NEW s \in Sockets, ConnRejected(s) PROVE Frame
  <2>1. SocketStep /\ SeenStep
    BY <1>16 DEF SocketStep, SeenStep
  <2>2. (UNCHANGED status \/ StatusStep) /\ (UNCHANGED inbox \/ InboxStep)
    BY <1>16 DEF ConnRejected, StatusStep, InboxStep
  <2>3. UNCHANGED <<calls, told, raced>> /\ UNCHANGED sendVars
    BY <1>16 DEF ConnRejected
  <2> QED
    BY <2>1, <2>2, <2>3 DEF Frame, sendVars
<1>17. ASSUME NEW c \in calls, CrashCall(c) PROVE Frame
  <2>1. CallsStep /\ (UNCHANGED status \/ StatusStep) /\ (UNCHANGED raced \/ Writes(c))
    BY <1>17 DEF CallsStep, StatusStep, CrashCall
  <2>2. UNCHANGED <<inbox, told, received, missed>> /\ UNCHANGED <<sendVars, socketVars>>
    BY <1>17 DEF CrashCall
  <2> QED
    BY <2>1, <2>2 DEF Frame, sendVars, socketVars
<1> QED
  BY <1>1, <1>2, <1>3, <1>4, <1>5, <1>6, <1>7, <1>8, <1>9, <1>10, <1>11, <1>12, <1>13, <1>14, <1>15,
     <1>16, <1>17
     DEF Next, SendStep, ConnStep, CallStep, ClientStep

----------------------------------------------------------------------------
(* Jobs. *)

\* Where a request has got to only grows, and only it moves.
Advances(m, j) ==
    /\ j \in Jobs
    /\ job' = [job EXCEPT ![m] = j]
    /\ job[m].sent \subseteq j.sent
    /\ Created(m) => j.pc \notin {"new", "create"}
    /\ j.to \cap j.at = {} /\ (j.to \cup j.at) \cap j.sent = {}
    /\ j.pc \in {"new", "create", "lookup"} => j.at = {} /\ j.sent = {}
    /\ j.pc = "lookup" => j.to = {}
    /\ j.pc = "route" => j.at = {}

LEMMA JobStepAdvances ==
    ASSUME TypeOK, \A m \in Messages : JobFits(m), JobStep
    PROVE  \E m \in Messages, j \in Jobs : Advances(m, j)
<1>1. PICK m \in Messages :
        \/ \E via \in {"socket", "rest"} : SendBegin(m, via)
        \/ SendCreate(m) \/ SendLookup(m) \/ CrashSend(m)
        \/ \E u \in Users : RouteCheck(m, u) \/ RouteEmit(m, u) \/ RouteQueue(m, u)
  BY DEF JobStep
<1>2. job \in [Messages -> Jobs] /\ job[m] \in Jobs /\ JobFits(m) /\ member \subseteq Users
  BY DEF TypeOK
<1>3. ASSUME NEW via \in {"socket", "rest"}, SendBegin(m, via) PROVE \E j \in Jobs : Advances(m, j)
  <2> DEFINE j == [job[m] EXCEPT !.pc = "create", !.via = via, !.to = member]
  <2>1. job[m].pc = "new" /\ job' = [job EXCEPT ![m] = j]
    BY <1>3 DEF SendBegin
  <2>2. /\ j \in Jobs /\ j.pc = "create" /\ j.to = member /\ j.at = job[m].at /\ j.sent = job[m].sent
    BY <1>2 DEF Jobs
  <2> HIDE DEF j
  <2>3. Advances(m, j)
    BY <1>2, <2>1, <2>2 DEF Advances, Created, JobFits
  <2> QED
    BY <2>2, <2>3
<1>4. CASE SendCreate(m)
  <2> DEFINE pc == IF job[m].via = "rest" THEN "stored" ELSE "lookup"
             j == [job[m] EXCEPT !.pc = pc, !.to = {}]
  <2>1. job[m].pc = "create" /\ job' = [job EXCEPT ![m] = j] /\ pc \in {"stored", "lookup"}
    BY <1>2, <1>4 DEF SendCreate
  <2> HIDE DEF pc
  <2>2. /\ j \in Jobs /\ j.pc = pc /\ j.to = {} /\ j.at = job[m].at /\ j.sent = job[m].sent
    BY <1>2, <2>1 DEF Jobs
  <2> HIDE DEF j
  <2>3. Advances(m, j)
    BY <1>2, <2>1, <2>2 DEF Advances, Created, JobFits
  <2> QED
    BY <2>2, <2>3
<1>5. CASE SendLookup(m)
  <2> DEFINE j == [job[m] EXCEPT !.pc = "route", !.to = member]
  <2>1. job[m].pc = "lookup" /\ job' = [job EXCEPT ![m] = j]
    BY <1>2, <1>5 DEF SendLookup
  <2>2. /\ j \in Jobs /\ j.pc = "route" /\ j.to = member /\ j.at = job[m].at /\ j.sent = job[m].sent
    BY <1>2 DEF Jobs
  <2> HIDE DEF j
  <2>3. Advances(m, j)
    BY <1>2, <2>1, <2>2 DEF Advances, Created, JobFits
  <2> QED
    BY <2>2, <2>3
<1>6. CASE CrashSend(m)
  <2> DEFINE j == [job[m] EXCEPT !.pc = "stopped"]
  <2>1. job' = [job EXCEPT ![m] = j]
    BY <1>2, <1>6 DEF CrashSend
  <2>2. /\ j \in Jobs /\ j.pc = "stopped" /\ j.to = job[m].to /\ j.at = job[m].at /\ j.sent = job[m].sent
    BY <1>2 DEF Jobs
  <2> HIDE DEF j
  <2>3. Advances(m, j)
    BY <1>2, <2>1, <2>2 DEF Advances, Created, JobFits
  <2> QED
    BY <2>2, <2>3
<1>7. ASSUME NEW u \in Users, RouteCheck(m, u) PROVE \E j \in Jobs : Advances(m, j)
  <2> DEFINE pc == IF u \in online THEN "emit" ELSE "queue"
             j == [job[m] EXCEPT !.pc = pc, !.to = @ \ {u}, !.at = {u}]
  <2>1. /\ job[m].pc = "route" /\ u \in job[m].to /\ job' = [job EXCEPT ![m] = j]
        /\ pc \in {"emit", "queue"}
    BY <1>2, <1>7 DEF RouteCheck
  <2> HIDE DEF pc
  <2>2. /\ j \in Jobs /\ j.pc = pc /\ j.to = job[m].to \ {u} /\ j.at = {u} /\ j.sent = job[m].sent
    BY <1>2, <2>1 DEF Jobs
  <2> HIDE DEF j
  <2>3. Advances(m, j)
    BY <1>2, <2>1, <2>2 DEF Advances, Created, JobFits
  <2> QED
    BY <2>2, <2>3
<1>8. ASSUME NEW u \in Users, RouteEmit(m, u) \/ RouteQueue(m, u) PROVE \E j \in Jobs : Advances(m, j)
  <2> DEFINE j == [job[m] EXCEPT !.pc = "route", !.at = {}, !.sent = @ \cup {u}]
  <2>1. /\ job[m].pc \in {"emit", "queue"} /\ u \in job[m].at /\ job' = [job EXCEPT ![m] = j]
    BY <1>2, <1>8 DEF RouteEmit, RouteQueue, Served
  <2>2. /\ j \in Jobs /\ j.pc = "route" /\ j.to = job[m].to /\ j.at = {} /\ j.sent = job[m].sent \cup {u}
    BY <1>2, <2>1 DEF Jobs
  <2> HIDE DEF j
  <2>3. Advances(m, j)
    BY <1>2, <2>1, <2>2 DEF Advances, Created, JobFits
  <2> QED
    BY <2>2, <2>3
<1> QED
  BY <1>1, <1>3, <1>4, <1>5, <1>6, <1>7, <1>8

\* A row once created stays, and so do the users served.
LEMMA JobsAdvance ==
    ASSUME IInv, [Next]_vars
    PROVE  /\ job' \in [Messages -> Jobs]
           /\ \A m \in Messages : JobFits(m)' /\ job[m].sent \subseteq job'[m].sent
                                  /\ (Created(m) => Created(m)')
<1>1. TypeOK /\ \A m \in Messages : JobFits(m)
  BY DEF IInv
<1>2. CASE UNCHANGED job
  BY <1>1, <1>2 DEF TypeOK, JobFits, Created
<1>3. CASE JobStep
  <2>1. PICK m \in Messages, j \in Jobs : Advances(m, j)
    BY <1>1, <1>3, JobStepAdvances
  <2>2. /\ job' \in [Messages -> Jobs] /\ job'[m] = j /\ \A x \in Messages \ {m} : job'[x] = job[x]
    BY <1>1, <2>1 DEF Advances, TypeOK
  <2>3. ASSUME NEW x \in Messages PROVE JobFits(x)' /\ job[x].sent \subseteq job'[x].sent /\ (Created(x) => Created(x)')
    <3>1. CASE x = m
      BY <2>1, <2>2, <3>1 DEF Advances, JobFits, Created
    <3>2. CASE x # m
      BY <1>1, <2>2, <3>2 DEF JobFits, Created
    <3> QED
      BY <3>1, <3>2
  <2> QED
    BY <2>2, <2>3
<1> QED
  BY <1>2, <1>3, WhoWrites DEF Frame

----------------------------------------------------------------------------
(* Status rows. *)

\* The rows of u for ms say st, the others what they said.
Written(ms, u, st) ==
    /\ status' \in [Messages -> [Users -> Statuses]]
    /\ \A m \in ms : status'[m][u] = st
    /\ \A m \in Messages, v \in Users : m \notin ms \/ v # u => status'[m][v] = status[m][v]

LEMMA SetStatusFacts ==
    ASSUME TypeOK, NEW ms \in SUBSET Messages, NEW u \in Users, NEW st \in Statuses, SetStatus(ms, u, st)
    PROVE  Written(ms, u, st)
<1>1. \A m \in Messages : status'[m] = IF m \in ms THEN [status[m] EXCEPT ![u] = st] ELSE status[m]
  BY DEF SetStatus
<1>2. status \in [Messages -> [Users -> Statuses]]
  BY DEF TypeOK
<1>3. \A m \in Messages : status'[m] \in [Users -> Statuses]
  BY <1>1, <1>2
<1>4. status' = [m \in Messages |-> status'[m]]
  BY DEF SetStatus
<1> QED
  BY <1>1, <1>2, <1>3, <1>4 DEF Written

\* A mark is only set on a row that is there.
LEMMA MarksFindRows ==
    ASSUME IInv, NEW s \in Sockets, conn[s].pc \in {"drain", "mark", "remove"}
    PROVE  /\ Head(conn[s].batch) \in Messages /\ Owner[s] \in Users
           /\ Tail(conn[s].batch) \in Seq(Messages)
           /\ Created(Head(conn[s].batch)) /\ \A i \in 1..Len(Tail(conn[s].batch)) : Created(Tail(conn[s].batch)[i])
<1> DEFINE b == conn[s].batch
<1>1. b \in Seq(Messages) /\ b # <<>> /\ \A i \in 1..Len(b) : Created(b[i])
  BY DEF IInv, TypeOK, Conns, DrainFits
<1>2. Owner[s] \in Users
  OBVIOUS
<1> HIDE DEF b
<1>3. 1 \in 1..Len(b) /\ Head(b) = b[1] /\ Head(b) \in Messages /\ Tail(b) \in Seq(Messages)
      /\ \A i \in 1..Len(Tail(b)) : i + 1 \in 1..Len(b) /\ Tail(b)[i] = b[i + 1]
  BY <1>1, TailFacts
<1>4. Created(Head(b)) /\ \A i \in 1..Len(Tail(b)) : Created(Tail(b)[i])
  BY <1>1, <1>3
<1> QED
  BY <1>2, <1>3, <1>4 DEF b

\* Rows are never taken back, marks neither, and a row appears with its message only.
LEMMA RowsStay ==
    ASSUME IInv, [Next]_vars
    PROVE  /\ status' \in [Messages -> [Users -> Statuses]]
           /\ \A m \in Messages, u \in Users :
                 /\ HasRow(m, u) => HasRow(m, u)'
                 /\ status[m][u] \in Marks => status'[m][u] \in Marks
                 /\ HasRow(m, u)' => HasRow(m, u) \/ (~Created(m) /\ Created(m)')
<1>1. TypeOK /\ status \in [Messages -> [Users -> Statuses]]
  BY DEF IInv, TypeOK
<1>2. CASE UNCHANGED status
  BY <1>1, <1>2 DEF HasRow
<1>3. ASSUME NEW m \in Messages, SendCreate(m)
      PROVE  /\ status' \in [Messages -> [Users -> Statuses]]
             /\ \A x \in Messages, u \in Users :
                   /\ HasRow(x, u) => HasRow(x, u)'
                   /\ status[x][u] \in Marks => status'[x][u] \in Marks
                   /\ HasRow(x, u)' => HasRow(x, u) \/ (~Created(x) /\ Created(x)')
  <2> DEFINE new == [u \in Users |-> IF u \in job[m].to THEN "SENT" ELSE "none"]
  <2>1. job[m].pc = "create" /\ status' = [status EXCEPT ![m] = new] /\ new \in [Users -> Statuses]
    BY <1>3 DEF SendCreate, Statuses
  <2>2. \A u \in Users : ~HasRow(m, u)
    BY <1>1, <2>1 DEF TypeOK
  <2>3. Created(m)' /\ ~Created(m)
    <3>1. job'[m].pc \in {"stored", "lookup"}
      BY <1>1, <1>3 DEF SendCreate, TypeOK, Jobs
    <3> QED
      BY <2>1, <3>1 DEF Created
  <2> HIDE DEF new
  <2>4. \A x \in Messages \ {m} : status'[x] = status[x]
    BY <1>1, <2>1
  <2>5. status' \in [Messages -> [Users -> Statuses]]
    BY <1>1, <2>1
  <2> QED
    BY <2>2, <2>3, <2>4, <2>5 DEF HasRow, Marks
<1>4. ASSUME NEW ms \in SUBSET Messages, NEW u \in Users, NEW st \in Marks, SetStatus(ms, u, st),
             \A m \in ms : HasRow(m, u)
      PROVE  /\ status' \in [Messages -> [Users -> Statuses]]
             /\ \A x \in Messages, v \in Users :
                   /\ HasRow(x, v) => HasRow(x, v)'
                   /\ status[x][v] \in Marks => status'[x][v] \in Marks
                   /\ HasRow(x, v)' => HasRow(x, v) \/ (~Created(x) /\ Created(x)')
  <2>1. st \in Statuses /\ st # "none"
    BY DEF Statuses, Marks
  <2>2. Written(ms, u, st)
    BY <1>1, <1>4, <2>1, SetStatusFacts
  <2>3. ASSUME NEW x \in Messages, NEW v \in Users
        PROVE  /\ HasRow(x, v) => HasRow(x, v)'
               /\ status[x][v] \in Marks => status'[x][v] \in Marks
               /\ HasRow(x, v)' => HasRow(x, v)
    <3>1. CASE x \in ms /\ v = u
      BY <1>4, <2>1, <2>2, <3>1 DEF HasRow, Written
    <3>2. CASE x \notin ms \/ v # u
      BY <2>2, <3>2 DEF HasRow, Written
    <3> QED
      BY <3>1, <3>2
  <2> QED
    BY <2>2, <2>3 DEF Written
<1>5. ASSUME NEW s \in Sockets, MarksHead(s)
      PROVE  \E ms \in SUBSET Messages, u \in Users, st \in Marks :
                SetStatus(ms, u, st) /\ \A m \in ms : HasRow(m, u)
  <2>1. conn[s].pc = "mark" /\ SetStatus({Head(conn[s].batch)}, Owner[s], "DELIVERED")
    BY <1>5 DEF MarksHead
  <2>2. Head(conn[s].batch) \in Messages /\ Owner[s] \in Users
    BY <2>1, MarksFindRows
  <2>3. HasRow(Head(conn[s].batch), Owner[s])
    BY <2>1 DEF IInv, DrainFits
  <2>4. "DELIVERED" \in Marks
    BY DEF Marks
  <2> DEFINE ms == {Head(conn[s].batch)}
  <2>5. ms \in SUBSET Messages /\ SetStatus(ms, Owner[s], "DELIVERED") /\ \A m \in ms : HasRow(m, Owner[s])
    BY <2>1, <2>2, <2>3
  <2> HIDE DEF ms
  <2> QED
    BY <2>2, <2>4, <2>5
<1>6. ASSUME NEW c \in calls, Writes(c)
      PROVE  \E ms \in SUBSET Messages, u \in Users, st \in Marks :
                SetStatus(ms, u, st) /\ \A m \in ms : HasRow(m, u)
  <2>1. c.pc = "write" /\ SetStatus(c.on, c.user, MarkOf(c.op))
    BY <1>6 DEF Writes
  <2>2. c.on \in SUBSET Messages /\ c.user \in Users /\ MarkOf(c.op) \in Marks
    BY <1>1 DEF TypeOK, Calls, MarkOf, Marks
  <2>3. \A m \in c.on : HasRow(m, c.user)
    BY <2>1 DEF IInv, CallFits
  <2> QED
    BY <2>1, <2>2, <2>3
<1> QED
  BY <1>2, <1>3, <1>4, <1>5, <1>6, WhoWrites DEF Frame, StatusStep

----------------------------------------------------------------------------
(* Inboxes. *)

\* What is queued for the users other than u stays.
OneInbox(u, q) == q \in Seq(Messages) /\ IsInjective(q) /\ inbox' = [inbox EXCEPT ![u] = q]

LEMMA OneInboxFacts ==
    ASSUME TypeOK, NEW u \in Users, NEW q, OneInbox(u, q)
    PROVE  /\ inbox' \in [Users -> Seq(Messages)]
           /\ \A v \in Users : IsInjective(inbox'[v])
           /\ inbox'[u] = q /\ \A v \in Users \ {u} : inbox'[v] = inbox[v]
  BY DEF OneInbox, TypeOK

\* A message is queued for a user who is being served, never twice.
LEMMA QueueAppends ==
    ASSUME IInv, NEW m \in Messages, NEW u \in Users, RouteQueue(m, u)
    PROVE  /\ OneInbox(u, Append(inbox[u], m)) /\ Range(Append(inbox[u], m)) = Queued(u) \cup {m}
           /\ u \in job'[m].sent
<1>1. TypeOK /\ inbox[u] \in Seq(Messages) /\ IsInjective(inbox[u]) /\ job[m] \in Jobs /\ JobFits(m)
  BY DEF IInv, TypeOK
<1>2. u \in job[m].at /\ Served(m, u) /\ inbox' = [inbox EXCEPT ![u] = Append(@, m)]
  BY DEF RouteQueue
<1>3. m \notin Queued(u)
  BY <1>1, <1>2 DEF JobFits, IInv, InboxFits
<1>4. u \in job'[m].sent
  BY <1>1, <1>2 DEF Served, TypeOK, Jobs
<1>5. /\ Append(inbox[u], m) \in Seq(Messages) /\ IsInjective(Append(inbox[u], m))
      /\ Range(Append(inbox[u], m)) = Queued(u) \cup {m}
  BY <1>1, <1>3, AppendFacts DEF Queued
<1> QED
  BY <1>1, <1>2, <1>4, <1>5 DEF OneInbox, TypeOK

LEMMA RemoveTakesOne ==
    ASSUME IInv, NEW s \in Sockets, RemovesHead(s)
    PROVE  \E q \in Seq(Messages) :
              OneInbox(Owner[s], q) /\ Range(q) = Queued(Owner[s]) \ {Head(conn[s].batch)}
<1> DEFINE u == Owner[s]
           m == Head(conn[s].batch)
           q == Without(inbox[u], m)
<1>1. conn[s].pc = "remove" /\ inbox' = [inbox EXCEPT ![u] = Without(@, m)]
  BY DEF RemovesHead
<1>2. u \in Users /\ m \in Messages
  BY <1>1, MarksFindRows
<1>3. inbox \in [Users -> Seq(Messages)] /\ IsInjective(inbox[u])
  BY <1>2 DEF IInv, TypeOK
<1>4. q \in Seq(Messages) /\ IsInjective(q) /\ Range(q) = Queued(u) \ {m}
  BY <1>2, <1>3, WithoutFacts DEF Queued
<1>5. inbox' = [inbox EXCEPT ![u] = q]
  BY <1>1, <1>2, <1>3
<1> HIDE DEF q
<1> QED
  BY <1>4, <1>5 DEF OneInbox

LEMMA ExpiryEmpties ==
    ASSUME NEW u \in Users, Expire(u)
    PROVE  OneInbox(u, <<>>) /\ Range(<<>>) = {} /\ missed' = missed \cup {<<m, u>> : m \in Queued(u)}
  BY DEF OneInbox, Expire, IsInjective, Range

\* Each step adds to an inbox what it serves, or takes one message or all of one inbox.
LEMMA InboxSteps ==
    ASSUME IInv, [Next]_vars
    PROVE  \/ UNCHANGED inbox
           \/ \E m \in Messages, u \in Users :
                 /\ RouteQueue(m, u) /\ u \in job'[m].sent
                 /\ \E q : OneInbox(u, q) /\ Range(q) = Queued(u) \cup {m}
           \/ \E s \in Sockets :
                 /\ RemovesHead(s)
                 /\ \E q : OneInbox(Owner[s], q) /\ Range(q) = Queued(Owner[s]) \ {Head(conn[s].batch)}
           \/ \E u \in Users :
                 /\ Expire(u) /\ missed' = missed \cup {<<m, u>> : m \in Queued(u)}
                 /\ \E q : OneInbox(u, q) /\ Range(q) = {}
<1>1. UNCHANGED inbox \/ InboxStep
  BY WhoWrites DEF Frame
<1>2. ASSUME NEW m \in Messages, NEW u \in Users, RouteQueue(m, u)
      PROVE  u \in job'[m].sent /\ \E q : OneInbox(u, q) /\ Range(q) = Queued(u) \cup {m}
  BY <1>2, QueueAppends
<1>3. ASSUME NEW s \in Sockets, RemovesHead(s)
      PROVE  \E q : OneInbox(Owner[s], q) /\ Range(q) = Queued(Owner[s]) \ {Head(conn[s].batch)}
  BY <1>3, RemoveTakesOne
<1>4. ASSUME NEW u \in Users, Expire(u)
      PROVE  /\ missed' = missed \cup {<<m, u>> : m \in Queued(u)}
             /\ \E q : OneInbox(u, q) /\ Range(q) = {}
  BY <1>4, ExpiryEmpties
<1> QED
  BY <1>1, <1>2, <1>3, <1>4 DEF InboxStep

LEMMA InboxesFit ==
    ASSUME IInv, [Next]_vars
    PROVE  /\ inbox' \in [Users -> Seq(Messages)]
           /\ \A u \in Users : IsInjective(inbox'[u]) /\ InboxFits(u)'
<1>1. TypeOK /\ (\A u \in Users : InboxFits(u)) /\ \A m \in Messages : job[m].sent \subseteq job'[m].sent
  BY JobsAdvance DEF IInv
<1>2. CASE UNCHANGED inbox
  <2>1. inbox' \in [Users -> Seq(Messages)] /\ \A u \in Users : IsInjective(inbox'[u]) /\ inbox'[u] = inbox[u]
    BY <1>1, <1>2 DEF TypeOK
  <2>2. \A u \in Users : Queued(u) \subseteq Messages
    BY <1>1 DEF Queued, Range, TypeOK
  <2>3. ASSUME NEW u \in Users PROVE InboxFits(u)'
    BY <1>1, <2>1, <2>2 DEF InboxFits, Queued
  <2> QED
    BY <2>1, <2>3
<1>3. ASSUME NEW u \in Users, NEW q, OneInbox(u, q), NEW m,
             \A x \in Range(q) : x \in Queued(u) \/ (x = m /\ m \in Messages /\ u \in job'[m].sent)
      PROVE  /\ inbox' \in [Users -> Seq(Messages)]
             /\ \A v \in Users : IsInjective(inbox'[v]) /\ InboxFits(v)'
  <2>1. /\ inbox' \in [Users -> Seq(Messages)] /\ (\A v \in Users : IsInjective(inbox'[v]))
        /\ inbox'[u] = q /\ \A v \in Users \ {u} : inbox'[v] = inbox[v]
    BY <1>1, <1>3, OneInboxFacts
  <2>2. \A v \in Users : Queued(v) \subseteq Messages
    BY <1>1 DEF Queued, Range, TypeOK
  <2>3. ASSUME NEW v \in Users PROVE InboxFits(v)'
    <3>1. CASE v = u
      BY <1>1, <1>3, <2>1, <2>2, <3>1 DEF InboxFits, Queued
    <3>2. CASE v # u
      BY <1>1, <2>1, <2>2, <3>2 DEF InboxFits, Queued
    <3> QED
      BY <3>1, <3>2
  <2> QED
    BY <2>1, <2>3
<1>4. CASE \E m \in Messages, u \in Users :
              u \in job'[m].sent /\ \E q : OneInbox(u, q) /\ Range(q) = Queued(u) \cup {m}
  <2>1. PICK m \in Messages, u \in Users : u \in job'[m].sent /\ \E q : OneInbox(u, q) /\ Range(q) = Queued(u) \cup {m}
    BY <1>4
  <2>2. PICK q : OneInbox(u, q) /\ Range(q) = Queued(u) \cup {m}
    BY <2>1
  <2>3. \A x \in Range(q) : x \in Queued(u) \/ (x = m /\ m \in Messages /\ u \in job'[m].sent)
    BY <2>1, <2>2
  <2> QED
    BY <1>3, <2>2, <2>3
<1>5. CASE \E u \in Users : \E q : OneInbox(u, q) /\ Range(q) \subseteq Queued(u)
  <2>1. PICK u \in Users : \E q : OneInbox(u, q) /\ Range(q) \subseteq Queued(u)
    BY <1>5
  <2>2. PICK q : OneInbox(u, q) /\ Range(q) \subseteq Queued(u)
    BY <2>1
  <2>3. \A x \in Range(q) : x \in Queued(u) \/ (x = u /\ u \in Messages /\ u \in job'[u].sent)
    BY <2>2
  <2> QED
    BY <1>3, <2>1, <2>2, <2>3
<1> QED
  <2>1. ASSUME NEW s \in Sockets, \E q : OneInbox(Owner[s], q) /\ Range(q) = Queued(Owner[s]) \ {Head(conn[s].batch)}
        PROVE  \E u \in Users : \E q : OneInbox(u, q) /\ Range(q) \subseteq Queued(u)
    <3>1. Owner[s] \in Users
      OBVIOUS
    <3> QED
      BY <2>1, <3>1
  <2>2. ASSUME NEW u \in Users, \E q : OneInbox(u, q) /\ Range(q) = {}
        PROVE  \E v \in Users : \E q : OneInbox(v, q) /\ Range(q) \subseteq Queued(v)
    BY <2>2
  <2>3. \/ UNCHANGED inbox
        \/ \E m \in Messages, u \in Users :
              u \in job'[m].sent /\ \E q : OneInbox(u, q) /\ Range(q) = Queued(u) \cup {m}
        \/ \E u \in Users : \E q : OneInbox(u, q) /\ Range(q) \subseteq Queued(u)
    BY <2>1, <2>2, InboxSteps
  <2> QED
    BY <1>2, <1>4, <1>5, <2>3

----------------------------------------------------------------------------
(* Calls and the record of what was seen. *)

LEMMA SeenGrows ==
    ASSUME IInv, [Next]_vars
    PROVE  /\ received' \in [Users -> SUBSET Messages] /\ missed' \subseteq Messages \X Users
           /\ missed \subseteq missed' /\ \A u \in Users : received[u] \subseteq received'[u]
<1>1. received \in [Users -> SUBSET Messages] /\ missed \subseteq Messages \X Users
  BY DEF IInv, TypeOK
<1>2. CASE UNCHANGED <<received, missed>>
  BY <1>1, <1>2
<1>3. ASSUME NEW m \in Messages, NEW u \in Users,
             received' = received \/ received' = [received EXCEPT ![u] = @ \cup {m}],
             missed' = missed \/ missed' = missed \cup {<<m, u>>}
      PROVE  /\ received' \in [Users -> SUBSET Messages] /\ missed' \subseteq Messages \X Users
             /\ missed \subseteq missed' /\ \A v \in Users : received[v] \subseteq received'[v]
  <2>1. missed' \subseteq Messages \X Users /\ missed \subseteq missed'
    BY <1>1, <1>3
  <2>2. received' \in [Users -> SUBSET Messages] /\ \A v \in Users : received[v] \subseteq received'[v]
    <3>1. CASE received' = received
      BY <1>1, <3>1
    <3>2. CASE received' = [received EXCEPT ![u] = @ \cup {m}]
      BY <1>1, <3>2
    <3> QED
      BY <1>3, <3>1, <3>2
  <2> QED
    BY <2>1, <2>2
<1>4. ASSUME NEW m \in Messages, NEW u \in Users, RouteEmit(m, u)
      PROVE  /\ received' = received \/ received' = [received EXCEPT ![u] = @ \cup {m}]
             /\ missed' = missed \/ missed' = missed \cup {<<m, u>>}
  BY <1>4 DEF RouteEmit
<1>5. ASSUME NEW s \in Sockets, DrainLook(s)
      PROVE  \E m \in Messages, u \in Users :
                /\ received' = received \/ received' = [received EXCEPT ![u] = @ \cup {m}]
                /\ missed' = missed \/ missed' = missed \cup {<<m, u>>}
  <2>1. Head(conn[s].batch) \in Messages /\ Owner[s] \in Users
    BY <1>5, MarksFindRows DEF DrainLook
  <2> QED
    BY <1>5, <2>1 DEF DrainLook, Hears
<1>7. ASSUME NEW s \in Sockets, ConnRejected(s)
      PROVE  UNCHANGED <<received, missed>> \/ \E m \in Messages, u \in Users :
                /\ received' = received \/ received' = [received EXCEPT ![u] = @ \cup {m}]
                /\ missed' = missed \/ missed' = missed \cup {<<m, u>>}
  <2>1. CASE conn[s].pc = "drain"
    <3>1. Head(conn[s].batch) \in Messages /\ Owner[s] \in Users
      BY <2>1, MarksFindRows
    <3> QED
      BY <1>7, <2>1, <3>1 DEF ConnRejected, Hears
  <2>2. CASE conn[s].pc # "drain"
    BY <1>7, <2>2 DEF ConnRejected
  <2> QED
    BY <2>1, <2>2
<1>6. ASSUME NEW u \in Users, Expire(u)
      PROVE  /\ received' \in [Users -> SUBSET Messages] /\ missed' \subseteq Messages \X Users
             /\ missed \subseteq missed' /\ \A v \in Users : received[v] \subseteq received'[v]
  <2>1. received' = received /\ missed' = missed \cup {<<m, u>> : m \in Queued(u)}
    BY <1>6 DEF Expire
  <2>2. Queued(u) \subseteq Messages
    BY DEF Queued, Range, IInv, TypeOK
  <2> QED
    BY <1>1, <2>1, <2>2
<1> QED
  BY <1>2, <1>3, <1>4, <1>5, <1>6, <1>7, WhoWrites DEF Frame, SeenStep

LEMMA RacesStay ==
    ASSUME IInv, [Next]_vars
    PROVE  raced' \subseteq Messages \X Users /\ raced \subseteq raced'
<1>1. raced \subseteq Messages \X Users /\ calls \subseteq Calls
  BY DEF IInv, TypeOK
<1>2. ASSUME NEW c \in calls, Writes(c)
      PROVE  raced' \subseteq Messages \X Users /\ raced \subseteq raced'
  <2>1. c.on \subseteq Messages /\ c.user \in Users
    BY <1>1 DEF Calls
  <2> QED
    BY <1>1, <1>2, <2>1 DEF Writes
<1> QED
  BY <1>1, <1>2, WhoWrites DEF Frame

\* A call that has looked writes to rows it has seen.
LEMMA CallsFit ==
    ASSUME IInv, [Next]_vars
    PROVE  calls' \subseteq Calls /\ \A c \in calls' : CallFits(c)'
<1>1. calls \subseteq Calls /\ \A c \in calls : CallFits(c)
  BY DEF IInv, TypeOK
<1>2. ASSUME NEW c \in calls PROVE CallFits(c)'
  <2>1. c.on \subseteq Messages /\ c.user \in Users
    BY <1>1 DEF Calls
  <2> QED
    BY <1>1, <2>1, RowsStay DEF CallFits
<1>3. ASSUME NEW x \in Calls, x.pc = "look" PROVE CallFits(x)'
  BY <1>3 DEF CallFits
<1>4. CASE calls' \subseteq calls
  BY <1>1, <1>2, <1>4
<1>5. ASSUME NEW x \in Calls, x.pc = "look", calls' = calls \cup {x}
      PROVE  calls' \subseteq Calls /\ \A c \in calls' : CallFits(c)'
  BY <1>1, <1>2, <1>3, <1>5
<1>6. ASSUME NEW m \in Messages, NEW u \in Users, RouteEmit(m, u)
      PROVE  \E x \in Calls : x.pc = "look" /\ calls' = calls \cup {x}
  <2> DEFINE x == [op |-> "timer", pc |-> "look", user |-> u, on |-> {m}]
  <2>1. x \in Calls /\ x.pc = "look"
    BY DEF Calls
  <2>2. calls' = calls \cup {x}
    BY <1>6 DEF RouteEmit
  <2> HIDE DEF x
  <2> QED
    BY <2>1, <2>2
<1>7. ASSUME NEW op \in {"deliver", "read", "read_all"}, NEW u \in Users, NEW on \in SUBSET Messages,
             CallBegin(op, u, on)
      PROVE  \E x \in Calls : x.pc = "look" /\ calls' = calls \cup {x}
  <2> DEFINE x == [op |-> op, pc |-> "look", user |-> u, on |-> on]
  <2>1. x \in Calls /\ x.pc = "look"
    BY DEF Calls
  <2>2. calls' = calls \cup {x}
    BY <1>7 DEF CallBegin
  <2> HIDE DEF x
  <2> QED
    BY <2>1, <2>2
<1>8. CASE ClientStep
  <2>1. ASSUME NEW op \in {"deliver", "read"}, NEW u \in Users, NEW m \in Messages, ClientMarks(op, u, m)
        PROVE  \E x \in Calls : x.pc = "look" /\ calls' = calls \cup {x}
    <3>1. CallBegin(op, u, {m}) /\ {m} \in SUBSET Messages /\ op \in {"deliver", "read", "read_all"}
      BY <2>1 DEF ClientMarks
    <3> QED
      BY <1>7, <3>1
  <2>2. ASSUME NEW u \in Users, ClientReadsAll(u)
        PROVE  \E x \in Calls : x.pc = "look" /\ calls' = calls \cup {x}
    <3>1. CallBegin("read_all", u, {}) /\ {} \in SUBSET Messages
      BY <2>2 DEF ClientReadsAll
    <3> QED
      BY <1>7, <3>1
  <2> QED
    BY <1>5, <1>8, <2>1, <2>2 DEF ClientStep
<1>9. ASSUME NEW c \in calls, CallLook(c)
      PROVE  calls' \subseteq Calls /\ \A x \in calls' : CallFits(x)'
  <2> DEFINE on == IF c.op = "read_all" THEN Unread(c.user) ELSE c.on
             next == [c EXCEPT !.pc = "write", !.on = on]
  <2>1. calls' = calls \ {c} \/ (calls' = (calls \ {c}) \cup {next} /\ (c.op = "read_all" \/ \A m \in c.on : HasRow(m, c.user)))
    BY <1>9 DEF CallLook
  <2>2. c \in Calls /\ c.on \subseteq Messages /\ c.user \in Users
    BY <1>1 DEF Calls
  <2>3. on \in SUBSET Messages /\ \A m \in Unread(c.user) : HasRow(m, c.user)
    BY <2>2 DEF Unread, HasRow
  <2>4. (c.op = "read_all" \/ \A m \in c.on : HasRow(m, c.user)) => \A m \in on : HasRow(m, c.user)
    BY <2>3
  <2> HIDE DEF on
  <2>5. next \in Calls /\ next.on = on /\ next.user = c.user
    BY <2>2, <2>3 DEF Calls
  <2> HIDE DEF next
  <2>6. \/ calls' = calls \ {c}
        \/ \E x \in Calls : /\ calls' = (calls \ {c}) \cup {x} /\ x.on \subseteq Messages
                            /\ x.user \in Users /\ \A m \in x.on : HasRow(m, x.user)
    BY <2>1, <2>2, <2>3, <2>4, <2>5
  <2>7. CASE calls' = calls \ {c}
    BY <1>4, <2>7
  <2>8. ASSUME NEW x \in Calls, calls' = (calls \ {c}) \cup {x}, x.on \subseteq Messages, x.user \in Users,
               \A m \in x.on : HasRow(m, x.user)
        PROVE  calls' \subseteq Calls /\ \A y \in calls' : CallFits(y)'
    <3>1. CallFits(x)'
      BY <2>8, RowsStay DEF CallFits
    <3> QED
      BY <1>1, <1>2, <2>8, <3>1
  <2> QED
    BY <2>6, <2>7, <2>8
<1>10. ASSUME NEW c \in calls, CallWrite(c) \/ CrashCall(c) PROVE calls' \subseteq calls
  BY <1>10 DEF CallWrite, CrashCall
<1>11. CASE UNCHANGED calls
  BY <1>4, <1>11
<1> QED
  BY <1>4, <1>5, <1>6, <1>8, <1>9, <1>10, <1>11, WhoWrites DEF Frame, CallsStep

----------------------------------------------------------------------------
(* Connections. *)

\* The connection s becomes k, and what k is about to do is backed by the rows.
Moves(s, k) ==
    LET m == Head(k.batch)
        u == Owner[s]
    IN  /\ conn' = [conn EXCEPT ![s] = k]
        /\ \A i \in 1..Len(k.batch) : Created(k.batch[i])
        /\ k.pc \in {"drain", "mark", "remove"} => k.batch # <<>>
        /\ k.pc \in {"mark", "remove"} => HasRow(m, u) /\ (m \in received'[u] \/ <<m, u>> \in missed')
        /\ k.pc = "remove" => status'[m][u] \in Marks
        /\ k.pc = "joined" => k.live \/ s \in bye'

\* What is queued has been created.
LEMMA QueuedIsCreated ==
    ASSUME IInv, NEW u \in Users, NEW m \in Queued(u)
    PROVE  m \in Messages /\ Created(m)
<1>1. m \in Messages
  BY DEF Queued, Range, IInv, TypeOK
<1>2. u \in job[m].sent
  BY DEF IInv, InboxFits
<1> QED
  BY <1>1, <1>2 DEF IInv, JobFits, Created

LEMMA FetchMoves ==
    ASSUME IInv, NEW s \in Sockets, DrainFetch(s)
    PROVE  \E k \in Conns : Moves(s, k)
<1> DEFINE b == Oldest(inbox[Owner[s]])
           k == [conn[s] EXCEPT !.pc = DrainPc(b), !.batch = b]
<1>1. Owner[s] \in Users /\ conn[s] \in Conns /\ inbox[Owner[s]] \in Seq(Messages)
  BY DEF IInv, TypeOK
<1>2. b \in Seq(Messages) /\ \A i \in 1..Len(b) : b[i] \in Queued(Owner[s])
  BY <1>1, OldestFacts DEF Queued
<1>3. \A i \in 1..Len(b) : Created(b[i])
  BY <1>1, <1>2, QueuedIsCreated
<1>4. conn' = [conn EXCEPT ![s] = k]
  BY DEF DrainFetch, IInv, TypeOK
<1> HIDE DEF b
<1>5. k \in Conns /\ k.batch = b /\ k.pc = IF b = <<>> THEN "idle" ELSE "drain"
  BY <1>1, <1>2 DEF Conns, DrainPc
<1> HIDE DEF k
<1>6. Moves(s, k)
  BY <1>3, <1>4, <1>5 DEF Moves
<1> QED
  BY <1>5, <1>6

\* A drain that gives up has nothing left to do.
LEMMA GivingUpMoves ==
    ASSUME IInv, NEW s \in Sockets, GivesUp(s)
    PROVE  \E k \in Conns : Moves(s, k)
<1> DEFINE b == <<>>
           k == [conn[s] EXCEPT !.pc = "idle", !.batch = b]
<1>1. conn[s] \in Conns /\ conn' = [conn EXCEPT ![s] = k]
  BY DEF GivesUp, IInv, TypeOK
<1>2. b \in Seq(Messages) /\ Len(b) = 0
  OBVIOUS
<1> HIDE DEF b
<1>3. k \in Conns /\ k.pc = "idle" /\ k.batch = b
  BY <1>1, <1>2 DEF Conns
<1> HIDE DEF k
<1>4. Moves(s, k)
  BY <1>1, <1>2, <1>3 DEF Moves
<1> QED
  BY <1>3, <1>4

LEMMA LookMoves ==
    ASSUME IInv, NEW s \in Sockets, DrainLook(s)
    PROVE  \E k \in Conns : Moves(s, k)
<1> DEFINE m == Head(conn[s].batch)
           u == Owner[s]
           k == [conn[s] EXCEPT !.pc = AfterLook(m, u)]
<1>1. /\ conn[s].pc = "drain" /\ UNCHANGED status
      /\ GivesUp(s) \/ (AfterLook(m, u) # "idle" /\ conn' = [conn EXCEPT ![s] = k])
      /\ received' = (IF conn[s].live THEN [received EXCEPT ![u] = @ \cup {m}] ELSE received)
      /\ missed' = IF ~conn[s].live /\ HasRow(m, u) THEN missed \cup {<<m, u>>} ELSE missed
  BY DEF DrainLook, Hears, IInv, TypeOK
<1>2. m \in Messages /\ u \in Users
  BY <1>1, MarksFindRows
<1>3. conn[s] \in Conns /\ DrainFits(s) /\ status[m][u] \in Statuses /\ received \in [Users -> SUBSET Messages]
  BY <1>2 DEF IInv, TypeOK
<1>4. /\ AfterLook(m, u) \in {"idle", "mark", "remove"}
      /\ AfterLook(m, u) # "idle" => HasRow(m, u)
      /\ AfterLook(m, u) = "remove" => status[m][u] \in Marks
  BY <1>3 DEF AfterLook, HasRow, SeenSent, Statuses, Marks
<1>5. HasRow(m, u) => m \in received'[u] \/ <<m, u>> \in missed'
  BY <1>1, <1>2, <1>3
<1> DEFINE pc == AfterLook(m, u)
<1> HIDE DEF pc
<1>6. CASE pc # "idle" /\ conn' = [conn EXCEPT ![s] = k]
  <2>1. pc \in {"mark", "remove"} /\ HasRow(m, u) /\ (pc = "remove" => status'[m][u] \in Marks)
    BY <1>1, <1>4, <1>6 DEF pc
  <2>2. k \in Conns /\ k.pc = pc /\ k.batch = conn[s].batch
    BY <1>3, <2>1 DEF Conns, pc
  <2>3. conn' = [conn EXCEPT ![s] = k]
    BY <1>6
  <2> HIDE DEF k
  <2>4. (\A i \in 1..Len(k.batch) : Created(k.batch[i])) /\ k.batch # <<>>
    BY <1>1, <1>3, <2>2 DEF DrainFits
  <2>5. Moves(s, k)
    BY <1>5, <2>1, <2>2, <2>3, <2>4 DEF Moves
  <2> QED
    BY <2>2, <2>5
<1> QED
  BY <1>1, <1>6, GivingUpMoves DEF pc

LEMMA MarkMoves ==
    ASSUME IInv, NEW s \in Sockets, DrainMark(s)
    PROVE  \E k \in Conns : Moves(s, k)
<1> DEFINE m == Head(conn[s].batch)
           u == Owner[s]
           k == [conn[s] EXCEPT !.pc = "remove"]
<1>1. conn[s].pc = "mark" /\ conn' = [conn EXCEPT ![s] = k] /\ SetStatus({m}, u, "DELIVERED")
      /\ UNCHANGED <<received, missed>>
  BY DEF DrainMark, MarksHead, IInv, TypeOK, historyVars
<1>2. m \in Messages /\ u \in Users
  BY <1>1, MarksFindRows
<1>3. conn[s] \in Conns /\ DrainFits(s) /\ TypeOK
  BY DEF IInv, TypeOK
<1>4. status'[m][u] = "DELIVERED"
  <2> DEFINE ms == {m}
  <2>1. ms \in SUBSET Messages /\ SetStatus(ms, u, "DELIVERED") /\ "DELIVERED" \in Statuses /\ m \in ms
    BY <1>1, <1>2 DEF Statuses
  <2> HIDE DEF ms
  <2>2. Written(ms, u, "DELIVERED")
    BY <1>2, <1>3, <2>1, SetStatusFacts
  <2> QED
    BY <2>1, <2>2 DEF Written
<1>5. k \in Conns /\ k.pc = "remove" /\ k.batch = conn[s].batch
  BY <1>3 DEF Conns
<1>6. conn' = [conn EXCEPT ![s] = k]
  BY <1>1
<1> HIDE DEF k
<1>7. /\ (\A i \in 1..Len(k.batch) : Created(k.batch[i])) /\ k.batch # <<>>
      /\ HasRow(m, u) /\ (m \in received[u] \/ <<m, u>> \in missed)
  BY <1>1, <1>3, <1>5 DEF DrainFits
<1>8. Moves(s, k)
  BY <1>1, <1>4, <1>5, <1>6, <1>7 DEF Moves, Marks
<1> QED
  BY <1>5, <1>8

LEMMA RemoveMoves ==
    ASSUME IInv, NEW s \in Sockets, DrainRemove(s)
    PROVE  \E k \in Conns : Moves(s, k)
<1> DEFINE b == Tail(conn[s].batch)
           k == [conn[s] EXCEPT !.pc = DrainPc(b), !.batch = b]
<1>1. conn[s].pc = "remove" /\ conn' = [conn EXCEPT ![s] = k]
  BY DEF DrainRemove, RemovesHead, IInv, TypeOK
<1>2. b \in Seq(Messages) /\ \A i \in 1..Len(b) : Created(b[i])
  BY <1>1, MarksFindRows
<1>3. conn[s] \in Conns
  BY DEF IInv, TypeOK
<1> HIDE DEF b
<1>4. k \in Conns /\ k.batch = b /\ k.pc = IF b = <<>> THEN "idle" ELSE "drain"
  BY <1>2, <1>3 DEF Conns, DrainPc
<1>5. conn' = [conn EXCEPT ![s] = k]
  BY <1>1
<1> HIDE DEF k
<1>6. Moves(s, k)
  BY <1>2, <1>4, <1>5 DEF Moves
<1> QED
  BY <1>4, <1>6

LEMMA OthersMove ==
    ASSUME IInv, NEW s \in Sockets, Connect(s) \/ SetOnline(s) \/ Disconnect(s) \/ SetOffline(s) \/ SetOfflineRejected(s)
                                  \/ CrashSocket(s)
    PROVE  \E k \in Conns : Moves(s, k)
<1>1. conn \in [Sockets -> Conns] /\ conn[s] \in Conns /\ DrainFits(s) /\ SocketFits(s)
  BY DEF IInv, TypeOK
<1>2. UNCHANGED <<status, received, missed>>
  BY DEF Connect, SetOnline, Disconnect, SetOffline, SetOfflineRejected, CrashSocket, historyVars
<1>3. ASSUME NEW k \in Conns, conn' = [conn EXCEPT ![s] = k], k.batch = <<>>,
             k.pc \in {"idle", "joined"}, k.pc = "joined" => k.live
      PROVE  Moves(s, k)
  <2>1. Len(k.batch) = 0
    BY <1>3
  <2> QED
    BY <1>3, <2>1 DEF Moves
<1>4. ASSUME NEW k \in Conns, conn' = [conn EXCEPT ![s] = k], k.batch = conn[s].batch,
             k.pc = conn[s].pc \/ k.pc = "online", k.pc = "joined" => k.live \/ s \in bye'
      PROVE  Moves(s, k)
  BY <1>1, <1>2, <1>4 DEF Moves, DrainFits
<1>5. CASE Connect(s)
  <2> DEFINE k == [pc |-> "joined", live |-> TRUE, batch |-> <<>>]
  <2>1. k \in Conns /\ k.pc = "joined" /\ k.live /\ k.batch = <<>>
    BY DEF Conns
  <2>2. conn' = [conn EXCEPT ![s] = k]
    BY <1>5 DEF Connect
  <2> HIDE DEF k
  <2> QED
    BY <1>3, <2>1, <2>2
<1>6. CASE SetOnline(s)
  <2> DEFINE k == [conn[s] EXCEPT !.pc = "online"]
  <2>1. k \in Conns /\ k.pc = "online" /\ k.batch = conn[s].batch
    BY <1>1 DEF Conns
  <2>2. conn' = [conn EXCEPT ![s] = k]
    BY <1>1, <1>6 DEF SetOnline
  <2> HIDE DEF k
  <2> QED
    BY <1>4, <2>1, <2>2
<1>7. CASE Disconnect(s)
  <2> DEFINE k == [conn[s] EXCEPT !.live = FALSE]
  <2>1. k \in Conns /\ k.pc = conn[s].pc /\ k.batch = conn[s].batch
    BY <1>1 DEF Conns
  <2>2. conn' = [conn EXCEPT ![s] = k] /\ s \in bye'
    BY <1>1, <1>7 DEF Disconnect
  <2> HIDE DEF k
  <2> QED
    BY <1>4, <2>1, <2>2
<1>8. CASE SetOffline(s) \/ SetOfflineRejected(s)
  <2>1. conn' = [conn EXCEPT ![s] = conn[s]] /\ conn[s].pc # "joined"
    BY <1>1, <1>8 DEF SetOffline, SetOfflineRejected
  <2> QED
    BY <1>1, <1>4, <2>1
<1>9. CASE CrashSocket(s)
  <2>1. NoConn \in Conns /\ NoConn.pc = "idle" /\ NoConn.batch = <<>>
    BY DEF NoConn, Conns
  <2>2. conn' = [conn EXCEPT ![s] = NoConn]
    BY <1>9 DEF CrashSocket
  <2> QED
    BY <1>3, <2>1, <2>2
<1> QED
  BY <1>5, <1>6, <1>7, <1>8, <1>9

\* Only the socket that moves joins or leaves those whose DEL is still to come.
LEMMA SocketsMove ==
    ASSUME IInv, SocketStep
    PROVE  \E s \in Sockets :
              /\ \E k \in Conns : Moves(s, k)
              /\ bye' = bye \/ bye' = bye \cup {s} \/ bye' = bye \ {s}
<1>1. PICK s \in Sockets : \/ Connect(s) \/ ConnStep(s) \/ Disconnect(s) \/ SetOffline(s) \/ CrashSocket(s)
                           \/ ConnRejected(s) \/ SetOfflineRejected(s)
  BY DEF SocketStep
<1>2. \E k \in Conns : Moves(s, k)
  BY <1>1, FetchMoves, LookMoves, MarkMoves, RemoveMoves, OthersMove, GivingUpMoves DEF ConnStep, ConnRejected
<1>3. bye' = bye \/ bye' = bye \cup {s} \/ bye' = bye \ {s}
  BY <1>1 DEF ConnStep, Connect, SetOnline, DrainFetch, DrainLook, DrainMark, DrainRemove, Disconnect,
              SetOffline, CrashSocket, ConnRejected, SetOfflineRejected
<1> QED
  BY <1>2, <1>3

\* A connection that did not move is still backed by the rows.
LEMMA BatchesRest ==
    ASSUME IInv, [Next]_vars, NEW s \in Sockets, conn'[s] = conn[s], s \in bye => s \in bye'
    PROVE  DrainFits(s)' /\ SocketFits(s)'
<1> DEFINE b == conn[s].batch
           u == Owner[s]
<1>1. b \in Seq(Messages) /\ u \in Users /\ DrainFits(s) /\ SocketFits(s)
  BY DEF IInv, TypeOK, Conns
<1>2. (\A i \in 1..Len(b) : b[i] \in Messages) /\ (b # <<>> => Head(b) \in Messages /\ Created(Head(b)))
  <2>1. \A i \in 1..Len(b) : b[i] \in Messages /\ Created(b[i])
    BY <1>1 DEF DrainFits
  <2>2. b # <<>> => Head(b) = b[1] /\ 1 \in 1..Len(b)
    BY <1>1
  <2> QED
    BY <2>1, <2>2
<1>3. \A i \in 1..Len(b) : Created(b[i])'
  BY <1>1, <1>2, JobsAdvance DEF DrainFits
<1>4. ASSUME b # <<>>
      PROVE  /\ HasRow(Head(b), u) => (status'[Head(b)][u] # "none")
             /\ status[Head(b)][u] \in Marks => status'[Head(b)][u] \in Marks
             /\ Head(b) \in received[u] => Head(b) \in received'[u]
             /\ <<Head(b), u>> \in missed => <<Head(b), u>> \in missed'
  <2>1. Head(b) \in Messages /\ Created(Head(b))
    BY <1>2, <1>4
  <2>2. /\ HasRow(Head(b), u) => HasRow(Head(b), u)'
        /\ status[Head(b)][u] \in Marks => status'[Head(b)][u] \in Marks
    BY <1>1, <2>1, RowsStay
  <2> QED
    BY <1>1, <2>1, <2>2, SeenGrows DEF HasRow
<1>5. DrainFits(s)'
  BY <1>1, <1>3, <1>4 DEF DrainFits, HasRow
<1>6. SocketFits(s)'
  BY <1>1 DEF SocketFits
<1> QED
  BY <1>5, <1>6

\* Every connection stays backed by the rows.
LEMMA ConnsFit ==
    ASSUME IInv, [Next]_vars
    PROVE  /\ conn' \in [Sockets -> Conns] /\ bye' \subseteq Sockets
           /\ \A s \in Sockets : DrainFits(s)' /\ SocketFits(s)'
<1>1. conn \in [Sockets -> Conns] /\ bye \subseteq Sockets
  BY DEF IInv, TypeOK
<1>2. CASE UNCHANGED <<online, conn, bye, stranded>>
  <2>1. \A s \in Sockets : conn'[s] = conn[s] /\ (s \in bye => s \in bye')
    BY <1>2
  <2>2. conn' = conn /\ bye' = bye
    BY <1>2
  <2>3. \A s \in Sockets : DrainFits(s)' /\ SocketFits(s)'
    BY <2>1, BatchesRest
  <2> QED
    BY <1>1, <2>2, <2>3
<1>3. CASE SocketStep
  <2>1. PICK s \in Sockets, k \in Conns : Moves(s, k) /\ (bye' = bye \/ bye' = bye \cup {s} \/ bye' = bye \ {s})
    BY <1>3, SocketsMove
  <2>2. /\ conn' \in [Sockets -> Conns] /\ bye' \subseteq Sockets /\ conn'[s] = k
        /\ \A t \in Sockets \ {s} : conn'[t] = conn[t] /\ (t \in bye => t \in bye')
    BY <1>1, <2>1 DEF Moves
  <2>3. ASSUME NEW t \in Sockets
        PROVE  DrainFits(t)' /\ SocketFits(t)'
    <3>1. CASE t # s
      <4>1. conn'[t] = conn[t] /\ (t \in bye => t \in bye')
        BY <2>2, <3>1
      <4> QED
        BY <4>1, BatchesRest
    <3>2. CASE t = s
      <4>1. k.batch \in Seq(Messages) /\ Owner[s] \in Users
        BY DEF Conns
      <4>2. \A i \in 1..Len(k.batch) : k.batch[i] \in Messages /\ Created(k.batch[i])'
        BY <2>1, <4>1, JobsAdvance DEF Moves
      <4>3. k.batch # <<>> => Head(k.batch) \in Messages /\ Created(Head(k.batch))
        <5>1. k.batch # <<>> => 1 \in 1..Len(k.batch) /\ Head(k.batch) = k.batch[1]
          BY <4>1
        <5> QED
          BY <2>1, <4>2, <5>1 DEF Moves
      <4>4. k.batch # <<>> => (HasRow(Head(k.batch), Owner[s])' <=> HasRow(Head(k.batch), Owner[s]))
        BY <4>1, <4>3, RowsStay
      <4>5. DrainFits(s)'
        BY <2>1, <2>2, <4>2, <4>4 DEF DrainFits, Moves, HasRow
      <4>6. SocketFits(s)'
        BY <2>1, <2>2 DEF SocketFits, Moves
      <4> QED
        BY <3>2, <4>5, <4>6
    <3> QED
      BY <3>1, <3>2
  <2> QED
    BY <2>2, <2>3
<1> QED
  BY <1>2, <1>3, WhoWrites DEF Frame

\* A socket behind a presence key: open, or with its DEL still to come.
Backs(s) == conn[s].live \/ s \in bye

\* A socket stops backing the key only as the key goes or the user is counted as stranded.
LEMMA KeysBacked ==
    ASSUME IInv, [Next]_vars
    PROVE  online' \subseteq Users /\ stranded' \subseteq Users /\ KeyHasSocket'
<1>1. /\ conn \in [Sockets -> Conns] /\ bye \subseteq Sockets /\ online \subseteq Users
      /\ stranded \subseteq Users /\ \A s \in Sockets : SocketFits(s)
  BY DEF IInv, TypeOK
<1>2. \A u \in online \ stranded : \E s \in Sockets : Owner[s] = u /\ Backs(s)
  BY DEF IInv, KeyHasSocket, Backs
<1>3. CASE UNCHANGED <<online, conn, bye, stranded>>
  <2>1. online' = online /\ stranded' = stranded /\ conn' = conn /\ bye' = bye
    BY <1>3
  <2> QED
    BY <1>1, <1>2, <2>1 DEF KeyHasSocket, Backs
<1>4. ASSUME NEW s \in Sockets, online' \ stranded' \subseteq (online \ stranded) \cup {Owner[s]},
             Owner[s] \in online' \ stranded' => Backs(s)', \A t \in Sockets \ {s} : Backs(t) => Backs(t)'
      PROVE  KeyHasSocket'
  <2>1. ASSUME NEW u \in online' \ stranded'
        PROVE  \E t \in Sockets : Owner[t] = u /\ (conn'[t].live \/ t \in bye')
    <3>1. CASE u = Owner[s]
      BY <1>4, <2>1, <3>1 DEF Backs
    <3>2. CASE u # Owner[s]
      <4>1. PICK t \in Sockets : Owner[t] = u /\ Backs(t)
        BY <1>2, <1>4, <2>1, <3>2
      <4> QED
        BY <1>4, <3>2, <4>1 DEF Backs
    <3> QED
      BY <3>1, <3>2
  <2> QED
    BY <2>1 DEF KeyHasSocket
<1>5. ASSUME NEW s \in Sockets, NEW k \in Conns, conn' = [conn EXCEPT ![s] = k]
      PROVE  conn'[s] = k /\ \A t \in Sockets \ {s} : conn'[t] = conn[t]
  BY <1>1, <1>5
<1>6. ASSUME NEW s \in Sockets, Connect(s)
      PROVE  online' \subseteq Users /\ stranded' \subseteq Users /\ KeyHasSocket'
  <2> DEFINE k == [pc |-> "joined", live |-> TRUE, batch |-> <<>>]
  <2>1. k \in Conns /\ k.live
    BY DEF Conns
  <2>2. conn' = [conn EXCEPT ![s] = k] /\ online' = online /\ bye' = bye /\ stranded' = stranded
    BY <1>6 DEF Connect
  <2> HIDE DEF k
  <2>3. conn'[s].live /\ \A t \in Sockets \ {s} : conn'[t] = conn[t]
    BY <1>5, <2>1, <2>2
  <2> QED
    BY <1>1, <1>4, <2>2, <2>3 DEF Backs
<1>7. ASSUME NEW s \in Sockets, ConnStep(s) \/ ConnRejected(s)
      PROVE  online' \subseteq Users /\ stranded' \subseteq Users /\ KeyHasSocket'
  <2>1. /\ bye' = bye /\ stranded' = stranded
        /\ online' = online \/ (online' = online \cup {Owner[s]} /\ conn[s].pc = "joined")
    BY <1>7 DEF ConnStep, SetOnline, DrainFetch, DrainLook, DrainMark, DrainRemove, ConnRejected
  <2>2. \A t \in Sockets : conn'[t].live = conn[t].live
    <3>1. conn[s] \in Conns
      BY <1>1
    <3>2. ASSUME NEW pc, conn' = [conn EXCEPT ![s].pc = pc] PROVE conn'[s].live = conn[s].live
      BY <1>1, <3>1, <3>2 DEF Conns
    <3>3. ASSUME NEW pc, NEW b, conn' = [conn EXCEPT ![s].pc = pc, ![s].batch = b]
          PROVE  conn'[s].live = conn[s].live
      BY <1>1, <3>1, <3>3 DEF Conns
    <3>4. conn'[s].live = conn[s].live
      BY <1>7, <3>2, <3>3 DEF ConnStep, SetOnline, DrainFetch, DrainLook, DrainMark, DrainRemove,
                              ConnRejected, GivesUp
    <3>5. \A t \in Sockets \ {s} : conn'[t] = conn[t]
      BY <1>1, <1>7 DEF ConnStep, SetOnline, DrainFetch, DrainLook, DrainMark, DrainRemove,
                        ConnRejected, GivesUp
    <3> QED
      BY <3>4, <3>5
  <2>3. Owner[s] \in online' \ stranded' => \E t \in Sockets : Owner[t] = Owner[s] /\ Backs(t)
    BY <1>1, <1>2, <2>1 DEF SocketFits, Backs
  <2>4. \A u \in online' \ stranded' : \E t \in Sockets : Owner[t] = u /\ Backs(t)
    BY <1>2, <2>1, <2>3
  <2>5. Owner[s] \in Users
    OBVIOUS
  <2> QED
    BY <1>1, <2>1, <2>2, <2>4, <2>5 DEF KeyHasSocket, Backs
<1>8. ASSUME NEW s \in Sockets, Disconnect(s)
      PROVE  online' \subseteq Users /\ stranded' \subseteq Users /\ KeyHasSocket'
  <2>1. online' = online /\ stranded' = stranded /\ bye' = bye \cup {s}
    BY <1>8 DEF Disconnect
  <2>2. \A t \in Sockets \ {s} : conn'[t] = conn[t]
    BY <1>1, <1>8 DEF Disconnect
  <2> QED
    BY <1>1, <1>4, <2>1, <2>2 DEF Backs
<1>9. ASSUME NEW s \in Sockets, SetOffline(s)
      PROVE  online' \subseteq Users /\ stranded' \subseteq Users /\ KeyHasSocket'
  <2>1. online' = online \ {Owner[s]} /\ stranded' = stranded /\ bye' = bye \ {s} /\ conn' = conn
    BY <1>9 DEF SetOffline, Cleared
  <2> QED
    BY <1>1, <1>4, <2>1 DEF Backs
<1>10. ASSUME NEW s \in Sockets, CrashSocket(s)
      PROVE  online' \subseteq Users /\ stranded' \subseteq Users /\ KeyHasSocket'
  <2>1. online' = online /\ stranded' = stranded \cup {Owner[s]} /\ bye' = bye \ {s}
    BY <1>10 DEF CrashSocket
  <2>2. \A t \in Sockets \ {s} : conn'[t] = conn[t]
    BY <1>1, <1>10 DEF CrashSocket
  <2>3. Owner[s] \in Users
    OBVIOUS
  <2> QED
    BY <1>1, <1>4, <2>1, <2>2, <2>3 DEF Backs
<1>11. ASSUME NEW s \in Sockets, SetOfflineRejected(s)
      PROVE  online' \subseteq Users /\ stranded' \subseteq Users /\ KeyHasSocket'
  <2>1. /\ bye' = bye \ {s} /\ conn' = conn
        /\ \/ online' = online \ {Owner[s]} /\ stranded' = stranded
           \/ online' = online /\ stranded' = stranded \cup {Owner[s]}
    BY <1>11 DEF SetOfflineRejected, Cleared
  <2>2. Owner[s] \in Users
    OBVIOUS
  <2> QED
    BY <1>1, <1>4, <2>1, <2>2 DEF Backs
<1> QED
  BY <1>3, <1>6, <1>7, <1>8, <1>9, <1>10, <1>11, WhoWrites DEF Frame, SocketStep

----------------------------------------------------------------------------
(* Delivery marks on their way, and what they overwrite.                   *)

\* A delivery mark sets out only for a row that says SENT.
LEMMA NewMarks ==
    ASSUME IInv, [Next]_vars, NEW m \in Messages, NEW u \in Users, MarkInFlight(m, u)'
    PROVE  MarkInFlight(m, u) \/ (SeenSent(m, u) /\ status' = status)
<1>1. conn \in [Sockets -> Conns] /\ calls \subseteq Calls
  BY DEF IInv, TypeOK
<1>2. ASSUME NEW c \in calls', c.op \in {"timer", "deliver"}, c.pc = "write", c.user = u, m \in c.on
      PROVE  MarkInFlight(m, u) \/ (SeenSent(m, u) /\ status' = status)
  <2>1. CASE c \in calls
    BY <1>2, <2>1 DEF MarkInFlight
  <2>2. CASE c \notin calls
    <3>1. CallsStep
      BY <1>2, <2>2, WhoWrites DEF Frame
    <3>2. ASSUME NEW x \in Messages, NEW v \in Users, RouteEmit(x, v) PROVE FALSE
      BY <1>2, <2>2, <3>2 DEF RouteEmit
    <3>3. ASSUME NEW op, NEW v, NEW on, CallBegin(op, v, on) PROVE FALSE
      BY <1>2, <2>2, <3>3 DEF CallBegin
    <3>4. ASSUME ClientStep PROVE FALSE
      BY <3>3, <3>4 DEF ClientStep, ClientMarks, ClientReadsAll
    <3>5. ASSUME NEW x \in calls, CallWrite(x) \/ CrashCall(x) PROVE FALSE
      BY <2>2, <3>5 DEF CallWrite, CrashCall
    <3>6. ASSUME NEW x \in calls, CallLook(x) PROVE SeenSent(m, u) /\ status' = status
      <4> DEFINE on == IF x.op = "read_all" THEN Unread(x.user) ELSE x.on
                 next == [x EXCEPT !.pc = "write", !.on = on]
      <4>1. status' = status
        BY <3>6 DEF CallLook
      <4>2. /\ x.op \in {"timer", "deliver"} => \A y \in x.on : SeenSent(y, x.user)
            /\ c = next
        BY <1>2, <2>2, <3>6 DEF CallLook
      <4>3. x \in Calls
        BY <1>1
      <4> HIDE DEF on
      <4>4. c.op = x.op /\ c.user = x.user /\ c.on = on
        BY <4>2, <4>3 DEF Calls
      <4>5. on = x.on
        BY <1>2, <4>4 DEF on
      <4> QED
        BY <1>2, <4>1, <4>2, <4>4, <4>5
    <3> QED
      BY <3>1, <3>2, <3>4, <3>5, <3>6 DEF CallsStep
  <2> QED
    BY <2>1, <2>2
<1>3. ASSUME NEW s \in Sockets, Owner[s] = u, conn'[s].pc = "mark", Head(conn'[s].batch) = m
      PROVE  MarkInFlight(m, u) \/ (SeenSent(m, u) /\ status' = status)
  <2>1. CASE conn'[s].pc = conn[s].pc /\ conn'[s].batch = conn[s].batch
    BY <1>3, <2>1 DEF MarkInFlight
  <2>2. CASE DrainLook(s)
    <3>1. conn[s] \in Conns /\ status' = status
      BY <1>1, <2>2 DEF DrainLook
    <3>2. ~GivesUp(s)
      BY <1>1, <1>3, <3>1 DEF GivesUp, Conns
    <3>3. conn'[s].pc = AfterLook(Head(conn[s].batch), u) /\ conn'[s].batch = conn[s].batch
      BY <1>1, <1>3, <2>2, <3>1, <3>2 DEF DrainLook, Conns
    <3> QED
      BY <1>3, <3>1, <3>3 DEF AfterLook
  <2>3. ASSUME SocketStep, ~DrainLook(s)
        PROVE  conn'[s].pc = conn[s].pc /\ conn'[s].batch = conn[s].batch
    <3>1. PICK t \in Sockets : \/ Connect(t) \/ ConnStep(t) \/ Disconnect(t) \/ SetOffline(t) \/ CrashSocket(t)
                              \/ ConnRejected(t) \/ SetOfflineRejected(t)
      BY <2>3 DEF SocketStep
    <3>2. CASE t # s
      BY <1>1, <3>1, <3>2 DEF ConnStep, Connect, SetOnline, DrainFetch, DrainLook, DrainMark, DrainRemove,
                              Disconnect, SetOffline, CrashSocket, ConnRejected, SetOfflineRejected,
                              GivesUp
    <3>3. CASE t = s
      <4>1. conn[s] \in Conns
        BY <1>1
      <4>2. CASE Connect(s) \/ CrashSocket(s)
        BY <1>1, <1>3, <4>2 DEF Connect, CrashSocket, NoConn
      <4>3. ASSUME NEW pc, conn' = [conn EXCEPT ![s].pc = pc] PROVE conn'[s].pc = pc
        BY <1>1, <4>1, <4>3 DEF Conns
      <4>4. ASSUME NEW pc, NEW b, conn' = [conn EXCEPT ![s].pc = pc, ![s].batch = b] PROVE conn'[s].pc = pc
        BY <1>1, <4>1, <4>4 DEF Conns
      <4>5. \A b : DrainPc(b) # "mark"
        BY DEF DrainPc
      <4>6. CASE SetOnline(s) \/ DrainMark(s)
        BY <1>3, <4>3, <4>6 DEF SetOnline, DrainMark
      <4>7. CASE DrainFetch(s) \/ DrainRemove(s)
        BY <1>3, <4>4, <4>5, <4>7 DEF DrainFetch, DrainRemove
      <4>8. CASE Disconnect(s) \/ SetOffline(s) \/ SetOfflineRejected(s)
        BY <1>1, <4>1, <4>8 DEF Disconnect, SetOffline, SetOfflineRejected, Conns
      <4>9. CASE ConnRejected(s)
        BY <1>3, <4>4, <4>9 DEF ConnRejected, GivesUp
      <4> QED
        BY <2>3, <3>1, <3>3, <4>2, <4>6, <4>7, <4>8, <4>9 DEF ConnStep
    <3> QED
      BY <3>2, <3>3
  <2>4. ASSUME conn' = conn PROVE conn'[s].pc = conn[s].pc /\ conn'[s].batch = conn[s].batch
    BY <2>4
  <2> QED
    BY <2>1, <2>2, <2>3, <2>4, WhoWrites DEF Frame
<1> QED
  BY <1>2, <1>3 DEF MarkInFlight

\* READ is written by a call that records the delivery marks it overlaps.
LEMMA ReadsAreRecorded ==
    ASSUME IInv, [Next]_vars, NEW m \in Messages, NEW u \in Users, MarkInFlight(m, u),
           status[m][u] # "READ", status'[m][u] = "READ"
    PROVE  <<m, u>> \in raced'
<1>1. TypeOK /\ status \in [Messages -> [Users -> Statuses]] /\ calls \subseteq Calls
  BY DEF IInv, TypeOK
<1>2. StatusStep
  BY WhoWrites DEF Frame
<1>3. ASSUME NEW x \in Messages, SendCreate(x) PROVE FALSE
  <2>1. status' = [status EXCEPT ![x] = [v \in Users |-> IF v \in job[x].to THEN "SENT" ELSE "none"]]
    BY <1>3 DEF SendCreate
  <2>2. status'[x][u] # "READ" /\ \A y \in Messages \ {x} : status'[y] = status[y]
    BY <1>1, <2>1
  <2> QED
    BY <2>2
<1>4. ASSUME NEW s \in Sockets, MarksHead(s) PROVE FALSE
  <2> DEFINE ms == {Head(conn[s].batch)}
  <2>1. conn[s].pc = "mark" /\ SetStatus(ms, Owner[s], "DELIVERED")
    BY <1>4 DEF MarksHead
  <2>2. ms \in SUBSET Messages /\ Owner[s] \in Users /\ "DELIVERED" \in Statuses
    BY <2>1, MarksFindRows DEF Statuses
  <2> HIDE DEF ms
  <2>3. Written(ms, Owner[s], "DELIVERED")
    BY <1>1, <2>1, <2>2, SetStatusFacts
  <2> QED
    BY <2>3 DEF Written
<1>5. ASSUME NEW c \in calls, Writes(c) PROVE <<m, u>> \in raced'
  <2>1. c.on \in SUBSET Messages /\ c.user \in Users /\ MarkOf(c.op) \in Statuses
    BY <1>1 DEF Calls, MarkOf, Statuses
  <2>2. SetStatus(c.on, c.user, MarkOf(c.op))
    BY <1>5 DEF Writes
  <2>3. Written(c.on, c.user, MarkOf(c.op))
    BY <1>1, <2>1, <2>2, SetStatusFacts
  <2>4. m \in c.on /\ c.user = u /\ MarkOf(c.op) = "READ"
    BY <2>3 DEF Written
  <2> QED
    BY <1>5, <2>4 DEF Writes
<1> QED
  BY <1>2, <1>3, <1>4, <1>5 DEF StatusStep

\* READ is overwritten only by a delivery mark on its way, so the race is on record.
LEMMA ReadsStay ==
    ASSUME IInv, [Next]_vars, NEW m \in Messages, NEW u \in Users,
           status[m][u] = "READ", status'[m][u] # "READ"
    PROVE  <<m, u>> \in raced
<1>1. TypeOK /\ status \in [Messages -> [Users -> Statuses]] /\ calls \subseteq Calls
  BY DEF IInv, TypeOK
<1>2. StatusStep
  BY WhoWrites DEF Frame
<1>3. SUFFICES MarkInFlight(m, u)
  BY <1>3 DEF IInv, MarksFit
<1>4. ASSUME NEW x \in Messages, SendCreate(x) PROVE FALSE
  <2>1. job[x].pc = "create"
        /\ status' = [status EXCEPT ![x] = [v \in Users |-> IF v \in job[x].to THEN "SENT" ELSE "none"]]
    BY <1>4 DEF SendCreate
  <2>2. x # m
    BY <1>1, <2>1 DEF TypeOK, HasRow
  <2> QED
    BY <1>1, <2>1, <2>2
<1>5. ASSUME NEW s \in Sockets, MarksHead(s) PROVE MarkInFlight(m, u)
  <2> DEFINE ms == {Head(conn[s].batch)}
  <2>1. conn[s].pc = "mark" /\ SetStatus(ms, Owner[s], "DELIVERED")
    BY <1>5 DEF MarksHead
  <2>2. ms \in SUBSET Messages /\ Owner[s] \in Users /\ "DELIVERED" \in Statuses
    BY <2>1, MarksFindRows DEF Statuses
  <2>3. (\A x \in ms : x = Head(conn[s].batch))
    OBVIOUS
  <2> HIDE DEF ms
  <2>4. Written(ms, Owner[s], "DELIVERED")
    BY <1>1, <2>1, <2>2, SetStatusFacts
  <2>5. m = Head(conn[s].batch) /\ u = Owner[s]
    BY <2>3, <2>4 DEF Written
  <2> QED
    BY <2>1, <2>5 DEF MarkInFlight
<1>6. ASSUME NEW c \in calls, Writes(c) PROVE MarkInFlight(m, u)
  <2>1. c.on \in SUBSET Messages /\ c.user \in Users /\ MarkOf(c.op) \in Statuses
    BY <1>1 DEF Calls, MarkOf, Statuses
  <2>2. SetStatus(c.on, c.user, MarkOf(c.op)) /\ c.pc = "write"
    BY <1>6 DEF Writes
  <2>3. Written(c.on, c.user, MarkOf(c.op))
    BY <1>1, <2>1, <2>2, SetStatusFacts
  <2>4. m \in c.on /\ c.user = u /\ MarkOf(c.op) # "READ"
    BY <2>3 DEF Written
  <2> QED
    BY <2>2, <2>4 DEF MarkInFlight, MarkOf
<1> QED
  BY <1>2, <1>4, <1>5, <1>6 DEF StatusStep

LEMMA MarksStayRecorded ==
    ASSUME IInv, [Next]_vars
    PROVE  MarksFit'
<1> SUFFICES ASSUME NEW m \in Messages, NEW u \in Users, MarkInFlight(m, u)', status'[m][u] = "READ"
             PROVE  <<m, u>> \in raced'
  BY DEF MarksFit
<1>1. CASE SeenSent(m, u) /\ status' = status
  BY <1>1 DEF SeenSent
<1>2. CASE MarkInFlight(m, u) /\ status[m][u] = "READ"
  BY <1>2, RacesStay DEF IInv, MarksFit
<1>3. CASE MarkInFlight(m, u) /\ status[m][u] # "READ"
  BY <1>3, ReadsAreRecorded
<1> QED
  BY <1>1, <1>2, <1>3, NewMarks

----------------------------------------------------------------------------
(* What the sender hears.                                                  *)

\* Whatever is told now the row says.
Honest ==
    /\ told' \in [Messages -> [Users -> SUBSET Marks]]
    /\ \A m \in Messages, u \in Users : \A mark \in told'[m][u] :
          mark \in told[m][u] \/ status'[m][u] = mark \/ (mark = "DELIVERED" /\ status'[m][u] \in Marks)

LEMMA TellsHonestly ==
    ASSUME IInv, NEW m \in Messages, NEW u \in Users, Tell(m, u, "DELIVERED"), status[m][u] \in Marks,
           status' = status
    PROVE  Honest
<1>1. told \in [Messages -> [Users -> SUBSET Marks]] /\ "DELIVERED" \in Marks
  BY DEF IInv, TypeOK, Marks
<1>2. told' = [told EXCEPT ![m] = [told[m] EXCEPT ![u] = @ \cup {"DELIVERED"}]]
  BY DEF Tell
<1>3. told' \in [Messages -> [Users -> SUBSET Marks]]
  BY <1>1, <1>2
<1>4. ASSUME NEW x \in Messages, NEW v \in Users, NEW mark \in told'[x][v], mark \notin told[x][v]
      PROVE  x = m /\ v = u /\ mark = "DELIVERED"
  BY <1>1, <1>2, <1>4
<1> QED
  BY <1>3, <1>4 DEF Honest

LEMMA SenderHears ==
    ASSUME IInv, [Next]_vars
    PROVE  Honest
<1>1. TypeOK /\ calls \subseteq Calls /\ told \in [Messages -> [Users -> SUBSET Marks]]
  BY DEF IInv, TypeOK
<1>2. CASE UNCHANGED told
  BY <1>1, <1>2 DEF Honest
<1>3. ASSUME NEW s \in Sockets, DrainRemove(s) PROVE Honest
  <2>1. conn[s].pc = "remove" /\ Tell(Head(conn[s].batch), Owner[s], "DELIVERED") /\ status' = status
    BY <1>3 DEF DrainRemove, RemovesHead
  <2>2. Head(conn[s].batch) \in Messages /\ Owner[s] \in Users
    BY <2>1, MarksFindRows
  <2>3. status[Head(conn[s].batch)][Owner[s]] \in Marks
    BY <2>1 DEF IInv, DrainFits
  <2> QED
    BY <2>1, <2>2, <2>3, TellsHonestly
<1>4. ASSUME NEW c \in calls, CallLook(c) PROVE Honest
  <2>1. c.on \subseteq Messages /\ c.user \in Users
    BY <1>1 DEF Calls
  <2>2. /\ status' = status
        /\ \/ told' = told
           \/ \E m \in c.on : HasRow(m, c.user) /\ ~SeenSent(m, c.user) /\ Tell(m, c.user, "DELIVERED")
    BY <1>4 DEF CallLook
  <2>3. ASSUME NEW m \in c.on, HasRow(m, c.user), ~SeenSent(m, c.user), Tell(m, c.user, "DELIVERED")
        PROVE  Honest
    <3>1. m \in Messages /\ status[m][c.user] \in Statuses
      BY <1>1, <2>1 DEF TypeOK
    <3>2. status[m][c.user] \in Marks
      BY <2>3, <3>1 DEF HasRow, SeenSent, Statuses, Marks
    <3> QED
      BY <2>1, <2>2, <2>3, <3>1, <3>2, TellsHonestly
  <2> QED
    BY <1>2, <2>2, <2>3
<1>5. ASSUME NEW c \in calls, CallWrite(c) PROVE Honest
  <2> DEFINE mark == MarkOf(c.op)
  <2>1. c.on \in SUBSET Messages /\ c.user \in Users /\ mark \in Statuses /\ mark \in Marks
    BY <1>1 DEF Calls, MarkOf, Statuses, Marks
  <2>2. /\ SetStatus(c.on, c.user, mark)
        /\ told' = [m \in Messages |-> IF c.op # "read_all" /\ m \in c.on
                                      THEN [told[m] EXCEPT ![c.user] = @ \cup {mark}] ELSE told[m]]
    BY <1>5 DEF CallWrite, Writes
  <2> HIDE DEF mark
  <2>3. Written(c.on, c.user, mark)
    BY <1>1, <2>1, <2>2, SetStatusFacts
  <2>4. told' \in [Messages -> [Users -> SUBSET Marks]]
    BY <1>1, <2>1, <2>2
  <2>5. ASSUME NEW m \in Messages, NEW u \in Users, NEW x \in told'[m][u], x \notin told[m][u]
        PROVE  m \in c.on /\ u = c.user /\ x = mark
    BY <1>1, <2>1, <2>2, <2>5
  <2> QED
    BY <2>3, <2>4, <2>5 DEF Honest, Written
<1> QED
  BY <1>2, <1>3, <1>4, <1>5, WhoWrites DEF Frame, ToldStep

LEMMA SenderStaysTold ==
    ASSUME IInv, [Next]_vars
    PROVE  SenderToldTruth'
<1> SUFFICES ASSUME NEW m \in Messages, NEW u \in Users
             PROVE  /\ "DELIVERED" \in told'[m][u] => status'[m][u] \in Marks
                    /\ "READ" \in told'[m][u] => status'[m][u] = "READ" \/ <<m, u>> \in raced'
  BY DEF SenderToldTruth
<1>1. /\ "DELIVERED" \in told[m][u] => status[m][u] \in Marks
      /\ "READ" \in told[m][u] => status[m][u] = "READ" \/ <<m, u>> \in raced
  BY DEF IInv, SenderToldTruth
<1>2. status[m][u] \in Marks => status'[m][u] \in Marks
  BY RowsStay
<1>3. status[m][u] = "READ" /\ status'[m][u] # "READ" => <<m, u>> \in raced
  BY ReadsStay
<1>4. raced \subseteq raced'
  BY RacesStay
<1>5. "DELIVERED" \in told'[m][u] => "DELIVERED" \in told[m][u] \/ status'[m][u] \in Marks
  BY SenderHears DEF Honest, Marks
<1>6. "READ" \in told'[m][u] => "READ" \in told[m][u] \/ status'[m][u] = "READ"
  BY SenderHears DEF Honest, Marks
<1> QED
  BY <1>1, <1>2, <1>3, <1>4, <1>5, <1>6

----------------------------------------------------------------------------
(* Nothing is lost. *)

\* A message leaves an inbox by expiry, which is on record, or marked, after it was emitted.
LEMMA LeavesMarked ==
    ASSUME IInv, [Next]_vars, NEW u \in Users, NEW m \in Queued(u), m \notin Queued(u)'
    PROVE  \/ Expire(u) /\ <<m, u>> \in missed'
           \/ status[m][u] \in Marks /\ (m \in received[u] \/ <<m, u>> \in missed)
<1>1. TypeOK /\ Queued(u)' = Range(inbox'[u]) /\ Queued(u) = Range(inbox[u])
  BY DEF IInv, Queued
<1>2. CASE UNCHANGED inbox
  BY <1>1, <1>2
<1>3. ASSUME NEW v \in Users, NEW q, OneInbox(v, q), v # u \/ m \in Range(q) PROVE FALSE
  BY <1>1, <1>3, OneInboxFacts
<1>4. ASSUME NEW x \in Messages, NEW v \in Users, NEW q, OneInbox(v, q), Range(q) = Queued(v) \cup {x}
      PROVE  FALSE
  BY <1>3, <1>4
<1>5. ASSUME NEW s \in Sockets, RemovesHead(s), NEW q, OneInbox(Owner[s], q),
             Range(q) = Queued(Owner[s]) \ {Head(conn[s].batch)}
      PROVE  status[m][u] \in Marks /\ (m \in received[u] \/ <<m, u>> \in missed)
  <2>1. Owner[s] \in Users
    OBVIOUS
  <2>2. Owner[s] = u /\ m \notin Range(q)
    BY <1>3, <1>5, <2>1
  <2>3. m = Head(conn[s].batch)
    BY <1>5, <2>2
  <2>4. conn[s].pc = "remove"
    BY <1>5 DEF RemovesHead
  <2> QED
    BY <2>2, <2>3, <2>4 DEF IInv, DrainFits
<1>6. ASSUME NEW v \in Users, Expire(v), missed' = missed \cup {<<x, v>> : x \in Queued(v)},
             NEW q, OneInbox(v, q)
      PROVE  Expire(u) /\ <<m, u>> \in missed'
  <2>1. v = u
    BY <1>3, <1>6
  <2> QED
    BY <1>6, <2>1
<1> QED
  BY <1>2, <1>4, <1>5, <1>6, InboxSteps

\* A user becomes served only as the message is emitted, missed or queued.
LEMMA ServedSomehow ==
    ASSUME IInv, [Next]_vars, NEW m \in Messages, NEW u \in Users, u \in job'[m].sent, u \notin job[m].sent
    PROVE  m \in received'[u] \/ m \in Queued(u)' \/ <<m, u>> \in missed'
<1>1. job \in [Messages -> Jobs] /\ TypeOK
  BY DEF IInv, TypeOK
<1>2. PICK x \in Messages :
        \/ \E via \in {"socket", "rest"} : SendBegin(x, via)
        \/ SendCreate(x) \/ SendLookup(x) \/ CrashSend(x)
        \/ \E v \in Users : RouteCheck(x, v) \/ RouteEmit(x, v) \/ RouteQueue(x, v)
  BY WhoWrites DEF Frame, JobStep
<1>3. job[x] \in Jobs
  BY <1>1
<1>4. ASSUME NEW j \in Jobs, job' = [job EXCEPT ![x] = j], j.sent = job[x].sent PROVE FALSE
  <2>1. job'[m].sent = job[m].sent
    BY <1>1, <1>4
  <2> QED
    BY <2>1
<1>5. ASSUME NEW via \in {"socket", "rest"}, SendBegin(x, via) PROVE FALSE
  <2> DEFINE j == [job[x] EXCEPT !.pc = "create", !.via = via, !.to = member]
  <2>1. job' = [job EXCEPT ![x] = j]
    BY <1>5 DEF SendBegin
  <2>2. j \in Jobs /\ j.sent = job[x].sent
    BY <1>1, <1>3 DEF Jobs, TypeOK
  <2> HIDE DEF j
  <2> QED
    BY <1>4, <2>1, <2>2
<1>6. CASE SendCreate(x) \/ SendLookup(x) \/ CrashSend(x) \/ \E v \in Users : RouteCheck(x, v)
  <2>1. job'[x].sent = job[x].sent
    <3>1. ASSUME NEW pc, NEW to, job' = [job EXCEPT ![x].pc = pc, ![x].to = to] PROVE job'[x].sent = job[x].sent
      BY <1>1, <1>3, <3>1 DEF Jobs
    <3>2. ASSUME NEW pc, job' = [job EXCEPT ![x].pc = pc] PROVE job'[x].sent = job[x].sent
      BY <1>1, <1>3, <3>2 DEF Jobs
    <3>3. ASSUME NEW pc, NEW v, job' = [job EXCEPT ![x].pc = pc, ![x].to = @ \ {v}, ![x].at = {v}]
          PROVE  job'[x].sent = job[x].sent
      BY <1>1, <1>3, <3>3 DEF Jobs
    <3> QED
      BY <1>6, <3>1, <3>2, <3>3 DEF SendCreate, SendLookup, CrashSend, RouteCheck
  <2>2. \A y \in Messages \ {x} : job'[y] = job[y]
    BY <1>1, <1>6 DEF SendCreate, SendLookup, CrashSend, RouteCheck
  <2> QED
    BY <2>1, <2>2
<1>7. ASSUME NEW v \in Users, Served(x, v) PROVE x = m /\ v = u
  <2> DEFINE j == [job[x] EXCEPT !.pc = "route", !.at = {}, !.sent = @ \cup {v}]
  <2>1. job' = [job EXCEPT ![x] = j]
    BY <1>1, <1>7 DEF Served
  <2>2. j.sent = job[x].sent \cup {v}
    BY <1>3 DEF Jobs
  <2> HIDE DEF j
  <2> QED
    BY <1>1, <2>1, <2>2
<1>8. ASSUME NEW v \in Users, RouteEmit(x, v) PROVE m \in received'[u] \/ <<m, u>> \in missed'
  <2>1. x = m /\ v = u
    BY <1>7, <1>8 DEF RouteEmit
  <2> QED
    BY <1>1, <1>8, <2>1 DEF RouteEmit, TypeOK
<1>9. ASSUME NEW v \in Users, RouteQueue(x, v) PROVE m \in Queued(u)'
  <2>1. x = m /\ v = u
    BY <1>7, <1>9 DEF RouteQueue
  <2>2. OneInbox(u, Append(inbox[u], m)) /\ Range(Append(inbox[u], m)) = Queued(u) \cup {m}
    BY <1>9, <2>1, QueueAppends
  <2> DEFINE q == Append(inbox[u], m)
  <2>3. OneInbox(u, q) /\ m \in Range(q)
    BY <2>2
  <2> HIDE DEF q
  <2>4. inbox'[u] = q
    BY <1>1, <2>3, OneInboxFacts
  <2> QED
    BY <2>3, <2>4 DEF Queued
<1> QED
  BY <1>2, <1>5, <1>6, <1>8, <1>9

LEMMA NothingGetsLost ==
    ASSUME IInv, [Next]_vars
    PROVE  NothingLost'
<1> SUFFICES ASSUME NEW m \in Messages, NEW u \in job'[m].sent
             PROVE  m \in received'[u] \/ m \in Queued(u)' \/ <<m, u>> \in missed'
  BY DEF NothingLost
<1>1. u \in Users
  BY JobsAdvance DEF Jobs
<1>2. CASE u \in job[m].sent
  <2>1. m \in received[u] \/ m \in Queued(u) \/ <<m, u>> \in missed
    BY <1>2 DEF IInv, NothingLost
  <2>2. received[u] \subseteq received'[u] /\ missed \subseteq missed'
    BY <1>1, SeenGrows
  <2>3. m \in Queued(u) /\ m \notin Queued(u)' => <<m, u>> \in missed' \/ m \in received[u] \/ <<m, u>> \in missed
    BY <1>1, LeavesMarked
  <2> QED
    BY <2>1, <2>2, <2>3
<1>3. CASE u \notin job[m].sent
  BY <1>1, <1>3, ServedSomehow
<1> QED
  BY <1>2, <1>3

----------------------------------------------------------------------------
(* Types, and the invariant. *)

LEMMA MembersStay ==
    ASSUME IInv, [Next]_vars
    PROVE  member' \subseteq Users
  BY WhoWrites DEF Frame, ChangeMember, IInv, TypeOK

LEMMA TypesStay ==
    ASSUME IInv, [Next]_vars
    PROVE  TypeOK'
<1>1. member' \subseteq Users
  BY MembersStay
<1>2. /\ status' \in [Messages -> [Users -> Statuses]]
      /\ \A m \in Messages, u \in Users : HasRow(m, u)' => HasRow(m, u) \/ Created(m)'
  BY RowsStay
<1>3. job' \in [Messages -> Jobs] /\ \A m \in Messages : Created(m) => Created(m)'
  BY JobsAdvance
<1>4. inbox' \in [Users -> Seq(Messages)] /\ \A u \in Users : IsInjective(inbox'[u])
  BY InboxesFit
<1>5. online' \subseteq Users /\ stranded' \subseteq Users
  BY KeysBacked
<1>6. conn' \in [Sockets -> Conns] /\ bye' \subseteq Sockets
  BY ConnsFit
<1>7. calls' \subseteq Calls
  BY CallsFit
<1>8. told' \in [Messages -> [Users -> SUBSET Marks]]
  BY SenderHears DEF Honest
<1>9. received' \in [Users -> SUBSET Messages] /\ missed' \subseteq Messages \X Users
  BY SeenGrows
<1>10. raced' \subseteq Messages \X Users
  BY RacesStay
<1>11. \A m \in Messages, u \in Users : HasRow(m, u)' => job'[m].pc \notin {"new", "create"}
  <2>1. \A m \in Messages, u \in Users : HasRow(m, u) => Created(m)
    BY DEF IInv, TypeOK, Created
  <2>2. \A m \in Messages, u \in Users : HasRow(m, u)' => Created(m)'
    BY <1>2, <1>3, <2>1
  <2> QED
    BY <2>2 DEF Created
<1> QED
  BY <1>1, <1>2, <1>3, <1>4, <1>5, <1>6, <1>7, <1>8, <1>9, <1>10, <1>11 DEF TypeOK

LEMMA NextPreserves == IInv /\ [Next]_vars => IInv'
<1> SUFFICES ASSUME IInv, [Next]_vars PROVE IInv'
  OBVIOUS
<1>1. TypeOK' /\ NothingLost' /\ SenderToldTruth' /\ MarksFit'
  BY TypesStay, NothingGetsLost, SenderStaysTold, MarksStayRecorded
<1>2. (\A m \in Messages : JobFits(m)') /\ (\A u \in Users : InboxFits(u)') /\ (\A c \in calls' : CallFits(c)')
  BY JobsAdvance, InboxesFit, CallsFit
<1>3. (\A s \in Sockets : DrainFits(s)' /\ SocketFits(s)') /\ KeyHasSocket'
  BY ConnsFit, KeysBacked
<1> QED
  BY <1>1, <1>2, <1>3 DEF IInv

LEMMA InitEstablishes == Init => IInv
<1> SUFFICES ASSUME Init PROVE IInv
  OBVIOUS
<1>1. /\ \A m \in Messages : job[m] = [pc |-> "new", via |-> "socket", to |-> {}, at |-> {}, sent |-> {}]
      /\ \A s \in Sockets : conn[s] = NoConn
      /\ \A u \in Users : inbox[u] = <<>> /\ received[u] = {}
      /\ \A m \in Messages, u \in Users : status[m][u] = "none" /\ told[m][u] = {}
  BY DEF Init
<1>2. NoConn \in Conns /\ NoConn.pc = "idle" /\ ~NoConn.live /\ NoConn.batch = <<>> /\ Len(NoConn.batch) = 0
  BY DEF NoConn, Conns
<1>3. \A m \in Messages : job[m] \in Jobs /\ job[m].pc = "new" /\ job[m].to = {} /\ job[m].at = {} /\ job[m].sent = {}
  BY <1>1 DEF Jobs
<1>4. \A u \in Users : Queued(u) = {} /\ IsInjective(inbox[u])
  BY <1>1 DEF Queued, Range, IsInjective
<1>5. TypeOK
  <2>1. job \in [Messages -> Jobs] /\ conn \in [Sockets -> Conns] /\ inbox \in [Users -> Seq(Messages)]
    BY <1>1, <1>2, <1>3 DEF Init
  <2>2. status \in [Messages -> [Users -> Statuses]] /\ told \in [Messages -> [Users -> SUBSET Marks]]
        /\ received \in [Users -> SUBSET Messages]
    BY DEF Init, Statuses
  <2>3. member \subseteq Users /\ online \subseteq Users /\ bye \subseteq Sockets /\ calls \subseteq Calls
        /\ missed \subseteq Messages \X Users /\ raced \subseteq Messages \X Users /\ stranded \subseteq Users
    BY DEF Init
  <2> QED
    BY <1>1, <1>4, <2>1, <2>2, <2>3 DEF TypeOK, HasRow
<1>6. (\A m \in Messages : JobFits(m)) /\ NothingLost
  BY <1>3 DEF JobFits, NothingLost
<1>7. (\A u \in Users : InboxFits(u)) /\ (\A c \in calls : CallFits(c)) /\ KeyHasSocket
  BY <1>4 DEF InboxFits, KeyHasSocket, Init
<1>8. \A s \in Sockets : DrainFits(s) /\ SocketFits(s)
  BY <1>1, <1>2 DEF DrainFits, SocketFits
<1>9. MarksFit /\ SenderToldTruth
  BY <1>1 DEF MarksFit, SenderToldTruth
<1> QED
  BY <1>5, <1>6, <1>7, <1>8, <1>9 DEF IInv

LEMMA Invariance == Spec => []IInv
  BY InitEstablishes, NextPreserves, PTL DEF Spec

----------------------------------------------------------------------------
(* Theorems. *)

\* Every variable keeps its type, a row appears with its message, and no inbox holds a message
\* twice, whatever calls of messages.service.ts and redis.service.ts interleave.
THEOREM TypeCorrect == Spec => []TypeOK
<1>1. IInv => TypeOK
  BY DEF IInv
<1> QED
  BY <1>1, Invariance, PTL

\* A message served by deliverToParticipants is received, waits in the inbox, or was lost by a
\* send to a key without sockets, by a drain that went on for its closed socket, or by expiry: no
\* interleaving with the drains of any devices, no rejected command and no server that stops
\* loses it otherwise.
THEOREM NothingIsLost == Spec => []NothingLost
<1>1. IInv => NothingLost
  BY DEF IInv
<1> QED
  BY <1>1, Invariance, PTL

\* message_delivered and message_read tell what the status rows say, outside of the race of a
\* delivery mark with a read.
THEOREM SendersHearTruth == Spec => []SenderToldTruth
<1>1. IInv => SenderToldTruth
  BY DEF IInv
<1> QED
  BY <1>1, Invariance, PTL

\* setUserOnline and setUserOffline of one socket take effect in order: a key without a socket
\* is about to go, unless a server stopped or a DEL was rejected.
THEOREM KeysHaveSockets == Spec => []KeyHasSocket
<1>1. IInv => KeyHasSocket
  BY DEF IInv
<1> QED
  BY <1>1, Invariance, PTL

\* markMessageAsDelivered takes READ back only where it had seen SENT before the read.
THEOREM ReadsStick == Spec => ReadSticks
<1>1. IInv /\ [Next]_vars =>
        [\A m \in Messages, u \in Users :
            status[m][u] = "READ" /\ status'[m][u] # "READ" => <<m, u>> \in raced]_vars
  BY ReadsStay
<1> QED
  BY <1>1, Invariance, PTL DEF Spec, ReadSticks

\* Apart from expiry a message leaves an inbox only once its row is marked, however the drains
\* of several devices overlap, wherever a server stops and whichever command is rejected.
THEOREM QueuedStay == Spec => QueuedUntilMarked
<1>1. IInv /\ [Next]_vars =>
        [\A u \in Users : ~Expire(u) =>
            \A m \in Queued(u) : m \notin Queued(u)' => status[m][u] \in Marks]_vars
  BY LeavesMarked
<1> QED
  BY <1>1, Invariance, PTL DEF Spec, QueuedUntilMarked
=============================================================================
