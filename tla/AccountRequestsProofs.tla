------------------------ MODULE AccountRequestsProofs ------------------------
(***************************************************************************)
(* That the limiter is a fixed window, that links are replaced and serve   *)
(* once, and that answers tell the truth, for any number of requests in    *)
(* flight, any limit, any passwords and any number of links.               *)
(***************************************************************************)
EXTENDS AccountRequests, FiniteSetTheorems, TLAPS

----------------------------------------------------------------------------
(* The inductive invariant.                                                *)

\* What is known of a request from its stage.
StageFits(w) ==
    LET r == req[w]
    IN  /\ r.pc \in {"limit_count", "limit_expire", "forgot_find"} => r.op = "forgot"
        /\ r.pc = "limit_count" => r.status = 0 /\ r.counted
        /\ r.pc = "send_find" => r.op = "send"
        /\ r.pc \in {"link_delete", "link_create", "link_mail"} => r.op \in {"forgot", "send"}
        /\ r.pc \in {"reset_find", "reset_commit"} => r.op = "reset"
        /\ r.pc \in {"change_find", "change_write"} => r.op = "change"
        /\ r.pc \in {"verify_find", "verify_write", "verify_delete"} => r.op = "verify"
        /\ r.pc \in {"reset_find", "reset_commit", "change_find", "change_write"} => r.new \in Passwords

\* Before its answer a request has no status but 408; what it was asked for is made, or not, as
\* its stage says; and its answer is true.
AnswerFits(w) ==
    LET r == req[w]
    IN  /\ r.pc # "answered" => r.status \in {0, 408}
        /\ r.pc \in {"link_mail", "verify_delete"} => r.done
        /\ r.pc \notin {"link_mail", "verify_delete", "answered"} => ~r.done
        /\ r.pc = "answered" /\ r.status = 200 => r.done \/ ~r.known
        /\ r.pc = "answered" /\ r.status \in {400, 401, 404, 429} /\ r.done =>
             r.op = "verify" /\ w \in crossed

\* Of the rows of a link, if there are any, one is unused.
NotUsedUp(id, rows) == (\E l \in rows : l.id = id) => \E l \in rows : l.id = id /\ ~l.used

\* What a request relies on is still so, or the request has been crossed.
ReadsHold(w) ==
    LET r == req[w]
    IN  \/ w \in crossed
        \/ /\ r.pc = "link_create" => IF r.op = "forgot" THEN links = {} ELSE codes = {}
           /\ r.pc = "reset_commit" => NotUsedUp(r.link, links)
           /\ r.pc \in {"verify_write", "verify_delete"} => r.link \in codes

Sound(w) == StageFits(w) /\ AnswerFits(w) /\ ReadsHold(w)

IInv == TypeOK /\ CounterEnds /\ \A w \in Workers : Sound(w)

USE MaxAssumption, BoundsAssumption, NullAssumption
    DEF At, Advance, Resting

\* The statuses the handlers end with.
LEMMA StatusValues ==
    /\ StatusOf("none") = 200 /\ StatusOf("BadRequestException") = 400
    /\ StatusOf("UnauthorizedException") = 401 /\ StatusOf("P2025") = 404
    /\ StatusOf("TOO_MANY_REQUESTS") = 429 /\ StatusOf("Error") = 500
  BY DEF StatusOf

\* A request that has nothing to do owes nothing.
LEMMA IdleIsSound == Idle \in Requests /\ Idle.pc = "idle" /\ Idle.op = "none" /\ Idle.status = 0
                     /\ ~Idle.done /\ Idle.counted
  BY DEF Idle, Requests, Stages, Ids

\* What it is to rewrite one request.
LEMMA OneRequest ==
    ASSUME req \in [Workers -> Requests], NEW w \in Workers, NEW r \in Requests, GoTo(w, r)
    PROVE  req' \in [Workers -> Requests] /\ req'[w] = r /\ \A v \in Workers \ {w} : req'[v] = req[v]
  BY DEF GoTo

\* What it is to end with an answer.
LEMMA Answered ==
    ASSUME TypeOK, NEW w \in Workers, NEW r0 \in Requests, NEW s \in Statuses, AnswerOf(w, r0, s)
    PROVE  \E r \in Requests :
              /\ GoTo(w, r)
              /\ r.pc = "answered" /\ r.op = r0.op /\ r.known = r0.known /\ r.done = r0.done
              /\ r.status = IF r0.status = 408 THEN 408 ELSE s
<1> DEFINE status == IF r0.status = 408 THEN 408 ELSE s
           r == [Idle EXCEPT !.pc = "answered", !.op = r0.op, !.known = r0.known, !.done = r0.done, !.status = status]
<1>1. status \in Statuses
  BY DEF Statuses
<1>2. GoTo(w, r)
  BY DEF AnswerOf
<1> HIDE DEF status
<1>3. r \in Requests
  <2>1. [Idle EXCEPT !.pc = "answered", !.status = status] \in Requests
    BY <1>1, IdleIsSound DEF Requests, Stages
  <2>2. r = [[Idle EXCEPT !.pc = "answered", !.status = status]
                EXCEPT !.op = r0.op, !.known = r0.known, !.done = r0.done]
    BY IdleIsSound DEF Requests
  <2> HIDE DEF r
  <2> QED
    BY <2>1, <2>2 DEF Requests
<1>4. /\ r.pc = "answered" /\ r.op = r0.op /\ r.known = r0.known /\ r.done = r0.done /\ r.status = status
  BY IdleIsSound DEF Requests
<1> HIDE DEF r
<1> WITNESS r \in Requests
<1> QED
  BY <1>2, <1>4 DEF status

\* A step of w leaves another request sound if it crosses it wherever it disturbs it.
LEMMA OthersStay ==
    ASSUME IInv, NEW v \in Workers, req'[v] = req[v], v \in crossed => v \in crossed',
           req[v].pc = "link_create" /\ req[v].op = "forgot" /\ links = {} => v \in crossed' \/ links' = {},
           req[v].pc = "link_create" /\ req[v].op # "forgot" /\ codes = {} => v \in crossed' \/ codes' = {},
           req[v].pc = "reset_commit" /\ NotUsedUp(req[v].link, links) =>
             v \in crossed' \/ NotUsedUp(req[v].link, links'),
           req[v].pc \in {"verify_write", "verify_delete"} /\ req[v].link \in codes =>
             v \in crossed' \/ req[v].link \in codes'
    PROVE  Sound(v)'
<1>1. Sound(v)
  BY DEF IInv
<1>2. StageFits(v)'
  BY <1>1 DEF Sound, StageFits
<1>3. AnswerFits(v)'
  BY <1>1 DEF Sound, AnswerFits
<1>4. ReadsHold(v)'
  BY <1>1 DEF Sound, ReadsHold
<1> QED
  BY <1>2, <1>3, <1>4 DEF Sound

\* A step of a request that changes nothing others rely on.
LEMMA QuietStep ==
    ASSUME IInv, NEW w \in Workers, NEW r \in Requests, GoTo(w, r),
           UNCHANGED <<links, codes>>, crossed \ {w} \subseteq crossed', crossed' \subseteq Workers,
           counter' \in 0..Max + 1, expires' \in BOOLEAN, redisFailed' \in BOOLEAN,
           password' \in Passwords, verified' \in BOOLEAN, UNCHANGED nextId,
           CounterEnds', Sound(w)'
    PROVE  IInv'
<1>1. /\ req' \in [Workers -> Requests] /\ \A v \in Workers \ {w} : req'[v] = req[v]
  BY OneRequest DEF IInv, TypeOK
<1>2. TypeOK'
  BY <1>1 DEF IInv, TypeOK
<1>3. ASSUME NEW v \in Workers \ {w} PROVE Sound(v)'
  BY <1>1, OthersStay
<1> QED
  BY <1>2, <1>3 DEF IInv

\* Away from the two commands of the limiter, no counter loses what will make it end.
LEMMA LimiterRests ==
    ASSUME IInv, NEW w \in Workers, NEW r \in Requests, GoTo(w, r), req[w].pc # "limit_expire",
           UNCHANGED limiter
    PROVE  CounterEnds'
<1>1. /\ req' \in [Workers -> Requests] /\ \A v \in Workers \ {w} : req'[v] = req[v]
  BY OneRequest DEF IInv, TypeOK
<1> QED
  BY <1>1 DEF IInv, CounterEnds, limiter

\* Everything is new.
LEMMA InitEstablishes == Init => IInv
<1> SUFFICES ASSUME Init PROVE IInv
  OBVIOUS
<1>1. req \in [Workers -> Requests] /\ counter \in 0..Max + 1 /\ nextId \in Ids
  BY IdleIsSound DEF Init, Ids
<1>2. TypeOK /\ CounterEnds
  <2>1. TypeOK
    BY <1>1 DEF Init, TypeOK
  <2>2. CounterEnds
    BY DEF Init, CounterEnds
  <2> QED
    BY <2>1, <2>2
<1>3. ASSUME NEW w \in Workers PROVE Sound(w)
  BY IdleIsSound DEF Init, Sound, StageFits, AnswerFits, ReadsHold
<1> QED
  BY <1>2, <1>3 DEF IInv

----------------------------------------------------------------------------
(* Every step preserves the invariant.                                     *)

LEMMA BeginPreserves ==
    ASSUME IInv, NEW w \in Workers, NEW r \in Requests, Begin(w, r),
           r.status = 0, ~r.done, r.counted,
           \/ r.pc = "limit_count" /\ r.op = "forgot"
           \/ r.pc = "send_find" /\ r.op = "send"
           \/ r.pc = "reset_find" /\ r.op = "reset" /\ r.new \in Passwords
           \/ r.pc = "change_find" /\ r.op = "change" /\ r.new \in Passwords
           \/ r.pc = "verify_find" /\ r.op = "verify"
    PROVE  IInv'
<1>1. GoTo(w, r) /\ UNCHANGED limiter /\ UNCHANGED account
      /\ crossed' = crossed \ {w} /\ req[w].pc # "limit_expire"
  BY DEF Begin, limiter, account
<1>2. CounterEnds'
  BY <1>1, LimiterRests
<1>3. Sound(w)'
  <2>1. req'[w] = r
    BY <1>1, OneRequest DEF IInv, TypeOK
  <2> QED
    BY <2>1 DEF Sound, StageFits, AnswerFits, ReadsHold
<1>4. TypeOK
  BY DEF IInv
<1> QED
  BY <1>1, <1>2, <1>3, <1>4, QuietStep DEF limiter, account, TypeOK

\* The beginnings of the five kinds of requests.
LEMMA AllBeginningsPreserve ==
    ASSUME IInv, NEW w \in Workers,
           \/ ForgotBegin(w) \/ SendBegin(w)
           \/ \E id \in Ids : VerifyBegin(w, id) \/ \E new \in Passwords : ResetBegin(w, id, new)
           \/ \E old, new \in Passwords : ChangeBegin(w, old, new)
    PROVE  IInv'
<1>1. CASE ForgotBegin(w)
  <2> DEFINE r == [Idle EXCEPT !.pc = "limit_count", !.op = "forgot"]
  <2>1. r \in Requests /\ r.status = 0 /\ ~r.done /\ r.counted /\ r.pc = "limit_count" /\ r.op = "forgot"
    BY IdleIsSound DEF Requests, Stages
  <2>2. Begin(w, r)
    BY <1>1 DEF ForgotBegin
  <2> HIDE DEF r
  <2> QED
    BY <2>1, <2>2, BeginPreserves
<1>2. CASE SendBegin(w)
  <2> DEFINE r == [Idle EXCEPT !.pc = "send_find", !.op = "send"]
  <2>1. r \in Requests /\ r.status = 0 /\ ~r.done /\ r.counted /\ r.pc = "send_find" /\ r.op = "send"
    BY IdleIsSound DEF Requests, Stages
  <2>2. Begin(w, r)
    BY <1>2 DEF SendBegin
  <2> HIDE DEF r
  <2> QED
    BY <2>1, <2>2, BeginPreserves
<1>3. ASSUME NEW id \in Ids, VerifyBegin(w, id) PROVE IInv'
  <2> DEFINE r == [Idle EXCEPT !.pc = "verify_find", !.op = "verify", !.link = id]
  <2>1. r \in Requests /\ r.status = 0 /\ ~r.done /\ r.counted /\ r.pc = "verify_find" /\ r.op = "verify"
    BY IdleIsSound DEF Requests, Stages
  <2>2. Begin(w, r)
    BY <1>3 DEF VerifyBegin
  <2> HIDE DEF r
  <2> QED
    BY <2>1, <2>2, BeginPreserves
<1>4. ASSUME NEW id \in Ids, NEW new \in Passwords, ResetBegin(w, id, new) PROVE IInv'
  <2> DEFINE r == [Idle EXCEPT !.pc = "reset_find", !.op = "reset", !.link = id, !.new = new]
  <2>1. /\ r \in Requests /\ r.status = 0 /\ ~r.done /\ r.counted
        /\ r.pc = "reset_find" /\ r.op = "reset" /\ r.new \in Passwords
    BY IdleIsSound DEF Requests, Stages
  <2>2. Begin(w, r)
    BY <1>4 DEF ResetBegin
  <2> HIDE DEF r
  <2> QED
    BY <2>1, <2>2, BeginPreserves
<1>5. ASSUME NEW old \in Passwords, NEW new \in Passwords, ChangeBegin(w, old, new) PROVE IInv'
  <2> DEFINE r == [Idle EXCEPT !.pc = "change_find", !.op = "change", !.old = old, !.new = new]
  <2>1. /\ r \in Requests /\ r.status = 0 /\ ~r.done /\ r.counted
        /\ r.pc = "change_find" /\ r.op = "change" /\ r.new \in Passwords
    BY IdleIsSound DEF Requests, Stages
  <2>2. Begin(w, r)
    BY <1>5 DEF ChangeBegin
  <2> HIDE DEF r
  <2> QED
    BY <2>1, <2>2, BeginPreserves
<1> QED
  BY <1>1, <1>2, <1>3, <1>4, <1>5

\* A handler that answers without having written anything more.
LEMMA AnswerPreserves ==
    ASSUME IInv, NEW w \in Workers, NEW r0 \in Requests, NEW s \in Statuses, AnswerOf(w, r0, s),
           UNCHANGED <<links, codes, nextId, crossed>>,
           counter' \in 0..Max + 1, expires' \in BOOLEAN, redisFailed' \in BOOLEAN,
           password' \in Passwords, verified' \in BOOLEAN, CounterEnds',
           s = 200 => r0.done \/ ~r0.known,
           s \in {400, 401, 404, 429} => ~r0.done
    PROVE  IInv'
<1>1. PICK r \in Requests :
         /\ GoTo(w, r)
         /\ r.pc = "answered" /\ r.op = r0.op /\ r.known = r0.known /\ r.done = r0.done
         /\ r.status = IF r0.status = 408 THEN 408 ELSE s
  BY Answered DEF IInv
<1>2. req'[w] = r
  BY <1>1, OneRequest DEF IInv, TypeOK
<1>3. Sound(w)'
  BY <1>1, <1>2 DEF Sound, StageFits, AnswerFits, ReadsHold
<1>4. crossed \subseteq Workers
  BY DEF IInv, TypeOK
<1> QED
  BY <1>1, <1>3, <1>4, QuietStep

\* A handler that goes on after a read or a command of the limiter.
LEMMA AdvancePreserves ==
    ASSUME IInv, NEW w \in Workers,
           NEW pc \in {"limit_expire", "forgot_find", "link_delete", "reset_commit", "change_write", "verify_write"},
           Advance(w, pc), UNCHANGED <<links, codes, nextId, crossed, password, verified>>,
           counter' \in 0..Max + 1, expires' \in BOOLEAN, redisFailed' \in BOOLEAN, CounterEnds',
           req[w].pc \notin {"answered", "link_mail", "verify_delete"},
           pc \in {"limit_expire", "forgot_find"} => req[w].op = "forgot",
           pc = "link_delete" => req[w].op \in {"forgot", "send"},
           pc = "reset_commit" => /\ req[w].op = "reset" /\ req[w].new \in Passwords
                                  /\ NotUsedUp(req[w].link, links),
           pc = "change_write" => req[w].op = "change" /\ req[w].new \in Passwords,
           pc = "verify_write" => req[w].op = "verify" /\ req[w].link \in codes
    PROVE  IInv'
<1> DEFINE r == [req[w] EXCEPT !.pc = pc]
<1>1. TypeOK /\ req[w] \in Requests /\ AnswerFits(w)
  BY DEF IInv, TypeOK, Sound
<1>2. /\ r \in Requests /\ r.pc = pc /\ r.op = req[w].op /\ r.link = req[w].link /\ r.new = req[w].new
      /\ r.status = req[w].status /\ r.done = req[w].done
  BY <1>1 DEF Requests, Stages
<1>3. GoTo(w, r)
  OBVIOUS
<1> HIDE DEF r
<1>4. req'[w] = r
  BY <1>1, <1>2, <1>3, OneRequest DEF TypeOK
<1>5. StageFits(w)' /\ AnswerFits(w)'
  BY <1>1, <1>2, <1>4 DEF StageFits, AnswerFits
<1>6. ReadsHold(w)'
  BY <1>2, <1>4 DEF ReadsHold
<1>7. Sound(w)'
  BY <1>5, <1>6 DEF Sound
<1> QED
  BY <1>1, <1>2, <1>3, <1>7, QuietStep DEF TypeOK

\* Finds that fail end the request, finds that succeed establish what it relies on.
LEMMA FindsPreserve ==
    ASSUME IInv, NEW w \in Workers,
           ForgotFind(w) \/ SendFind(w) \/ ResetFind(w) \/ ChangeFind(w) \/ VerifyFind(w)
    PROVE  IInv'
<1>1. /\ UNCHANGED limiter /\ UNCHANGED account /\ UNCHANGED crossed
      /\ req[w].pc \in {"forgot_find", "send_find", "reset_find", "change_find", "verify_find"}
  BY DEF ForgotFind, SendFind, ResetFind, ChangeFind, VerifyFind
<1>2. TypeOK /\ req[w] \in Requests /\ StageFits(w) /\ AnswerFits(w) /\ ~req[w].done
  BY <1>1 DEF IInv, TypeOK, Sound, AnswerFits
<1>3. ASSUME NEW r0 \in Requests, NEW s \in Statuses, AnswerOf(w, r0, s), ~r0.done, s = 200 => ~r0.known PROVE IInv'
  <2>1. PICK r \in Requests : GoTo(w, r)
    BY <1>2, <1>3, Answered
  <2>2. CounterEnds'
    BY <1>1, <2>1, LimiterRests
  <2> QED
    BY <1>1, <1>2, <1>3, <2>2, AnswerPreserves DEF limiter, account, TypeOK
<1>4. ASSUME NEW pc \in {"link_delete", "reset_commit", "change_write", "verify_write"}, Advance(w, pc),
             pc = "link_delete" => req[w].pc = "send_find",
             pc = "reset_commit" => req[w].pc = "reset_find" /\ Opens(req[w].link),
             pc = "change_write" => req[w].pc = "change_find",
             pc = "verify_write" => req[w].pc = "verify_find" /\ req[w].link \in codes
      PROVE  IInv'
  <2>1. [req[w] EXCEPT !.pc = pc] \in Requests
    BY <1>2 DEF Requests, Stages
  <2>2. CounterEnds'
    BY <1>1, <1>4, <2>1, LimiterRests
  <2>3. pc = "reset_commit" => NotUsedUp(req[w].link, links)
    BY <1>4 DEF Opens, Row, NotUsedUp
  <2> QED
    BY <1>1, <1>2, <1>4, <2>2, <2>3, AdvancePreserves DEF limiter, account, TypeOK, StageFits
<1>5. {200, 400, 401} \subseteq Statuses
  BY DEF Statuses
<1>6. CASE Unknown(w)
  <2> DEFINE r0 == [req[w] EXCEPT !.known = FALSE]
  <2>1. r0 \in Requests /\ ~r0.done /\ ~r0.known
    BY <1>2 DEF Requests
  <2>2. AnswerOf(w, r0, 200)
    BY <1>6, StatusValues DEF Unknown
  <2> HIDE DEF r0
  <2> QED
    BY <1>3, <1>5, <2>1, <2>2
<1>7. CASE ForgotFind(w) /\ ~Unknown(w)
  <2> DEFINE r == [req[w] EXCEPT !.pc = "link_delete", !.counted = TRUE]
  <2>1. GoTo(w, r) /\ req[w].pc = "forgot_find"
    BY <1>7 DEF ForgotFind
  <2>2. /\ r \in Requests /\ r.pc = "link_delete" /\ r.op = req[w].op
        /\ r.status = req[w].status /\ r.done = req[w].done
    BY <1>2 DEF Requests, Stages
  <2> HIDE DEF r
  <2>3. req'[w] = r
    BY <1>2, <2>1, <2>2, OneRequest DEF TypeOK
  <2>4. Sound(w)'
    BY <1>2, <2>1, <2>2, <2>3 DEF Sound, StageFits, AnswerFits, ReadsHold
  <2>5. CounterEnds'
    BY <1>1, <2>1, <2>2, LimiterRests
  <2> QED
    BY <1>1, <1>2, <2>1, <2>2, <2>4, <2>5, QuietStep DEF limiter, account, TypeOK
<1>8. CASE SendFind(w) /\ ~Unknown(w)
  BY <1>2, <1>3, <1>4, <1>5, <1>8, StatusValues DEF SendFind, Ends
<1>9. CASE ResetFind(w)
  BY <1>2, <1>3, <1>4, <1>5, <1>9, StatusValues DEF ResetFind, Ends
<1>10. CASE ChangeFind(w)
  BY <1>2, <1>3, <1>4, <1>5, <1>10, StatusValues DEF ChangeFind, Ends
<1>11. CASE VerifyFind(w)
  BY <1>2, <1>3, <1>4, <1>5, <1>11, StatusValues DEF VerifyFind, Ends
<1> QED
  BY <1>6, <1>7, <1>8, <1>9, <1>10, <1>11

\* The commands of the limiter: a first count leaves the expiry to the request that made it.
LEMMA LimitCountPreserves ==
    ASSUME IInv, NEW w \in Workers, LimitCount(w)
    PROVE  IInv'
<1>1. /\ req[w].pc = "limit_count" /\ counter' = Increased
      /\ UNCHANGED <<expires, redisFailed, crossed>> /\ UNCHANGED account
  BY DEF LimitCount
<1>2. TypeOK /\ CounterEnds /\ req[w] \in Requests /\ StageFits(w) /\ ~req[w].done
  BY <1>1 DEF IInv, TypeOK, Sound, AnswerFits
<1>3. counter' \in 0..Max + 1 /\ (counter = 0 => counter' = 1 /\ ~Refuses(counter') /\ SetsExpiry(counter'))
  BY <1>1, <1>2 DEF Increased, TypeOK, Refuses, SetsExpiry
<1>4. ASSUME NEW r \in Requests, GoTo(w, r), counter = 0 => r.pc = "limit_expire"
      PROVE  CounterEnds'
  <2>1. req'[w] = r /\ \A v \in Workers \ {w} : req'[v] = req[v]
    BY <1>2, <1>4, OneRequest DEF TypeOK
  <2>2. CASE counter = 0
    BY <1>4, <2>1, <2>2 DEF CounterEnds
  <2>3. CASE counter # 0
    BY <1>1, <1>2, <2>1, <2>3 DEF CounterEnds, TypeOK
  <2> QED
    BY <2>2, <2>3
<1>5. CASE Refuses(counter')
  <2>1. AnswerOf(w, req[w], 429)
    BY <1>5, StatusValues DEF LimitCount, Ends
  <2>2. 429 \in Statuses
    BY DEF Statuses
  <2>3. PICK r \in Requests : GoTo(w, r)
    BY <1>2, <2>1, <2>2, Answered
  <2>4. CounterEnds'
    BY <1>3, <1>4, <1>5, <2>3
  <2> QED
    BY <1>1, <1>2, <1>3, <2>1, <2>2, <2>4, AnswerPreserves DEF account, TypeOK
<1>6. CASE ~Refuses(counter')
  <2> DEFINE pc == IF SetsExpiry(counter') THEN "limit_expire" ELSE "forgot_find"
             r == [req[w] EXCEPT !.pc = pc]
  <2>1. Advance(w, pc) /\ pc \in {"limit_expire", "forgot_find"} /\ (counter = 0 => pc = "limit_expire")
    BY <1>3, <1>6 DEF LimitCount
  <2> HIDE DEF pc
  <2>2. r \in Requests /\ r.pc = pc
    BY <1>2, <2>1 DEF Requests, Stages
  <2>3. CounterEnds'
    BY <1>4, <2>1, <2>2
  <2> QED
    BY <1>1, <1>2, <1>3, <2>1, <2>3, AdvancePreserves DEF account, TypeOK, StageFits
<1> QED
  BY <1>5, <1>6

LEMMA LimitExpirePreserves ==
    ASSUME IInv, NEW w \in Workers, LimitExpire(w)
    PROVE  IInv'
<1>1. /\ req[w].pc = "limit_expire" /\ expires' = TRUE /\ Advance(w, "forgot_find")
      /\ UNCHANGED <<counter, redisFailed, crossed>> /\ UNCHANGED account
  BY DEF LimitExpire
<1>2. TypeOK /\ StageFits(w)
  BY DEF IInv, Sound
<1>3. CounterEnds'
  BY <1>1 DEF CounterEnds
<1> QED
  BY <1>1, <1>2, <1>3, AdvancePreserves DEF account, TypeOK, StageFits

LEMMA LimitFailsPreserves ==
    ASSUME IInv, NEW w \in Workers, LimitFails(w)
    PROVE  IInv'
<1>1. redisFailed' = (counter' > 0) /\ UNCHANGED account /\ UNCHANGED crossed
  BY DEF LimitFails
<1>6. redisFailed' \in BOOLEAN
  BY <1>1
<1>2. TypeOK /\ req[w] \in Requests /\ StageFits(w) /\ AnswerFits(w)
  BY DEF IInv, TypeOK, Sound
<1>3. CounterEnds'
  BY <1>1 DEF CounterEnds
<1>4. CASE At(w, "limit_count")
  <2> DEFINE r == [req[w] EXCEPT !.pc = "forgot_find", !.counted = FALSE]
  <2>1. GoTo(w, r) /\ counter' \in {counter, Increased} /\ UNCHANGED expires
    BY <1>4 DEF LimitFails
  <2>2. /\ r \in Requests /\ r.pc = "forgot_find" /\ r.op = req[w].op
        /\ r.status = req[w].status /\ r.done = req[w].done
    BY <1>2 DEF Requests, Stages
  <2> HIDE DEF r
  <2>3. req'[w] = r
    BY <1>2, <2>1, <2>2, OneRequest DEF TypeOK
  <2>4. Sound(w)'
    BY <1>2, <1>4, <2>2, <2>3 DEF Sound, StageFits, AnswerFits, ReadsHold
  <2>5. counter' \in 0..Max + 1
    BY <1>2, <2>1 DEF TypeOK, Increased
  <2> QED
    BY <1>1, <1>2, <1>3, <1>6, <2>1, <2>2, <2>4, <2>5, QuietStep DEF account, TypeOK
<1>5. CASE ~At(w, "limit_count")
  <2>1. req[w].pc = "limit_expire" /\ Advance(w, "forgot_find") /\ UNCHANGED counter /\ expires' \in BOOLEAN
    BY <1>5 DEF LimitFails
  <2> QED
    BY <1>1, <1>2, <1>3, <1>6, <2>1, AdvancePreserves DEF account, TypeOK, StageFits
<1> QED
  BY <1>4, <1>5

\* A key that expires takes its expiry with it.
LEMMA WindowEndsPreserves ==
    ASSUME IInv, WindowEnds
    PROVE  IInv'
<1>1. counter' = 0 /\ expires' = FALSE /\ redisFailed' = FALSE /\ UNCHANGED <<req, crossed>> /\ UNCHANGED account
  BY DEF WindowEnds
<1>2. TypeOK' /\ CounterEnds'
  <2>1. counter' \in 0..Max + 1
    BY <1>1
  <2>2. expires' \in BOOLEAN
    BY <1>1
  <2>3. TypeOK'
    BY <1>1, <2>1, <2>2 DEF IInv, TypeOK, account
  <2>4. CounterEnds'
    BY <1>1 DEF CounterEnds
  <2> QED
    BY <2>3, <2>4
<1>3. ASSUME NEW v \in Workers PROVE Sound(v)'
  BY <1>1, <1>3, OthersStay DEF account
<1> QED
  BY <1>2, <1>3 DEF IInv

----------------------------------------------------------------------------
(* The steps that write.                                                   *)

\* What a request becomes that gives up.
LEMMA GivenUp ==
    ASSUME IInv, NEW w \in Workers, NEW done \in BOOLEAN, GivesUp(w, done)
    PROVE  \E r \in Requests : GoTo(w, r) /\ Sound(w)' /\ r.pc = "answered" /\ r.status \in {408, 500}
<1> DEFINE r0 == [req[w] EXCEPT !.done = done]
<1>1. r0 \in Requests
  BY DEF IInv, TypeOK, Requests
<1>2. AnswerOf(w, r0, 500)
  BY StatusValues DEF GivesUp
<1> HIDE DEF r0
<1>3. TypeOK /\ 500 \in Statuses
  BY DEF IInv, Statuses
<1>4. PICK r \in Requests : GoTo(w, r) /\ r.pc = "answered" /\ r.status \in {408, 500}
  BY <1>1, <1>2, <1>3, Answered
<1>5. req'[w] = r
  BY <1>3, <1>4, OneRequest DEF TypeOK
<1>6. Sound(w)'
  BY <1>4, <1>5 DEF Sound, StageFits, AnswerFits, ReadsHold
<1> QED
  BY <1>4, <1>6

\* The rows go; requests with a code of them are crossed.
LEMMA LinksGoPreserves ==
    ASSUME IInv, NEW w \in Workers, NEW r \in Requests, GoTo(w, r), LinksGo(w), req[w].pc = "link_delete",
           Sound(w)'
    PROVE  IInv'
<1>1. UNCHANGED limiter /\ UNCHANGED <<password, verified, nextId>>
  BY DEF LinksGo
<1>2. TypeOK
  BY DEF IInv
<1>3. req' \in [Workers -> Requests] /\ req'[w] = r /\ \A v \in Workers \ {w} : req'[v] = req[v]
  BY <1>2, OneRequest DEF TypeOK
<1>4. CounterEnds'
  BY <1>1, LimiterRests
<1>5. /\ links' = IF req[w].op = "forgot" THEN {} ELSE links
      /\ codes' = IF req[w].op = "forgot" THEN codes ELSE {}
      /\ crossed' = IF req[w].op = "forgot" THEN crossed
                    ELSE (crossed \cup Serving({"verify_write", "verify_delete"}, codes)) \ {w}
  BY DEF LinksGo, DeletesOldLinks, Cross
<1>6. TypeOK'
  BY <1>1, <1>2, <1>3, <1>5 DEF TypeOK, limiter, Serving
<1>7. ASSUME NEW v \in Workers \ {w} PROVE Sound(v)'
  <2>1. req'[v] = req[v] /\ (v \in crossed => v \in crossed')
    BY <1>3, <1>5
  <2>2. NotUsedUp(req[v].link, links) => NotUsedUp(req[v].link, links')
    BY <1>5 DEF NotUsedUp
  <2>3. req[v].pc \in {"verify_write", "verify_delete"} /\ req[v].link \in codes =>
          v \in crossed' \/ req[v].link \in codes'
    BY <1>5 DEF Serving
  <2> QED
    BY <1>5, <2>1, <2>2, <2>3, OthersStay
<1> QED
  BY <1>4, <1>6, <1>7 DEF IInv

LEMMA LinkDeletePreserves ==
    ASSUME IInv, NEW w \in Workers, LinkDelete(w)
    PROVE  IInv'
<1> DEFINE r == [req[w] EXCEPT !.pc = "link_create"]
<1>1. req[w].pc = "link_delete" /\ GoTo(w, r) /\ LinksGo(w)
  BY DEF LinkDelete
<1>2. TypeOK /\ req[w] \in Requests /\ StageFits(w) /\ AnswerFits(w)
  BY DEF IInv, TypeOK, Sound
<1>3. /\ r \in Requests /\ r.pc = "link_create" /\ r.op = req[w].op
      /\ r.status = req[w].status /\ r.done = req[w].done
  BY <1>2 DEF Requests, Stages
<1> HIDE DEF r
<1>4. req'[w] = r
  BY <1>1, <1>2, <1>3, OneRequest DEF TypeOK
<1>5. IF req[w].op = "forgot" THEN links' = {} ELSE codes' = {}
  BY <1>1 DEF LinksGo, DeletesOldLinks
<1>6. Sound(w)'
  BY <1>1, <1>2, <1>3, <1>4, <1>5 DEF Sound, StageFits, AnswerFits, ReadsHold
<1> QED
  BY <1>1, <1>3, <1>6, LinksGoPreserves

\* The new row is unused; requests about to make one of the kind are crossed.
LEMMA LinkComesPreserves ==
    ASSUME IInv, NEW w \in Workers, NEW r \in Requests, GoTo(w, r), NEW id \in Ids, LinkComes(w, id),
           req[w].pc = "link_create", Sound(w)'
    PROVE  IInv'
<1> DEFINE row == [id |-> id, used |-> FALSE]
<1>1. /\ UNCHANGED limiter /\ UNCHANGED <<password, verified>>
      /\ nextId < MaxLinks /\ nextId' = nextId + 1
      /\ links' = IF req[w].op = "forgot" THEN links \cup {row} ELSE links
      /\ codes' = IF req[w].op = "forgot" THEN codes ELSE codes \cup {id}
  BY DEF LinkComes
<1>2. TypeOK /\ StageFits(w)
  BY DEF IInv, Sound
<1>3. req' \in [Workers -> Requests] /\ req'[w] = r /\ \A v \in Workers \ {w} : req'[v] = req[v]
  BY <1>2, OneRequest DEF TypeOK
<1>4. CounterEnds'
  BY <1>1, LimiterRests
<1>5. crossed' = (crossed \cup {v \in Workers : At(v, "link_create") /\ req[v].op = req[w].op}) \ {w}
  BY DEF LinkComes, Cross
<1>6. TypeOK'
  <2>1. nextId' \in Ids
    BY <1>1, <1>2 DEF Ids, TypeOK
  <2>2. row \in [id : Ids, used : BOOLEAN]
    OBVIOUS
  <2> QED
    BY <1>1, <1>2, <1>3, <1>5, <2>1, <2>2 DEF TypeOK, limiter
<1>7. ASSUME NEW v \in Workers \ {w} PROVE Sound(v)'
  <2>1. req'[v] = req[v] /\ (v \in crossed => v \in crossed')
    BY <1>3, <1>5
  <2>2. NotUsedUp(req[v].link, links) => NotUsedUp(req[v].link, links')
    BY <1>1 DEF NotUsedUp
  <2>3. req[v].pc = "link_create" => req[v].op \in {"forgot", "send"}
    BY DEF IInv, Sound, StageFits
  <2>4. req[v].pc = "link_create" /\ v \notin crossed' => req[v].op # req[w].op
    BY <1>5
  <2>5. req[w].op \in {"forgot", "send"}
    BY <1>2 DEF StageFits
  <2> QED
    BY <1>1, <2>1, <2>2, <2>3, <2>4, <2>5, OthersStay
<1> QED
  BY <1>4, <1>6, <1>7 DEF IInv

LEMMA LinkCreatePreserves ==
    ASSUME IInv, NEW w \in Workers, LinkCreate(w)
    PROVE  IInv'
<1> DEFINE r == [req[w] EXCEPT !.pc = "link_mail", !.link = nextId, !.done = TRUE]
<1>1. req[w].pc = "link_create" /\ GoTo(w, r) /\ LinkComes(w, nextId)
  BY DEF LinkCreate
<1>2. TypeOK /\ req[w] \in Requests /\ StageFits(w) /\ AnswerFits(w) /\ nextId \in Ids
  BY DEF IInv, TypeOK, Sound
<1>3. r \in Requests /\ r.pc = "link_mail" /\ r.op = req[w].op /\ r.status = req[w].status /\ r.done
  BY <1>2 DEF Requests, Stages
<1> HIDE DEF r
<1>4. req'[w] = r
  BY <1>1, <1>2, <1>3, OneRequest DEF TypeOK
<1>5. Sound(w)'
  BY <1>1, <1>2, <1>3, <1>4 DEF Sound, StageFits, AnswerFits, ReadsHold
<1> QED
  BY <1>1, <1>2, <1>3, <1>5, LinkComesPreserves

LEMMA LinkMailPreserves ==
    ASSUME IInv, NEW w \in Workers, LinkMail(w)
    PROVE  IInv'
<1>1. req[w].pc = "link_mail" /\ UNCHANGED limiter /\ UNCHANGED account /\ UNCHANGED crossed
  BY DEF LinkMail
<1>2. TypeOK /\ req[w] \in Requests /\ req[w].done
  BY <1>1 DEF IInv, TypeOK, Sound, AnswerFits
<1>3. PICK s \in {200, 500} : AnswerOf(w, req[w], s)
  BY StatusValues DEF LinkMail, Ends
<1>4. s \in Statuses
  BY DEF Statuses
<1>5. PICK r \in Requests : GoTo(w, r)
  BY <1>2, <1>3, <1>4, Answered
<1>6. CounterEnds'
  BY <1>1, <1>5, LimiterRests
<1> QED
  BY <1>1, <1>2, <1>3, <1>4, <1>6, AnswerPreserves DEF limiter, account, TypeOK

\* The row becomes used; other resets with the link are crossed.
LEMMA PasswordResetsPreserves ==
    ASSUME IInv, NEW w \in Workers, NEW r \in Requests, GoTo(w, r), PasswordResets(w),
           req[w].pc = "reset_commit", Sound(w)'
    PROVE  IInv'
<1> DEFINE id == req[w].link
           Used(l) == IF l.id = id THEN [l EXCEPT !.used = TRUE] ELSE l
<1>1. UNCHANGED limiter /\ UNCHANGED <<codes, verified, nextId>>
  BY DEF PasswordResets
<1>2. TypeOK /\ StageFits(w)
  BY DEF IInv, Sound
<1>3. req' \in [Workers -> Requests] /\ req'[w] = r /\ \A v \in Workers \ {w} : req'[v] = req[v]
  BY <1>2, OneRequest DEF TypeOK
<1>4. CounterEnds'
  BY <1>1, LimiterRests
<1>5. \/ UNCHANGED <<password, links, crossed>>
      \/ /\ password' = req[w].new
         /\ links' = {Used(l) : l \in links}
         /\ crossed' = (crossed \cup Serving({"reset_commit"}, {id})) \ {w}
  BY DEF PasswordResets, Cross
<1>6. TypeOK'
  <2>1. \A l \in links : Used(l) \in [id : Ids, used : BOOLEAN]
    BY <1>2 DEF TypeOK
  <2>2. req[w].new \in Passwords
    BY <1>2 DEF StageFits
  <2> HIDE DEF Used
  <2>3. links' \subseteq [id : Ids, used : BOOLEAN] /\ password' \in Passwords /\ crossed' \subseteq Workers
    BY <1>2, <1>5, <2>1, <2>2 DEF TypeOK, Serving
  <2> QED
    BY <1>1, <1>2, <1>3, <2>3 DEF TypeOK, limiter
<1>7. ASSUME NEW v \in Workers \ {w} PROVE Sound(v)'
  <2>1. req'[v] = req[v] /\ (v \in crossed => v \in crossed')
    BY <1>3, <1>5
  <2>2. links = {} => links' = {}
    BY <1>5
  <2>3. req[v].pc = "reset_commit" /\ NotUsedUp(req[v].link, links) =>
          v \in crossed' \/ NotUsedUp(req[v].link, links')
    <3> SUFFICES ASSUME req[v].pc = "reset_commit", NotUsedUp(req[v].link, links), v \notin crossed'
                 PROVE  NotUsedUp(req[v].link, links')
      OBVIOUS
    <3>1. CASE links' = links
      BY <3>1
    <3>2. CASE links' # links
      <4>1. req[v].link # id /\ links' = {Used(l) : l \in links}
        BY <1>5, <3>2 DEF Serving
      <4>2. \A l \in links : Used(l).id = l.id /\ (l.id # id => Used(l) = l)
        BY <1>2 DEF TypeOK
      <4> HIDE DEF Used, id
      <4> QED
        BY <4>1, <4>2 DEF NotUsedUp
    <3> QED
      BY <3>1, <3>2
  <2> QED
    BY <1>1, <2>1, <2>2, <2>3, OthersStay
<1> QED
  BY <1>4, <1>6, <1>7 DEF IInv

LEMMA ResetCommitPreserves ==
    ASSUME IInv, NEW w \in Workers, ResetCommit(w)
    PROVE  IInv'
<1> DEFINE r0 == [req[w] EXCEPT !.done = Applies(req[w].link)]
<1>1. req[w].pc = "reset_commit" /\ PasswordResets(w)
  BY DEF ResetCommit
<1>2. TypeOK /\ req[w] \in Requests /\ Applies(req[w].link) \in BOOLEAN
  BY DEF IInv, TypeOK, Applies
<1>3. r0 \in Requests /\ r0.done = Applies(req[w].link)
  BY <1>2 DEF Requests
<1>4. PICK s \in {200, 404} : AnswerOf(w, r0, s) /\ (s = 200 <=> Applies(req[w].link))
  BY StatusValues DEF ResetCommit, Applies
<1> HIDE DEF r0
<1>5. s \in Statuses
  BY DEF Statuses
<1>6. PICK r \in Requests : /\ GoTo(w, r) /\ r.pc = "answered" /\ r.done = r0.done
                            /\ r.status = IF r0.status = 408 THEN 408 ELSE s
  BY <1>2, <1>3, <1>4, <1>5, Answered
<1>7. req'[w] = r
  BY <1>2, <1>6, OneRequest DEF TypeOK
<1>8. Sound(w)'
  BY <1>3, <1>4, <1>6, <1>7 DEF Sound, StageFits, AnswerFits, ReadsHold
<1> QED
  BY <1>1, <1>6, <1>8, PasswordResetsPreserves

LEMMA PasswordChangesPreserves ==
    ASSUME IInv, NEW w \in Workers, NEW r \in Requests, GoTo(w, r), PasswordChanges(w),
           req[w].pc = "change_write", Sound(w)'
    PROVE  IInv'
<1>1. UNCHANGED limiter /\ UNCHANGED <<links, codes, verified, nextId, crossed>> /\ password' = req[w].new
  BY DEF PasswordChanges
<1>2. TypeOK /\ StageFits(w)
  BY DEF IInv, Sound
<1>3. CounterEnds'
  BY <1>1, LimiterRests
<1> QED
  BY <1>1, <1>2, <1>3, QuietStep DEF limiter, TypeOK, StageFits

LEMMA ChangeWritePreserves ==
    ASSUME IInv, NEW w \in Workers, ChangeWrite(w)
    PROVE  IInv'
<1> DEFINE r0 == [req[w] EXCEPT !.done = TRUE]
<1>1. req[w].pc = "change_write" /\ PasswordChanges(w) /\ AnswerOf(w, r0, 200)
  BY StatusValues DEF ChangeWrite
<1>2. TypeOK /\ req[w] \in Requests /\ 200 \in Statuses
  BY DEF IInv, TypeOK, Statuses
<1>3. r0 \in Requests /\ r0.done
  BY <1>2 DEF Requests
<1> HIDE DEF r0
<1>4. PICK r \in Requests : GoTo(w, r) /\ r.pc = "answered" /\ r.done /\ r.status \in {200, 408}
  BY <1>1, <1>2, <1>3, Answered
<1>5. req'[w] = r
  BY <1>2, <1>4, OneRequest DEF TypeOK
<1>6. Sound(w)'
  BY <1>4, <1>5 DEF Sound, StageFits, AnswerFits, ReadsHold
<1> QED
  BY <1>1, <1>4, <1>6, PasswordChangesPreserves

LEMMA AddressVerifiedPreserves ==
    ASSUME IInv, NEW w \in Workers, NEW r \in Requests, GoTo(w, r), AddressVerified,
           req[w].pc = "verify_write", Sound(w)'
    PROVE  IInv'
<1>1. UNCHANGED limiter /\ verified' = TRUE /\ UNCHANGED <<password, links, codes, nextId, crossed>>
  BY DEF AddressVerified
<1>2. TypeOK
  BY DEF IInv
<1>3. CounterEnds'
  BY <1>1, LimiterRests
<1> QED
  BY <1>1, <1>2, <1>3, QuietStep DEF limiter, TypeOK

LEMMA VerifyWritePreserves ==
    ASSUME IInv, NEW w \in Workers, VerifyWrite(w)
    PROVE  IInv'
<1> DEFINE r == [req[w] EXCEPT !.pc = "verify_delete", !.done = TRUE]
<1>1. req[w].pc = "verify_write" /\ GoTo(w, r) /\ AddressVerified
  BY DEF VerifyWrite
<1>2. TypeOK /\ req[w] \in Requests /\ Sound(w) /\ UNCHANGED <<codes, crossed>>
  BY <1>1 DEF IInv, TypeOK, AddressVerified
<1>3. /\ r \in Requests /\ r.pc = "verify_delete" /\ r.op = req[w].op /\ r.link = req[w].link
      /\ r.status = req[w].status /\ r.done
  BY <1>2 DEF Requests, Stages
<1> HIDE DEF r
<1>4. req'[w] = r
  BY <1>1, <1>2, <1>3, OneRequest DEF TypeOK
<1>5. Sound(w)'
  BY <1>1, <1>2, <1>3, <1>4 DEF Sound, StageFits, AnswerFits, ReadsHold
<1> QED
  BY <1>1, <1>3, <1>5, AddressVerifiedPreserves

\* The code goes; other requests with it are crossed.
LEMMA CodeGoesPreserves ==
    ASSUME IInv, NEW w \in Workers, NEW r \in Requests, GoTo(w, r), CodeGoes(w),
           req[w].pc = "verify_delete", Sound(w)'
    PROVE  IInv'
<1> DEFINE id == req[w].link
<1>1. /\ UNCHANGED limiter /\ UNCHANGED <<password, links, verified, nextId>>
      /\ codes' = codes \ {id}
      /\ crossed' = crossed \cup (Serving({"verify_write", "verify_delete"}, {id}) \ {w})
  BY DEF CodeGoes
<1>2. TypeOK
  BY DEF IInv
<1>3. req' \in [Workers -> Requests] /\ req'[w] = r /\ \A v \in Workers \ {w} : req'[v] = req[v]
  BY <1>2, OneRequest DEF TypeOK
<1>4. CounterEnds'
  BY <1>1, LimiterRests
<1>5. TypeOK'
  BY <1>1, <1>2, <1>3 DEF TypeOK, limiter, Serving
<1>6. ASSUME NEW v \in Workers \ {w} PROVE Sound(v)'
  <2>1. req'[v] = req[v] /\ (v \in crossed => v \in crossed')
    BY <1>1, <1>3
  <2>2. req[v].pc \in {"verify_write", "verify_delete"} /\ req[v].link \in codes =>
          v \in crossed' \/ req[v].link \in codes'
    BY <1>1 DEF Serving
  <2> QED
    BY <1>1, <2>1, <2>2, OthersStay
<1> QED
  BY <1>4, <1>5, <1>6 DEF IInv

LEMMA VerifyDeletePreserves ==
    ASSUME IInv, NEW w \in Workers, VerifyDelete(w)
    PROVE  IInv'
<1>1. req[w].pc = "verify_delete" /\ CodeGoes(w)
  BY DEF VerifyDelete
<1>2. TypeOK /\ req[w] \in Requests /\ Sound(w)
  BY DEF IInv, TypeOK
<1>3. PICK s \in {200, 404} : AnswerOf(w, req[w], s) /\ (s = 200 <=> req[w].link \in codes)
  BY StatusValues DEF VerifyDelete, Ends
<1>4. s \in Statuses
  BY DEF Statuses
<1>5. PICK r \in Requests : /\ GoTo(w, r) /\ r.pc = "answered" /\ r.op = req[w].op /\ r.done = req[w].done
                            /\ r.status = IF req[w].status = 408 THEN 408 ELSE s
  BY <1>2, <1>3, <1>4, Answered
<1>6. req'[w] = r
  BY <1>2, <1>5, OneRequest DEF TypeOK
<1>7. req[w].link \notin codes => w \in crossed'
  BY <1>1, <1>2 DEF Sound, ReadsHold, CodeGoes
<1>8. r.done /\ r.op = "verify"
  BY <1>1, <1>2, <1>5 DEF Sound, StageFits, AnswerFits
<1>9. Sound(w)'
  BY <1>3, <1>5, <1>6, <1>7, <1>8 DEF Sound, StageFits, AnswerFits, ReadsHold
<1> QED
  BY <1>1, <1>5, <1>9, CodeGoesPreserves

\* A rejected command has written all or nothing, and its handler gives up.
LEMMA QueryFailsPreserves ==
    ASSUME IInv, NEW w \in Workers, QueryFails(w)
    PROVE  IInv'
<1>1. PICK done \in BOOLEAN :
        /\ GivesUp(w, done)
        /\ \/ req[w].pc \in Querying /\ UNCHANGED <<limiter, account, crossed>>
           \/ req[w].pc = "link_delete" /\ LinksGo(w)
           \/ req[w].pc = "link_create" /\ LinkComes(w, Unsent)
           \/ req[w].pc = "reset_commit" /\ PasswordResets(w)
           \/ req[w].pc = "change_write" /\ PasswordChanges(w)
           \/ req[w].pc = "verify_write" /\ AddressVerified
           \/ req[w].pc = "verify_delete" /\ CodeGoes(w)
  <2>1. req[w].done \in BOOLEAN /\ Applies(req[w].link) \in BOOLEAN
    BY DEF IInv, TypeOK, Requests, Applies
  <2> QED
    BY <2>1 DEF QueryFails
<1>2. PICK r \in Requests : GoTo(w, r) /\ Sound(w)'
  BY <1>1, GivenUp
<1>3. CASE req[w].pc \in Querying /\ UNCHANGED <<limiter, account, crossed>>
  <2>1. CounterEnds'
    BY <1>2, <1>3, LimiterRests DEF Querying
  <2> QED
    BY <1>2, <1>3, <2>1, QuietStep DEF limiter, account, IInv, TypeOK
<1>4. Unsent \in Ids
  BY DEF Unsent, Ids
<1> QED
  BY <1>1, <1>2, <1>3, <1>4, LinksGoPreserves, LinkComesPreserves, PasswordResetsPreserves,
     PasswordChangesPreserves, AddressVerifiedPreserves, CodeGoesPreserves

LEMMA TimeoutPreserves ==
    ASSUME IInv, NEW w \in Workers, Timeout(w)
    PROVE  IInv'
<1> DEFINE r == [req[w] EXCEPT !.status = 408]
<1>1. /\ req[w].pc \in {"link_mail", "reset_commit", "change_write", "verify_delete"}
      /\ GoTo(w, r) /\ UNCHANGED limiter /\ UNCHANGED account /\ UNCHANGED crossed
  BY DEF Timeout
<1>2. TypeOK /\ req[w] \in Requests /\ Sound(w)
  BY DEF IInv, TypeOK
<1>3. /\ r \in Requests /\ r.pc = req[w].pc /\ r.op = req[w].op /\ r.link = req[w].link
      /\ r.new = req[w].new /\ r.done = req[w].done /\ r.status = 408
  BY <1>2 DEF Requests, Statuses
<1> HIDE DEF r
<1>4. req'[w] = r
  BY <1>1, <1>2, <1>3, OneRequest DEF TypeOK
<1>5. CounterEnds'
  BY <1>1, <1>3, LimiterRests
<1>6. StageFits(w)' /\ AnswerFits(w)'
  BY <1>1, <1>2, <1>3, <1>4 DEF Sound, StageFits, AnswerFits
<1>7. ReadsHold(w)'
  BY <1>1, <1>2, <1>3, <1>4 DEF Sound, ReadsHold, account
<1>8. Sound(w)'
  BY <1>6, <1>7 DEF Sound
<1> QED
  BY <1>1, <1>2, <1>3, <1>5, <1>8, QuietStep DEF limiter, account, TypeOK

LEMMA CrashPreserves ==
    ASSUME IInv, NEW w \in Workers, Crash(w)
    PROVE  IInv'
<1>1. /\ GoTo(w, Idle) /\ UNCHANGED <<counter, expires>> /\ UNCHANGED account /\ crossed' = crossed \ {w}
      /\ redisFailed' = (redisFailed \/ At(w, "limit_expire"))
  BY DEF Crash
<1>2. TypeOK
  BY DEF IInv
<1>3. req'[w] = Idle /\ \A v \in Workers \ {w} : req'[v] = req[v]
  BY <1>1, <1>2, IdleIsSound, OneRequest DEF TypeOK
<1>4. CounterEnds'
  BY <1>1, <1>3 DEF IInv, CounterEnds
<1>5. Sound(w)'
  BY <1>3, IdleIsSound DEF Sound, StageFits, AnswerFits, ReadsHold
<1> QED
  BY <1>1, <1>2, <1>4, <1>5, IdleIsSound, QuietStep DEF account, TypeOK

LEMMA NextPreserves == IInv /\ [Next]_vars => IInv'
<1> SUFFICES ASSUME IInv, [Next]_vars PROVE IInv'
  OBVIOUS
<1>1. ASSUME NEW w \in Workers, Step(w) PROVE IInv'
  <2>1. CASE \/ ForgotBegin(w) \/ SendBegin(w)
             \/ \E id \in {x \in Ids : Mailed(x)} :
                   VerifyBegin(w, id) \/ \E new \in Passwords : ResetBegin(w, id, new)
             \/ \E old, new \in Passwords : ChangeBegin(w, old, new)
    BY <2>1, AllBeginningsPreserve
  <2>2. CASE LimitCount(w) \/ LimitExpire(w) \/ LimitFails(w)
    BY <2>2, LimitCountPreserves, LimitExpirePreserves, LimitFailsPreserves
  <2>3. CASE ForgotFind(w) \/ SendFind(w) \/ ResetFind(w) \/ ChangeFind(w) \/ VerifyFind(w)
    BY <2>3, FindsPreserve
  <2>4. CASE LinkDelete(w) \/ LinkCreate(w) \/ LinkMail(w)
    BY <2>4, LinkDeletePreserves, LinkCreatePreserves, LinkMailPreserves
  <2>5. CASE ResetCommit(w) \/ ChangeWrite(w) \/ VerifyWrite(w) \/ VerifyDelete(w)
    BY <2>5, ResetCommitPreserves, ChangeWritePreserves, VerifyWritePreserves, VerifyDeletePreserves
  <2>6. CASE QueryFails(w) \/ Timeout(w) \/ Crash(w)
    BY <2>6, QueryFailsPreserves, TimeoutPreserves, CrashPreserves
  <2> QED
    BY <1>1, <2>1, <2>2, <2>3, <2>4, <2>5, <2>6 DEF Step
<1>2. CASE WindowEnds
  BY <1>2, WindowEndsPreserves
<1>3. CASE UNCHANGED vars
  <2>1. UNCHANGED <<links, codes, req, crossed>> /\ TypeOK' /\ CounterEnds'
    BY <1>3 DEF vars, limiter, account, IInv, TypeOK, CounterEnds
  <2>2. ASSUME NEW v \in Workers PROVE Sound(v)'
    BY <2>1, OthersStay
  <2> QED
    BY <2>1, <2>2 DEF IInv
<1> QED
  BY <1>1, <1>2, <1>3 DEF Next

LEMMA Invariance == Spec => []IInv
  BY InitEstablishes, NextPreserves, PTL DEF Spec

----------------------------------------------------------------------------
(* Facts about a single step.                                              *)

\* A request is changed by no one else.
LEMMA OthersKeep ==
    ASSUME TypeOK, NEW w \in Workers, NEW v \in Workers \ {w}, Step(v)
    PROVE  req'[w] = req[w]
<1>1. ASSUME NEW r, GoTo(v, r) PROVE req'[w] = req[w]
  BY <1>1 DEF GoTo, TypeOK
<1>2. CASE \/ ForgotBegin(v) \/ SendBegin(v)
           \/ \E id \in {x \in Ids : Mailed(x)} :
                 VerifyBegin(v, id) \/ \E new \in Passwords : ResetBegin(v, id, new)
           \/ \E old, new \in Passwords : ChangeBegin(v, old, new)
  BY <1>1, <1>2 DEF ForgotBegin, SendBegin, VerifyBegin, ResetBegin, ChangeBegin, Begin
<1>3. CASE LimitCount(v) \/ LimitExpire(v) \/ LimitFails(v)
  BY <1>1, <1>3 DEF LimitCount, LimitExpire, LimitFails, Ends, AnswerOf
<1>4. CASE ForgotFind(v) \/ SendFind(v) \/ ResetFind(v) \/ ChangeFind(v) \/ VerifyFind(v)
  BY <1>1, <1>4 DEF ForgotFind, SendFind, Unknown, ResetFind, ChangeFind, VerifyFind, Ends, AnswerOf
<1>5. CASE LinkDelete(v) \/ LinkCreate(v) \/ LinkMail(v)
  BY <1>1, <1>5 DEF LinkDelete, LinkCreate, LinkMail, Ends, AnswerOf
<1>6. CASE ResetCommit(v) \/ ChangeWrite(v) \/ VerifyWrite(v) \/ VerifyDelete(v)
  BY <1>1, <1>6 DEF ResetCommit, ChangeWrite, VerifyWrite, VerifyDelete, Ends, AnswerOf
<1>7. CASE QueryFails(v) \/ Timeout(v) \/ Crash(v)
  BY <1>1, <1>7 DEF QueryFails, GivesUp, AnswerOf, Timeout, Crash
<1> QED
  BY <1>2, <1>3, <1>4, <1>5, <1>6, <1>7 DEF Step

\* Only a step of its own changes a request.
LEMMA OwnSteps ==
    ASSUME TypeOK, [Next]_vars, NEW w \in Workers
    PROVE  req'[w] = req[w] \/ Step(w)
<1>1. CASE WindowEnds \/ UNCHANGED vars
  BY <1>1 DEF WindowEnds, vars
<1>2. ASSUME NEW v \in Workers, Step(v) PROVE req'[w] = req[w] \/ Step(w)
  BY <1>2, OthersKeep
<1> QED
  BY <1>1, <1>2 DEF Next

\* What can happen to a request in the two stages the theorems below are about.
LEMMA StepsFrom ==
    ASSUME NEW w \in Workers, Step(w)
    PROVE  /\ req[w].pc = "reset_commit" => ResetCommit(w) \/ QueryFails(w) \/ Timeout(w) \/ Crash(w)
           /\ req[w].pc = "link_create" => LinkCreate(w) \/ QueryFails(w) \/ Crash(w)
  BY DEF Step, ForgotBegin, SendBegin, VerifyBegin, ResetBegin, ChangeBegin, Begin, LimitCount, LimitExpire,
         LimitFails, ForgotFind, SendFind, LinkDelete, LinkCreate, LinkMail, ResetFind, ResetCommit, ChangeFind,
         ChangeWrite, VerifyFind, VerifyWrite, VerifyDelete, Timeout

\* What a timeout and a crash make of a request.
LEMMA Interrupted ==
    ASSUME TypeOK, NEW w \in Workers, Timeout(w) \/ Crash(w)
    PROVE  \/ req'[w] = Idle
           \/ /\ req'[w].pc = req[w].pc /\ req'[w].op = req[w].op /\ req'[w].done = req[w].done
              /\ req'[w].counted = req[w].counted /\ req'[w].status = 408
  BY DEF Timeout, Crash, GoTo, TypeOK, Requests

\* What a commit of a reset, or one that is rejected, makes of a request: done only if the link
\* was there.
LEMMA ResetDone ==
    ASSUME TypeOK, NEW w \in Workers, req[w].pc = "reset_commit", ~req[w].done,
           ResetCommit(w) \/ QueryFails(w), req'[w].done
    PROVE  Row(req[w].link) # {}
<1> SUFFICES ASSUME Row(req[w].link) = {} PROVE FALSE
  OBVIOUS
<1> DEFINE r0 == [req[w] EXCEPT !.done = FALSE]
<1>1. Applies(req[w].link) = FALSE /\ req[w].done = FALSE
  BY DEF Applies, TypeOK, Requests
<1>2. AnswerOf(w, r0, 404) \/ AnswerOf(w, r0, 500)
  <2>1. CASE ResetCommit(w)
    <3>1. AnswerOf(w, [req[w] EXCEPT !.done = Applies(req[w].link)], 404)
      BY <2>1, StatusValues DEF ResetCommit
    <3>2. [req[w] EXCEPT !.done = Applies(req[w].link)] = r0
      BY <1>1
    <3> QED
      BY <3>1, <3>2
  <2>2. CASE QueryFails(w)
    <3>1. GivesUp(w, FALSE)
      BY <1>1, <2>2 DEF QueryFails
    <3> QED
      BY <3>1, StatusValues DEF GivesUp
  <2> QED
    BY <2>1, <2>2
<1>3. r0 \in Requests /\ ~r0.done
  BY ZenonT(40) DEF TypeOK, Requests
<1> HIDE DEF r0
<1>4. {404, 500} \subseteq Statuses
  BY DEF Statuses
<1>5. PICK r \in Requests : GoTo(w, r) /\ r.done = r0.done
  BY <1>2, <1>3, <1>4, Answered
<1> QED
  BY <1>3, <1>5, OneRequest DEF TypeOK

\* A request that gives up does not mail.
LEMMA GivenUpEnds ==
    ASSUME IInv, NEW w \in Workers, QueryFails(w)
    PROVE  req'[w].pc = "answered" /\ req'[w].status # 429
<1>1. PICK done \in BOOLEAN : GivesUp(w, done)
  BY DEF QueryFails, IInv, TypeOK, Requests, Applies
<1>2. PICK r \in Requests : GoTo(w, r) /\ r.pc = "answered" /\ r.status \in {408, 500}
  BY <1>1, GivenUp
<1> QED
  BY <1>2, OneRequest DEF IInv, TypeOK

----------------------------------------------------------------------------
(* The theorems.                                                           *)

\* Every variable has its type.
THEOREM TypeCorrect == Spec => []TypeOK
<1>1. IInv => TypeOK
  BY DEF IInv
<1> QED
  BY <1>1, Invariance, PTL

\* Every counter of the limiter has an expiry, or gets it, as long as Redis and the servers do
\* not fail.
THEOREM CountersEnd == Spec => []CounterEnds
<1>1. IInv => CounterEnds
  BY DEF IInv
<1> QED
  BY <1>1, Invariance, PTL

\* Answers tell what happened.
THEOREM AnswersAreHonest == Spec => []HonestAnswer
<1>1. IInv => HonestAnswer
  BY DEF IInv, Sound, AnswerFits, HonestAnswer
<1> QED
  BY <1>1, Invariance, PTL

\* A reset link changes the password once, but for overlapping resets.
THEOREM ResetsServeOnce == Spec => LinkServesOnce
<1> DEFINE Once == \A w \in Workers : At(w, "reset_commit") /\ req'[w].done =>
                       \E l \in Row(req[w].link) : ~l.used \/ w \in crossed
<1>1. IInv /\ [Next]_vars => Once
  <2> SUFFICES ASSUME IInv, [Next]_vars, NEW w \in Workers, At(w, "reset_commit"), req'[w].done
               PROVE  \E l \in Row(req[w].link) : ~l.used \/ w \in crossed
    OBVIOUS
  <2>1. TypeOK /\ Sound(w) /\ ~req[w].done
    BY DEF IInv, Sound, AnswerFits
  <2>2. Step(w)
    BY <2>1, OwnSteps
  <2>3. ResetCommit(w) \/ QueryFails(w)
    BY <2>1, <2>2, StepsFrom, Interrupted, IdleIsSound
  <2>4. Row(req[w].link) # {}
    BY <2>1, <2>3, ResetDone
  <2> QED
    BY <2>1, <2>4 DEF Sound, ReadsHold, NotUsedUp, Row
<1> HIDE DEF Once
<1>2. Spec => [][Once]_vars
  BY <1>1, Invariance, PTL DEF Spec
<1> QED
  BY <1>2 DEF LinkServesOnce, Once

\* A link made while no other of its kind is being made is the only one of its kind.
THEOREM OldLinksAreGone == Spec => OldLinksDie
<1> DEFINE Alone == \A w \in Workers : At(w, "link_create") /\ req'[w].pc = "link_mail" /\ w \notin crossed =>
                        IF req[w].op = "forgot" THEN Cardinality(links') = 1 ELSE Cardinality(codes') = 1
<1>1. IInv /\ [Next]_vars => Alone
  <2> SUFFICES ASSUME IInv, [Next]_vars, NEW w \in Workers,
                      At(w, "link_create"), req'[w].pc = "link_mail", w \notin crossed
               PROVE  IF req[w].op = "forgot" THEN Cardinality(links') = 1 ELSE Cardinality(codes') = 1
    OBVIOUS
  <2>1. TypeOK /\ Sound(w)
    BY DEF IInv
  <2>2. Step(w)
    BY <2>1, OwnSteps
  <2>3. LinkCreate(w)
    BY <2>1, <2>2, StepsFrom, Interrupted, GivenUpEnds, IdleIsSound
  <2>4. IF req[w].op = "forgot" THEN links = {} ELSE codes = {}
    BY <2>1 DEF Sound, ReadsHold
  <2>5. IF req[w].op = "forgot" THEN links' = {[id |-> nextId, used |-> FALSE]} ELSE codes' = {nextId}
    BY <2>3, <2>4 DEF LinkCreate, LinkComes
  <2> QED
    BY <2>5, FS_Singleton
<1> HIDE DEF Alone
<1>2. Spec => [][Alone]_vars
  BY <1>1, Invariance, PTL DEF Spec
<1> QED
  BY <1>2 DEF OldLinksDie, Alone

----------------------------------------------------------------------------
(* The limiter is a window.                                                *)

\* A step of one request that the window sees as nothing, or as the request's leaving.
LEMMA GateRests ==
    ASSUME TypeOK, TypeOK', NEW w \in Workers, \A v \in Workers \ {w} : req'[v] = req[v], UNCHANGED counter,
           Gate(req'[w]) \in {Gate(req[w]), "outside"}
    PROVE  [Window!Next]_(Window!vars)
<1> DEFINE gate == [v \in Workers |-> Gate(req[v])]
           gate2 == [v \in Workers |-> Gate(req'[v])]
<1>1. gate2 = [gate EXCEPT ![w] = Gate(req'[w])]
  OBVIOUS
<1>2. CASE Gate(req'[w]) = Gate(req[w])
  BY <1>1, <1>2 DEF Window!vars
<1>3. CASE Gate(req[w]) # "outside" /\ Gate(req'[w]) = "outside"
  BY <1>1, <1>3 DEF Window!Next, Window!Leave
<1> QED
  BY <1>2, <1>3

\* A request is nothing to the window but at the limiter and just behind it.
LEMMA Outside ==
    ASSUME NEW r, r.op # "forgot" \/ (r.status # 429 /\ r.pc \notin {"limit_expire", "forgot_find"})
    PROVE  Gate(r) = "outside"
  BY StatusValues DEF Gate

\* The handlers are behind the gate.
LEMMA HandlersKeepGate ==
    ASSUME IInv, NEW w \in Workers,
           \/ ForgotFind(w) \/ SendFind(w) \/ ResetFind(w) \/ ChangeFind(w) \/ VerifyFind(w)
           \/ LinkDelete(w) \/ LinkCreate(w) \/ LinkMail(w)
           \/ ResetCommit(w) \/ ChangeWrite(w) \/ VerifyWrite(w) \/ VerifyDelete(w) \/ QueryFails(w)
    PROVE  UNCHANGED counter /\ Gate(req'[w]) = "outside"
<1>1. TypeOK /\ req[w] \in Requests /\ AnswerFits(w)
  BY DEF IInv, TypeOK, Sound
<1>2. UNCHANGED counter
  BY DEF ForgotFind, SendFind, ResetFind, ChangeFind, VerifyFind, LinkDelete, LinksGo, LinkCreate, LinkComes,
         LinkMail, ResetCommit, PasswordResets, ChangeWrite, PasswordChanges, VerifyWrite, AddressVerified,
         VerifyDelete, CodeGoes, QueryFails, limiter
<1> SUFFICES Gate(req'[w]) = "outside"
  BY <1>2
<1>3. ASSUME NEW r0 \in Requests, NEW s \in Statuses \ {429}, AnswerOf(w, r0, s)
      PROVE  Gate(req'[w]) = "outside"
  <2>1. PICK r \in Requests : GoTo(w, r) /\ r.pc = "answered" /\ r.status \in {408, s}
    BY <1>1, <1>3, Answered
  <2>2. req'[w] = r
    BY <1>1, <2>1, OneRequest DEF TypeOK
  <2> QED
    BY <2>1, <2>2, Outside
<1>4. ASSUME NEW r \in Requests, GoTo(w, r), r.status = req[w].status, req[w].pc # "answered",
             r.pc \notin {"limit_expire", "forgot_find"}
      PROVE  Gate(req'[w]) = "outside"
  <2>1. req'[w] = r /\ r.status # 429
    BY <1>1, <1>4, OneRequest DEF TypeOK, AnswerFits
  <2> QED
    BY <1>4, <2>1, Outside
<1>5. {200, 400, 401, 404, 500} \subseteq Statuses \ {429}
  BY DEF Statuses
<1>6. CASE \/ ForgotFind(w) \/ SendFind(w) \/ ResetFind(w) \/ ChangeFind(w) \/ VerifyFind(w)
           \/ LinkDelete(w) \/ LinkMail(w) \/ VerifyDelete(w)
  <2> DEFINE unknown == [req[w] EXCEPT !.known = FALSE]
             begun == [req[w] EXCEPT !.pc = "link_delete", !.counted = TRUE]
  <2>1. \/ \E s \in {200, 400, 401, 404, 500} : AnswerOf(w, req[w], s)
        \/ AnswerOf(w, unknown, 200)
        \/ GoTo(w, begun)
        \/ \E pc \in {"link_delete", "link_create", "reset_commit", "change_write", "verify_write"} : Advance(w, pc)
    BY <1>6, StatusValues
       DEF ForgotFind, SendFind, ResetFind, ChangeFind, VerifyFind, Unknown, LinkDelete, LinkMail, VerifyDelete, Ends
  <2>2. unknown \in Requests
    BY <1>1 DEF Requests
  <2>3. begun \in Requests /\ begun.status = req[w].status /\ begun.pc = "link_delete"
    BY <1>1 DEF Requests, Stages
  <2>4. ASSUME NEW pc \in {"link_delete", "link_create", "reset_commit", "change_write", "verify_write"},
               Advance(w, pc)
        PROVE  Gate(req'[w]) = "outside"
    <3> DEFINE r == [req[w] EXCEPT !.pc = pc]
    <3>1. r \in Requests /\ r.pc = pc /\ r.status = req[w].status
      BY <1>1 DEF Requests, Stages
    <3>2. GoTo(w, r) /\ req[w].pc # "answered"
      BY <1>6, <2>4 DEF ForgotFind, SendFind, ResetFind, ChangeFind, VerifyFind, LinkDelete, LinkMail, VerifyDelete
    <3> HIDE DEF r
    <3> QED
      BY <1>4, <3>1, <3>2
  <2>5. req[w].pc # "answered"
    BY <1>6 DEF ForgotFind, SendFind, ResetFind, ChangeFind, VerifyFind, LinkDelete, LinkMail, VerifyDelete
  <2> HIDE DEF unknown, begun
  <2> QED
    BY <1>1, <1>3, <1>4, <1>5, <2>1, <2>2, <2>3, <2>4, <2>5
<1>7. CASE LinkCreate(w)
  <2> DEFINE r == [req[w] EXCEPT !.pc = "link_mail", !.link = nextId, !.done = TRUE]
  <2>1. r \in Requests /\ r.pc = "link_mail" /\ r.status = req[w].status
    BY <1>1 DEF Requests, Stages, TypeOK
  <2>2. GoTo(w, r) /\ req[w].pc = "link_create"
    BY <1>7 DEF LinkCreate
  <2> HIDE DEF r
  <2> QED
    BY <1>4, <2>1, <2>2
<1>8. CASE ResetCommit(w) \/ ChangeWrite(w)
  <2> DEFINE ok == [req[w] EXCEPT !.done = TRUE]
             applied == [req[w] EXCEPT !.done = Applies(req[w].link)]
  <2>1. \/ AnswerOf(w, ok, 200)
        \/ \E s \in {200, 404} : AnswerOf(w, applied, s)
    BY <1>8, StatusValues DEF ResetCommit, ChangeWrite
  <2>2. Applies(req[w].link) \in BOOLEAN
    BY DEF Applies
  <2>3. ok \in Requests /\ applied \in Requests
    BY <1>1, <2>2 DEF Requests
  <2> HIDE DEF ok, applied
  <2> QED
    BY <1>3, <1>5, <2>1, <2>3
<1>9. CASE VerifyWrite(w)
  <2> DEFINE r == [req[w] EXCEPT !.pc = "verify_delete", !.done = TRUE]
  <2>1. r \in Requests /\ r.pc = "verify_delete" /\ r.status = req[w].status
    BY <1>1 DEF Requests, Stages
  <2>2. GoTo(w, r) /\ req[w].pc = "verify_write"
    BY <1>9 DEF VerifyWrite
  <2> HIDE DEF r
  <2> QED
    BY <1>4, <2>1, <2>2
<1>10. CASE QueryFails(w)
  BY <1>10, GivenUpEnds, Outside
<1> QED
  BY <1>6, <1>7, <1>8, <1>9, <1>10

\* A request that begins, ends with its server, or waits is nothing to the window but a leaving.
LEMMA EdgesKeepGate ==
    ASSUME IInv, NEW w \in Workers,
           \/ ForgotBegin(w) \/ SendBegin(w)
           \/ \E id \in Ids : VerifyBegin(w, id) \/ \E new \in Passwords : ResetBegin(w, id, new)
           \/ \E old, new \in Passwords : ChangeBegin(w, old, new)
           \/ LimitExpire(w) \/ Timeout(w) \/ Crash(w)
    PROVE  UNCHANGED counter /\ Gate(req'[w]) \in {Gate(req[w]), "outside"}
<1>1. TypeOK /\ req[w] \in Requests /\ StageFits(w) /\ AnswerFits(w)
  BY DEF IInv, TypeOK, Sound
<1>2. UNCHANGED counter
  BY DEF ForgotBegin, SendBegin, VerifyBegin, ResetBegin, ChangeBegin, Begin, LimitExpire, Timeout, Crash, limiter
<1>3. CASE \/ ForgotBegin(w) \/ SendBegin(w)
           \/ \E id \in Ids : VerifyBegin(w, id) \/ \E new \in Passwords : ResetBegin(w, id, new)
           \/ \E old, new \in Passwords : ChangeBegin(w, old, new)
  <2>1. req'[w].op # "forgot" \/ (req'[w].pc = "limit_count" /\ req'[w].status = 0)
    <3>1. ASSUME NEW r, Begin(w, r) PROVE req'[w] = r
      BY <1>1, <3>1 DEF Begin, GoTo, TypeOK
    <3>2. CASE ForgotBegin(w)
      BY <3>1, <3>2 DEF ForgotBegin, Idle
    <3>3. CASE SendBegin(w)
      BY <3>1, <3>3 DEF SendBegin, Idle
    <3>4. ASSUME NEW id \in Ids, VerifyBegin(w, id) PROVE req'[w].op # "forgot"
      BY <3>1, <3>4 DEF VerifyBegin, Idle
    <3>5. ASSUME NEW id \in Ids, NEW new \in Passwords, ResetBegin(w, id, new) PROVE req'[w].op # "forgot"
      BY <3>1, <3>5 DEF ResetBegin, Idle
    <3>6. ASSUME NEW old \in Passwords, NEW new \in Passwords, ChangeBegin(w, old, new)
          PROVE  req'[w].op # "forgot"
      BY <3>1, <3>6 DEF ChangeBegin, Idle
    <3> QED
      BY <1>3, <3>2, <3>3, <3>4, <3>5, <3>6
  <2> QED
    BY <1>2, <2>1, Outside
<1>4. CASE LimitExpire(w)
  <2>1. /\ req[w].pc = "limit_expire" /\ req'[w].pc = "forgot_find" /\ req'[w].op = req[w].op
        /\ req'[w].counted = req[w].counted /\ req'[w].status = req[w].status
    BY <1>1, <1>4 DEF LimitExpire, GoTo, TypeOK, Requests
  <2> QED
    BY <1>2, <2>1 DEF Gate
<1>5. CASE Timeout(w) \/ Crash(w)
  <2>1. CASE req'[w] = Idle
    BY <1>2, <2>1, IdleIsSound, Outside
  <2>2. CASE req'[w] # Idle
    <3>1. Timeout(w)
      BY <1>1, <1>5, <2>2, IdleIsSound, OneRequest DEF Crash, TypeOK
    <3>2. req'[w].pc = req[w].pc /\ req'[w].status = 408 /\ req[w].pc \notin {"limit_expire", "forgot_find"}
      BY <1>1, <2>2, <3>1, Interrupted DEF Timeout
    <3> QED
      BY <1>2, <3>2, Outside
  <2> QED
    BY <2>1, <2>2
<1> QED
  BY <1>3, <1>4, <1>5

\* A count admits or refuses; a count that failed lets pass.
LEMMA CountIsDecision ==
    ASSUME IInv, NEW w \in Workers, LimitCount(w) \/ (LimitFails(w) /\ At(w, "limit_count"))
    PROVE  [Window!Next]_(Window!vars)
<1> DEFINE gate == [v \in Workers |-> Gate(req[v])]
           gate2 == [v \in Workers |-> Gate(req'[v])]
           admitted == IF counter > Max THEN Max ELSE counter
           admitted2 == IF counter' > Max THEN Max ELSE counter'
<1>1. TypeOK /\ req[w] \in Requests /\ StageFits(w) /\ req[w].pc = "limit_count"
  BY DEF IInv, TypeOK, Sound, LimitCount
<1>2. req[w].op = "forgot" /\ req[w].status = 0 /\ req[w].counted /\ Gate(req[w]) = "outside"
  BY <1>1, Outside DEF StageFits
<1>3. ASSUME NEW r \in Requests, GoTo(w, r)
      PROVE  gate[w] = "outside" /\ gate2 = [gate EXCEPT ![w] = Gate(r)]
  <2>1. req'[w] = r /\ \A v \in Workers \ {w} : req'[v] = req[v]
    BY <1>1, <1>3, OneRequest DEF TypeOK
  <2> QED
    BY <1>1, <1>2, <2>1
<1>4. counter \in 0..Max + 1
  BY <1>1 DEF TypeOK
<1>5. CASE LimitCount(w) /\ Refuses(counter')
  <2>1. AnswerOf(w, req[w], 429) /\ 429 \in Statuses
    BY <1>5, StatusValues DEF LimitCount, Ends, Statuses
  <2>2. PICK r \in Requests : GoTo(w, r) /\ r.pc = "answered" /\ r.op = "forgot" /\ r.status = 429
    BY <1>1, <1>2, <2>1, Answered
  <2>3. Gate(r) = "refused"
    BY <2>2, StatusValues DEF Gate
  <2>4. admitted = Max /\ admitted2 = Max
    BY <1>4, <1>5 DEF LimitCount, Increased, Refuses
  <2> QED
    BY <1>3, <2>2, <2>3, <2>4 DEF Window!Next, Window!Refuse, Window!Decide
<1>6. CASE LimitCount(w) /\ ~Refuses(counter')
  <2> DEFINE pc == IF SetsExpiry(counter') THEN "limit_expire" ELSE "forgot_find"
             r == [req[w] EXCEPT !.pc = pc]
  <2>1. GoTo(w, r) /\ pc \in {"limit_expire", "forgot_find"}
    BY <1>6 DEF LimitCount
  <2> HIDE DEF pc
  <2>2. r \in Requests /\ r.pc = pc /\ r.op = "forgot" /\ r.status = 0 /\ r.counted
    BY <1>1, <1>2, <2>1 DEF Requests, Stages
  <2> HIDE DEF r
  <2>3. Gate(r) = "passed"
    BY <2>1, <2>2, StatusValues DEF Gate
  <2>4. admitted < Max /\ admitted2 = admitted + 1
    BY <1>4, <1>6 DEF LimitCount, Increased, Refuses
  <2> QED
    BY <1>3, <2>1, <2>2, <2>3, <2>4 DEF Window!Next, Window!Admit, Window!Decide
<1>7. CASE LimitFails(w) /\ At(w, "limit_count")
  <2> DEFINE r == [req[w] EXCEPT !.pc = "forgot_find", !.counted = FALSE]
  <2>1. GoTo(w, r) /\ counter' \in {counter, Increased}
    BY <1>7 DEF LimitFails
  <2>2. r \in Requests /\ r.pc = "forgot_find" /\ r.op = "forgot" /\ r.status = 0 /\ ~r.counted
    BY <1>1, <1>2 DEF Requests, Stages
  <2> HIDE DEF r
  <2>3. Gate(r) = "uncounted"
    BY <2>2, StatusValues DEF Gate
  <2>4. admitted2 = admitted \/ (admitted < Max /\ admitted2 = admitted + 1)
    BY <1>4, <2>1 DEF Increased
  <2> QED
    BY <1>3, <2>1, <2>2, <2>3, <2>4 DEF Window!Next, Window!Bypass, Window!Decide
<1> QED
  BY <1>5, <1>6, <1>7

\* Every step is a step of the window or none.
LEMMA StepRefines == IInv /\ [Next]_vars => [Window!Next]_(Window!vars)
<1> SUFFICES ASSUME IInv, [Next]_vars PROVE [Window!Next]_(Window!vars)
  OBVIOUS
<1>1. TypeOK /\ TypeOK'
  BY NextPreserves DEF IInv
<1>2. ASSUME NEW w \in Workers, Step(w) PROVE [Window!Next]_(Window!vars)
  <2>1. \A v \in Workers \ {w} : req'[v] = req[v]
    BY <1>1, <1>2, OthersKeep
  <2>2. CASE UNCHANGED counter /\ Gate(req'[w]) \in {Gate(req[w]), "outside"}
    BY <1>1, <2>1, <2>2, GateRests
  <2>3. CASE LimitCount(w) \/ (LimitFails(w) /\ At(w, "limit_count"))
    BY <2>3, CountIsDecision
  <2>4. CASE LimitFails(w) /\ ~At(w, "limit_count")
    <3>1. /\ req[w].pc = "limit_expire" /\ req'[w].pc = "forgot_find" /\ req'[w].op = req[w].op
          /\ req'[w].counted = req[w].counted /\ req'[w].status = req[w].status /\ UNCHANGED counter
      BY <1>1, <2>4 DEF LimitFails, GoTo, TypeOK, Requests
    <3>3. Gate(req'[w]) = Gate(req[w])
      BY <3>1 DEF Gate
    <3> QED
      BY <2>2, <3>1, <3>3
  <2>5. CASE \/ ForgotFind(w) \/ SendFind(w) \/ ResetFind(w) \/ ChangeFind(w) \/ VerifyFind(w)
             \/ LinkDelete(w) \/ LinkCreate(w) \/ LinkMail(w)
             \/ ResetCommit(w) \/ ChangeWrite(w) \/ VerifyWrite(w) \/ VerifyDelete(w) \/ QueryFails(w)
    BY <2>2, <2>5, HandlersKeepGate
  <2>6. CASE \/ ForgotBegin(w) \/ SendBegin(w)
             \/ \E id \in {x \in Ids : Mailed(x)} :
                   VerifyBegin(w, id) \/ \E new \in Passwords : ResetBegin(w, id, new)
             \/ \E old, new \in Passwords : ChangeBegin(w, old, new)
             \/ LimitExpire(w) \/ Timeout(w) \/ Crash(w)
    BY <2>2, <2>6, EdgesKeepGate
  <2> QED
    BY <1>2, <2>3, <2>4, <2>5, <2>6 DEF Step
<1>3. CASE WindowEnds
  BY <1>3, MaxAssumption DEF WindowEnds, Window!Next, Window!Roll
<1>4. CASE UNCHANGED vars
  BY <1>4 DEF vars, limiter, Window!vars
<1> QED
  BY <1>2, <1>3, <1>4 DEF Next

\* The middleware, with its two commands, their failures and the restarts of servers,
\* implements a fixed window.
THEOREM LimiterIsAWindow == Spec => ImplementsRateWindow
<1>1. Init => Window!Init
  BY IdleIsSound DEF Init, Window!Init, Gate
<1>2. Spec => Window!Spec
  BY <1>1, StepRefines, Invariance, PTL DEF Spec, Window!Spec
<1> QED
  BY <1>2 DEF ImplementsRateWindow
=============================================================================
