--------------------------- MODULE AccountRequests ---------------------------
(***************************************************************************)
(* HTTP requests about the password and the e-mail address of one account, *)
(* from the rate limiter to the answer: rate-limit.middleware.ts, the      *)
(* handlers of users/users.service.ts, timeout.interceptor.ts and          *)
(* http-exception.filter.ts.                                               *)
(*                                                                         *)
(* A worker serves one request; every query, Redis command and mail is one *)
(* step, a transaction one step too, and each of them may be rejected, what *)
(* it was to write written or not.  The requests come from one IP address. *)
(* Each route has a counter of its own; only the one of forgot-password is *)
(* modelled, with a limit small enough to be reached.  Links expire in an  *)
(* hour or a day, which is left out: an expired link is like an unknown    *)
(* one.                                                                    *)
(***************************************************************************)
EXTENDS Naturals, FiniteSets

CONSTANTS
    Workers,        \* requests that may be in flight together
    Passwords,
    Null,
    Max,            \* maxRequests of the route
    MaxLinks,       \* bound: reset and verification links ever made
    Ops             \* bound: which of "forgot", "reset", "change", "send", "verify" are asked

ASSUME MaxAssumption == Max \in Nat \ {0}
ASSUME BoundsAssumption == MaxLinks \in Nat
ASSUME NullAssumption == Null \notin Passwords

VARIABLES
    counter,    \* the ratelimit key: requests counted; 0 when there is no key
    expires,    \* whether the key has an expiry
    password,
    links,      \* the password_reset_tokens rows
    codes,      \* the ids of the email_verification_tokens rows
    verified,   \* emailVerified
    nextId,     \* the id of the next link of either kind
    req,        \* req[w]: the request worker w is serving, or has answered
    crossed,    \* history: requests whose rows another request has changed since they read them
    redisFailed \* history: whether a command on this key failed, or the server stopped before one

limiter == <<counter, expires, redisFailed>>
account == <<password, links, codes, verified, nextId>>
vars == <<limiter, account, req, crossed>>

Ids == 0..MaxLinks

Stages == {"idle", "answered", "limit_count", "limit_expire", "forgot_find", "send_find",
           "link_delete", "link_create", "link_mail", "reset_find", "reset_commit", "change_find",
           "change_write", "verify_find", "verify_write", "verify_delete"}
Statuses == {200, 400, 401, 404, 408, 429, 500}

\* known: FALSE once the address asked about turned out to be no one's; old, new: the passwords
\* given; status: of the answer, 0 before it is sent; done: whether the change asked for has
\* been made; counted: FALSE if the limiter let the request pass uncounted.
Requests == [pc : Stages, op : {"none", "forgot", "reset", "change", "send", "verify"}, known : BOOLEAN,
             link : Ids, old : Passwords \cup {Null}, new : Passwords \cup {Null}, status : Statuses \cup {0},
             done : BOOLEAN, counted : BOOLEAN]
Idle == [pc |-> "idle", op |-> "none", known |-> TRUE, link |-> 0, old |-> Null, new |-> Null,
         status |-> 0, done |-> FALSE, counted |-> TRUE]

Init ==
    /\ counter = 0 /\ expires = FALSE /\ redisFailed = FALSE
    /\ password \in Passwords
    /\ links = {} /\ codes = {} /\ verified = FALSE /\ nextId = 0
    /\ req = [w \in Workers |-> Idle]
    /\ crossed = {}

At(w, pc) == req[w].pc = pc
GoTo(w, r) == req' = [req EXCEPT ![w] = r]
Advance(w, pc) == GoTo(w, [req[w] EXCEPT !.pc = pc])

Resting(w) == req[w].pc \in {"idle", "answered"}

\* The handler ends; what it returns goes nowhere if the answer was 408 already.
AnswerOf(w, r, status) ==
    GoTo(w, [Idle EXCEPT !.pc = "answered", !.op = r.op, !.known = r.known, !.done = r.done,
                         !.status = IF r.status = 408 THEN 408 ELSE status])

\* The status the exception filter gives to what a handler throws; 200 is any success.
StatusOf(exception) ==
    CASE exception = "none" -> 200
      [] exception = "BadRequestException" -> 400
      [] exception = "UnauthorizedException" -> 401
      [] exception = "P2025" -> 404
      [] exception = "TOO_MANY_REQUESTS" -> 429
      [] OTHER -> 500

Ends(w, exception) == AnswerOf(w, req[w], StatusOf(exception))

\* The requests V see the rows they rely on changed by w, which relies on none any more.
Cross(w, V) == crossed' = (crossed \cup V) \ {w}
Serving(pcs, ids) == {v \in Workers : req[v].pc \in pcs /\ req[v].link \in ids}

Begin(w, r) ==
    /\ r.op \in Ops
    /\ Resting(w)
    /\ GoTo(w, r)
    /\ crossed' = crossed \ {w}
    /\ UNCHANGED <<limiter, account>>

----------------------------------------------------------------------------
(* The limiter: INCR, then PEXPIRE if the answer was 1.                    *)

\* Beyond the limit all values of the counter mean the same.
Increased == IF counter > Max THEN counter ELSE counter + 1

RefusesOneEarly(n) == n >= Max
Refuses(n) == n > Max

SetsExpiryLate(n) == n = 2
SetsExpiry(n) == n = 1

LimitCount(w) ==
    /\ At(w, "limit_count")
    /\ counter' = Increased
    /\ IF Refuses(counter') THEN Ends(w, "TOO_MANY_REQUESTS")
       ELSE Advance(w, IF SetsExpiry(counter') THEN "limit_expire" ELSE "forgot_find")
    /\ UNCHANGED <<expires, redisFailed, account, crossed>>

LimitExpire(w) ==
    /\ At(w, "limit_expire")
    /\ expires' = TRUE
    /\ Advance(w, "forgot_find")
    /\ UNCHANGED <<counter, redisFailed, account, crossed>>

\* A command fails, applied or not: the request passes ("fail open").
LimitFails(w) ==
    /\ \/ /\ At(w, "limit_count")
          /\ counter' \in {counter, Increased}
          /\ GoTo(w, [req[w] EXCEPT !.pc = "forgot_find", !.counted = FALSE])
          /\ UNCHANGED expires
       \/ /\ At(w, "limit_expire")
          /\ expires' \in BOOLEAN
          /\ Advance(w, "forgot_find")
          /\ UNCHANGED counter
    /\ redisFailed' = (counter' > 0)
    /\ UNCHANGED <<account, crossed>>

WindowEnds ==
    /\ expires
    /\ counter' = 0
    /\ expires' = FALSE
    /\ redisFailed' = FALSE
    /\ UNCHANGED <<account, req, crossed>>

----------------------------------------------------------------------------
(* forgotPassword; sendVerificationEmail and resendVerificationEmail, which *)
(* do the same with another table once they have found the address not yet *)
(* verified.  The address asked about may be no one's.                     *)

ForgotBegin(w) == Begin(w, [Idle EXCEPT !.pc = "limit_count", !.op = "forgot"])

\* Nobody has the address: the answer is that of success.
Unknown(w) == AnswerOf(w, [req[w] EXCEPT !.known = FALSE], StatusOf("none"))

ForgotFind(w) ==
    /\ At(w, "forgot_find")
    /\ Unknown(w) \/ GoTo(w, [req[w] EXCEPT !.pc = "link_delete", !.counted = TRUE])
    /\ UNCHANGED <<limiter, account, crossed>>

SendBegin(w) == Begin(w, [Idle EXCEPT !.pc = "send_find", !.op = "send"])

SendFind(w) ==
    /\ At(w, "send_find")
    /\ \/ Unknown(w)
       \/ verified /\ Ends(w, "BadRequestException")
       \/ ~verified /\ Advance(w, "link_delete")
    /\ UNCHANGED <<limiter, account, crossed>>

KeepsOldLinks(rows) == rows
DeletesOldLinks(rows) == {}

LinksGo(w) ==
    /\ IF req[w].op = "forgot"
       THEN links' = DeletesOldLinks(links) /\ UNCHANGED <<codes, crossed>>
       ELSE /\ codes' = DeletesOldLinks(codes) /\ UNCHANGED links
            /\ Cross(w, Serving({"verify_write", "verify_delete"}, codes))
    /\ UNCHANGED <<limiter, password, verified, nextId>>

LinkDelete(w) == At(w, "link_delete") /\ LinksGo(w) /\ Advance(w, "link_create")

LinkComes(w, id) ==
    /\ nextId < MaxLinks
    /\ nextId' = nextId + 1
    /\ IF req[w].op = "forgot"
       THEN links' = links \cup {[id |-> id, used |-> FALSE]} /\ UNCHANGED codes
       ELSE codes' = codes \cup {id} /\ UNCHANGED links
    /\ Cross(w, {v \in Workers : At(v, "link_create") /\ req[v].op = req[w].op})
    /\ UNCHANGED <<limiter, password, verified>>

LinkCreate(w) ==
    /\ At(w, "link_create")
    /\ LinkComes(w, nextId)
    /\ GoTo(w, [req[w] EXCEPT !.pc = "link_mail", !.link = nextId, !.done = TRUE])

\* The mail is sent, or sendMail throws and the handler with it.
LinkMail(w) ==
    /\ At(w, "link_mail")
    /\ Ends(w, "none") \/ Ends(w, "Error")
    /\ UNCHANGED <<limiter, account, crossed>>

\* The links a client may ask with: a mail whose sending failed may have arrived all the same,
\* and a link whose row was never made is as good as any other unknown one.
Mailed(id) == id < nextId /\ \A w \in Workers : ~(At(w, "link_mail") /\ req[w].link = id)

----------------------------------------------------------------------------
(* resetPassword *)

Row(id) == {l \in links : l.id = id}

OpensIfPresent(id) == Row(id) # {}
Opens(id) == \E l \in Row(id) : ~l.used

ResetBegin(w, id, new) ==
    Begin(w, [Idle EXCEPT !.pc = "reset_find", !.op = "reset", !.link = id, !.new = new])

ResetFind(w) ==
    /\ At(w, "reset_find")
    /\ IF Opens(req[w].link) THEN Advance(w, "reset_commit") ELSE Ends(w, "BadRequestException")
    /\ UNCHANGED <<limiter, account, crossed>>

\* The transaction updates the row by id: a link that is gone by now rolls everything back.
\* The mail that tells of the change is part of the step, as its failure is swallowed; so it is
\* in changePassword.
AppliesAnyway(id) == TRUE
Applies(id) == Row(id) # {}

PasswordResets(w) ==
    LET r == req[w]
    IN  /\ IF Applies(r.link)
           THEN /\ password' = r.new
                /\ links' = {IF l.id = r.link THEN [l EXCEPT !.used = TRUE] ELSE l : l \in links}
                /\ Cross(w, Serving({"reset_commit"}, {r.link}))
           ELSE UNCHANGED <<password, links, crossed>>
        /\ UNCHANGED <<limiter, codes, verified, nextId>>

ResetCommit(w) ==
    LET r == req[w]
    IN  /\ At(w, "reset_commit")
        /\ PasswordResets(w)
        /\ AnswerOf(w, [r EXCEPT !.done = Applies(r.link)],
                    StatusOf(IF Row(r.link) # {} THEN "none" ELSE "P2025"))

----------------------------------------------------------------------------
(* changePassword *)

ChangeBegin(w, old, new) ==
    /\ old # new
    /\ Begin(w, [Idle EXCEPT !.pc = "change_find", !.op = "change", !.old = old, !.new = new])

ChangeFind(w) ==
    /\ At(w, "change_find")
    /\ IF password = req[w].old THEN Advance(w, "change_write") ELSE Ends(w, "UnauthorizedException")
    /\ UNCHANGED <<limiter, account, crossed>>

PasswordChanges(w) ==
    /\ password' = req[w].new
    /\ UNCHANGED <<limiter, links, codes, verified, nextId, crossed>>

ChangeWrite(w) ==
    /\ At(w, "change_write")
    /\ PasswordChanges(w)
    /\ AnswerOf(w, [req[w] EXCEPT !.done = TRUE], StatusOf("none"))

----------------------------------------------------------------------------
(* verifyEmail *)

VerifyBegin(w, id) ==
    Begin(w, [Idle EXCEPT !.pc = "verify_find", !.op = "verify", !.link = id])

VerifyFind(w) ==
    /\ At(w, "verify_find")
    /\ IF req[w].link \in codes THEN Advance(w, "verify_write") ELSE Ends(w, "BadRequestException")
    /\ UNCHANGED <<limiter, account, crossed>>

AddressVerified ==
    verified' = TRUE /\ UNCHANGED <<limiter, password, links, codes, nextId, crossed>>

VerifyWrite(w) ==
    /\ At(w, "verify_write")
    /\ AddressVerified
    /\ GoTo(w, [req[w] EXCEPT !.pc = "verify_delete", !.done = TRUE])

CodeGoes(w) ==
    /\ codes' = codes \ {req[w].link}
    /\ crossed' = crossed \cup (Serving({"verify_write", "verify_delete"}, {req[w].link}) \ {w})
    /\ UNCHANGED <<limiter, password, links, verified, nextId>>

VerifyDelete(w) ==
    /\ At(w, "verify_delete")
    /\ CodeGoes(w)
    /\ Ends(w, IF req[w].link \in codes THEN "none" ELSE "P2025")

----------------------------------------------------------------------------
(* Around the handlers *)

\* TimeoutInterceptor answers after thirty seconds; the handler goes on.  It knows nothing of
\* that, so that only how it ends matters here, not how far it had come before its last step.
Timeout(w) ==
    /\ req[w].pc \in {"link_mail", "reset_commit", "change_write", "verify_delete"}
    /\ req[w].status = 0
    /\ GoTo(w, [req[w] EXCEPT !.status = 408])
    /\ UNCHANGED <<limiter, account, crossed>>

\* A query or a transaction is rejected, by a lost connection or a time-out, and the handler
\* with it.  The rejected command has written nothing, or all it was to write.
GivesUp(w, done) == AnswerOf(w, [req[w] EXCEPT !.done = done], StatusOf("Error"))

\* The id of a link that was made and mailed to no one: Mailed never holds of it.
Unsent == MaxLinks

Querying == Stages \ {"idle", "answered", "limit_count", "limit_expire", "link_mail"}

QueryFails(w) ==
    \/ req[w].pc \in Querying /\ GivesUp(w, req[w].done) /\ UNCHANGED <<limiter, account, crossed>>
    \/ At(w, "link_delete") /\ LinksGo(w) /\ GivesUp(w, FALSE)
    \/ At(w, "link_create") /\ LinkComes(w, Unsent) /\ GivesUp(w, TRUE)
    \/ At(w, "reset_commit") /\ PasswordResets(w) /\ GivesUp(w, Applies(req[w].link))
    \/ At(w, "change_write") /\ PasswordChanges(w) /\ GivesUp(w, TRUE)
    \/ At(w, "verify_write") /\ AddressVerified /\ GivesUp(w, TRUE)
    \/ At(w, "verify_delete") /\ CodeGoes(w) /\ GivesUp(w, TRUE)

\* The server stops.
Crash(w) ==
    /\ ~Resting(w)
    /\ GoTo(w, Idle)
    /\ crossed' = crossed \ {w}
    /\ redisFailed' = (redisFailed \/ At(w, "limit_expire"))
    /\ UNCHANGED <<counter, expires, account>>

Step(w) ==
    \/ ForgotBegin(w) \/ SendBegin(w)
    \/ \E id \in {x \in Ids : Mailed(x)} :
          VerifyBegin(w, id) \/ \E new \in Passwords : ResetBegin(w, id, new)
    \/ \E old, new \in Passwords : ChangeBegin(w, old, new)
    \/ LimitCount(w) \/ LimitExpire(w) \/ LimitFails(w)
    \/ ForgotFind(w) \/ SendFind(w) \/ LinkDelete(w) \/ LinkCreate(w) \/ LinkMail(w)
    \/ ResetFind(w) \/ ResetCommit(w)
    \/ ChangeFind(w) \/ ChangeWrite(w)
    \/ VerifyFind(w) \/ VerifyWrite(w) \/ VerifyDelete(w)
    \/ QueryFails(w) \/ Timeout(w) \/ Crash(w)

Next == WindowEnds \/ \E w \in Workers : Step(w)

Spec == Init /\ [][Next]_vars

----------------------------------------------------------------------------
(* Properties *)

\* Every variable has its type.
TypeOK ==
    /\ counter \in 0..Max + 1
    /\ expires \in BOOLEAN
    /\ password \in Passwords
    /\ links \subseteq [id : Ids, used : BOOLEAN]
    /\ codes \subseteq Ids
    /\ verified \in BOOLEAN
    /\ nextId \in Ids
    /\ req \in [Workers -> Requests]
    /\ crossed \subseteq Workers
    /\ redisFailed \in BOOLEAN

\* What RateWindow says of a request, in terms of its stage here: an admitted one leaves when its
\* handler has begun, a refused one with the next request.
Gate(r) ==
    IF r.op # "forgot" THEN "outside"
    ELSE IF r.status = StatusOf("TOO_MANY_REQUESTS") THEN "refused"
    ELSE IF r.pc \in {"limit_expire", "forgot_find"} THEN IF r.counted THEN "passed" ELSE "uncounted"
    ELSE "outside"

Window == INSTANCE RateWindow WITH
    Requests <- Workers,
    admitted <- IF counter > Max THEN Max ELSE counter,
    gate <- [w \in Workers |-> Gate(req[w])]

\* The middleware, with its two commands, failures and restarts, is a fixed-window limiter: of
\* the requests it counts at most Max pass in a window, and it refuses none before.
ImplementsRateWindow == Window!Spec

\* A counter that would never be reset, so that its route would refuse for ever, appears only
\* when a command on this very key failed or the server stopped between the two.
CounterEnds ==
    counter > 0 /\ ~expires /\ ~redisFailed => \E w \in Workers : At(w, "limit_expire")

\* A reset or verification link that is made while no other one of its kind is being made
\* leaves no other link of that kind.
OldLinksDie ==
    [][\A w \in Workers : At(w, "link_create") /\ req'[w].pc = "link_mail" /\ w \notin crossed =>
          IF req[w].op = "forgot" THEN Cardinality(links') = 1 ELSE Cardinality(codes') = 1]_vars

\* A reset link changes the password once, unless two resets with it overlapped, and never
\* once a newer link has replaced it.
LinkServesOnce ==
    [][\A w \in Workers : At(w, "reset_commit") /\ req'[w].done =>
          \E l \in Row(req[w].link) : ~l.used \/ w \in crossed]_vars

\* An answer tells what happened, unless it says that a query or mail was rejected (500) or
\* took too long (408): success that the change was made, or that the address is unknown; a
\* refusal that nothing was changed, except that a verified address is denied when another
\* request took the code meanwhile.
HonestAnswer ==
    \A w \in Workers : At(w, "answered") =>
        /\ req[w].status = 200 => req[w].done \/ ~req[w].known
        /\ req[w].status \in {400, 401, 404, 429} /\ req[w].done =>
              req[w].op = "verify" /\ w \in crossed
=============================================================================
