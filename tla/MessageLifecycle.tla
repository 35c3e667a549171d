-------------------------- MODULE MessageLifecycle --------------------------
(***************************************************************************)
(* How a message comes to be and what becomes of it: the upload of a file  *)
(* and its confirmation (media.service.ts), editing, deleting for oneself  *)
(* or for everyone and forwarding (messages.service.ts), with the          *)
(* attachment rows and the objects in storage they name.                   *)
(*                                                                         *)
(* A worker serves one request; every query and every batch of storage     *)
(* calls is one step.  All users take part in every conversation involved  *)
(* (GroupMembership has the rest); Group tells which rule deleteMessage    *)
(* applies.  An object is a bucket with a key; an original and its         *)
(* thumbnail share the key.  An edit stands for a text or a caption.       *)
(***************************************************************************)
EXTENDS Naturals

CONSTANTS
    Users,
    Admins,         \* the users deleteMessage takes for admins of the conversation
    Group,          \* whether the conversation is a GROUP
    Messages,       \* bound: the messages that may come to exist
    Uploads,        \* bound: the keys of temporary objects requestUploadUrl hands out
    Files,          \* bound: the keys confirmUpload draws for what it stores
    Kinds,          \* bound: the kinds of media uploaded
    Contents,       \* texts and captions
    Null,           \* content null, forwardedFromMessageId null
    Workers,        \* requests that may be in flight together
    MaxTargets,     \* bound: targets of one forwardMessage
    Ops             \* bound: which of "text", "media", "edit", "delete", "forward",
                    \* "failure", "crash" happen

ASSUME AdminsAssumption == Admins \subseteq Users
ASSUME GroupAssumption == Group \in BOOLEAN
ASSUME NullAssumption == Null \notin Messages \cup Contents
ASSUME KindsAssumption == Kinds \subseteq {"image", "audio", "document"}
ASSUME BoundsAssumption == MaxTargets \in Nat \ {0}

VARIABLES
    msg,        \* msg[m]: the row of m with its attachments
    temp,       \* temp[k]: whether the temporary object k is still to come, there or gone
    stored,     \* the objects in the other buckets
    drawn,      \* the keys drawn so far: randomUUID never draws one again
    req,        \* req[w]: the request worker w is serving
    broken,     \* history: messages whose deletion for everyone stopped after it removed files
    unclaimed   \* history: objects whose removal failed, or whose upload never got its message

vars == <<msg, temp, stored, drawn, req, broken, unclaimed>>

Objects == {"media", "documents", "thumbnails"} \X Files

NoMessage == [state |-> "none", by |-> Null, content |-> Null, files |-> {}, from |-> Null]

MessageRows == [state : {"none", "live", "deleted"}, by : Users \cup {Null},
                content : Contents \cup {Null}, files : SUBSET Objects,
                from : Messages \cup {Null}]

Stages == {"idle", "media_absent", "media_main", "media_thumb", "media_clean", "media_create", "edit_write",
           "delete_files", "delete_write", "forward_create"}

\* key, kind, file, got: what confirmUpload was asked to process, the key it drew and the objects
\* it has stored; copy: what editMessage, forwardMessage or deleteMessage read; scope: whose view
\* deleteMessage changes; more: the targets forwardMessage has still to serve.
Idle == [pc |-> "idle", by |-> Null, key |-> Null, kind |-> Null, file |-> Null, got |-> {},
         m |-> Null, scope |-> "me", content |-> Null, copy |-> NoMessage, more |-> 0]

Requests == [pc : Stages, by : Users \cup {Null}, key : Uploads \cup {Null},
             kind : Kinds \cup {Null}, file : Files \cup {Null}, got : SUBSET Objects,
             m : Messages \cup {Null},
             scope : {"me", "everyone"}, content : Contents \cup {Null}, copy : MessageRows,
             more : 0..MaxTargets]

Init ==
    /\ msg = [m \in Messages |-> NoMessage]
    /\ temp = [k \in Uploads |-> "awaited"]
    /\ stored = {}
    /\ drawn = {}
    /\ req = [w \in Workers |-> Idle]
    /\ broken = {}
    /\ unclaimed = {}

Exists(m) == msg[m].state # "none"
Live(m) == msg[m].state = "live"
Deleted(m) == msg[m].state = "deleted"

Free(m) == ~Exists(m)

At(w, pc) == req[w].pc = pc
GoTo(w, r) == req' = [req EXCEPT ![w] = r]
End(w) == GoTo(w, Idle)
Advance(w, pc) == GoTo(w, [req[w] EXCEPT !.pc = pc])

----------------------------------------------------------------------------
(* sendMessage; requestUploadUrl, confirmUpload and createMediaMessage. *)

SendText(u, m, c) ==
    /\ "text" \in Ops
    /\ Free(m)
    /\ msg' = [msg EXCEPT ![m] = [NoMessage EXCEPT !.state = "live", !.by = u, !.content = c]]
    /\ UNCHANGED <<drawn, temp, stored, req, broken, unclaimed>>

\* The client writes to the URL it was given.  Bound: once, though the URL serves for an hour.
Put(k) ==
    /\ "media" \in Ops
    /\ temp[k] = "awaited"
    /\ temp' = [temp EXCEPT ![k] = "there"]
    /\ UNCHANGED <<drawn, msg, stored, req, broken, unclaimed>>

Named == UNION {msg[m].files : m \in Messages}
Uploading == UNION {req[w].got : w \in Workers}

MediaBegin(w, u, k, kind, f) ==
    /\ "media" \in Ops
    /\ temp[k] = "there"
    /\ f \notin drawn
    /\ drawn' = drawn \cup {f}
    /\ At(w, "idle")
    /\ GoTo(w, [Idle EXCEPT !.pc = "media_main", !.by = u, !.key = k, !.kind = kind, !.file = f])
    /\ UNCHANGED <<msg, temp, stored, broken, unclaimed>>

\* Confirmed before the client has written, or a second time: there is nothing to read, and what
\* the client may write until then is removed with the request.
MediaAbsent(w, u, k) ==
    /\ "media" \in Ops
    /\ temp[k] # "there"
    /\ At(w, "idle")
    /\ GoTo(w, [Idle EXCEPT !.pc = "media_absent", !.by = u, !.key = k])
    /\ UNCHANGED <<drawn, msg, temp, stored, broken, unclaimed>>

BucketFor(kind) == IF kind = "document" THEN "documents" ELSE "media"
HasThumbnail(kind) == kind = "image"

MediaMain(w) ==
    LET o == <<BucketFor(req[w].kind), req[w].file>>
    IN  /\ At(w, "media_main")
        /\ stored' = stored \cup {o}
        /\ GoTo(w, [req[w] EXCEPT !.got = {o},
                                  !.pc = IF HasThumbnail(req[w].kind) THEN "media_thumb" ELSE "media_clean"])
        /\ UNCHANGED <<drawn, msg, temp, broken, unclaimed>>

MediaThumb(w) ==
    LET o == <<"thumbnails", req[w].file>>
    IN  /\ At(w, "media_thumb")
        /\ stored' = stored \cup {o}
        /\ GoTo(w, [req[w] EXCEPT !.got = @ \cup {o}, !.pc = "media_clean"])
        /\ UNCHANGED <<drawn, msg, temp, broken, unclaimed>>

\* Too large, of another type than declared, not to be processed, or not to be stored.
MediaFails(w) ==
    /\ "failure" \in Ops
    /\ req[w].pc \in {"media_main", "media_thumb"}
    /\ GoTo(w, [req[w] EXCEPT !.got = {}, !.pc = "media_clean"])
    /\ unclaimed' = unclaimed \cup req[w].got
    /\ UNCHANGED <<drawn, msg, temp, stored, broken>>

\* The temporary object goes whatever happened; a removal that fails, or finds no object, is ignored.
MediaClean(w) ==
    /\ At(w, "media_clean") \/ At(w, "media_absent")
    /\ \/ temp' = [temp EXCEPT ![req[w].key] = IF @ = "there" THEN "gone" ELSE @]
       \/ "failure" \in Ops /\ temp' = temp
    /\ IF req[w].got = {} THEN End(w) ELSE Advance(w, "media_create")
    /\ UNCHANGED <<drawn, msg, stored, broken, unclaimed>>

\* The row names the original in the bucket "media": confirmUpload does not say which it used.
NamesWithoutThumbnail(w) == {<<"media", req[w].file>>}
NamesOf(w) ==
    {<<"media", req[w].file>>} \cup {o \in req[w].got : o[1] = "thumbnails"}

MediaCreate(w, m) ==
    /\ At(w, "media_create")
    /\ Free(m)
    /\ msg' = [msg EXCEPT ![m] = [NoMessage EXCEPT !.state = "live", !.by = req[w].by,
                                                   !.files = NamesOf(w)]]
    /\ End(w)
    /\ UNCHANGED <<drawn, temp, stored, broken, unclaimed>>

\* The sender has left or is blocked by now, or the message replied to is of another conversation.
MediaRefused(w) ==
    /\ "failure" \in Ops
    /\ At(w, "media_create")
    /\ End(w)
    /\ unclaimed' = unclaimed \cup req[w].got
    /\ UNCHANGED <<drawn, msg, temp, stored, broken>>

----------------------------------------------------------------------------
(* editMessage *)

MayEditAnything(m, u) == Exists(m) /\ msg[m].by = u
MayEdit(m, u) == Live(m) /\ msg[m].by = u

EditBegin(w, u, m, c) ==
    /\ "edit" \in Ops
    /\ MayEdit(m, u)
    /\ At(w, "idle")
    /\ GoTo(w, [Idle EXCEPT !.pc = "edit_write", !.by = u, !.m = m, !.copy = msg[m],
                            !.content = c])
    /\ UNCHANGED <<drawn, msg, temp, stored, broken, unclaimed>>

\* The update is by id, whatever the row holds by now.
EditWrite(w) ==
    /\ At(w, "edit_write")
    /\ msg' = [msg EXCEPT ![req[w].m].content = req[w].content]
    /\ End(w)
    /\ UNCHANGED <<drawn, temp, stored, broken, unclaimed>>

----------------------------------------------------------------------------
(* deleteMessage *)

MayDelete(u, m, scope) ==
    /\ Live(m)
    /\ IF scope = "everyone" /\ Group THEN u \in Admins ELSE msg[m].by = u

TakesFilesAlways(scope, files) == files # {}
TakesFiles(scope, files) == scope = "everyone" /\ files # {}

DeleteBegin(w, u, m, scope) ==
    /\ "delete" \in Ops
    /\ MayDelete(u, m, scope)
    /\ At(w, "idle")
    /\ GoTo(w, [Idle EXCEPT !.pc = IF TakesFiles(scope, msg[m].files) THEN "delete_files"
                                                                       ELSE "delete_write",
                            !.by = u, !.m = m, !.scope = scope,
                            !.copy = IF TakesFiles(scope, msg[m].files)
                                     THEN [NoMessage EXCEPT !.files = msg[m].files] ELSE NoMessage])
    /\ UNCHANGED <<drawn, msg, temp, stored, broken, unclaimed>>

\* A removal that fails is logged and forgotten.
DeleteFiles(w) ==
    /\ At(w, "delete_files")
    /\ \E gone \in SUBSET req[w].copy.files : stored' = stored \ gone
    /\ unclaimed' = stored' \cap (unclaimed \cup req[w].copy.files)
    /\ GoTo(w, [req[w] EXCEPT !.pc = "delete_write", !.copy = NoMessage])
    /\ UNCHANGED <<drawn, msg, temp, broken>>

FilesLeft(scope, files) == IF scope = "everyone" THEN {} ELSE files

DeleteWrite(w) ==
    LET m == req[w].m
    IN  /\ At(w, "delete_write")
        /\ msg' = [msg EXCEPT ![m].state = "deleted", ![m].content = Null,
                              ![m].files = FilesLeft(req[w].scope, @)]
        /\ End(w)
        /\ broken' = broken \ {m}
        /\ UNCHANGED <<drawn, temp, stored, unclaimed>>

----------------------------------------------------------------------------
(* forwardMessage: the original is read once, then one message is created  *)
(* per target.                                                             *)

MayForward(m) == Live(m)

ForwardBegin(w, u, m, n) ==
    /\ "forward" \in Ops
    /\ MayForward(m)
    /\ At(w, "idle")
    /\ GoTo(w, [Idle EXCEPT !.pc = "forward_create", !.by = u, !.m = m, !.copy = msg[m], !.more = n])
    /\ UNCHANGED <<drawn, msg, temp, stored, broken, unclaimed>>

ItsOwnId(m, copy) == m
Origin(m, copy) == IF copy.from # Null THEN copy.from ELSE m

ForwardCreate(w, m) ==
    /\ At(w, "forward_create")
    /\ Free(m)
    /\ msg' = [msg EXCEPT ![m] = [req[w].copy EXCEPT !.by = req[w].by,
                                                     !.from = Origin(req[w].m, req[w].copy)]]
    /\ IF req[w].more = 1 THEN End(w) ELSE GoTo(w, [req[w] EXCEPT !.more = @ - 1])
    /\ UNCHANGED <<drawn, temp, stored, broken, unclaimed>>

----------------------------------------------------------------------------

\* The server stops in the middle of a request.
Crash(w) ==
    /\ "crash" \in Ops
    /\ ~At(w, "idle")
    /\ End(w)
    /\ broken' = IF At(w, "delete_write") /\ req[w].scope = "everyone"
                 THEN broken \cup {req[w].m} ELSE broken
    /\ unclaimed' = unclaimed \cup req[w].got
    /\ UNCHANGED <<drawn, msg, temp, stored>>

Step(w) ==
    \/ \E u \in Users, k \in Uploads, kind \in Kinds, f \in Files : MediaBegin(w, u, k, kind, f)
    \/ \E u \in Users, k \in Uploads : MediaAbsent(w, u, k)
    \/ MediaMain(w) \/ MediaThumb(w) \/ MediaFails(w) \/ MediaClean(w) \/ MediaRefused(w)
    \/ \E m \in Messages : MediaCreate(w, m) \/ ForwardCreate(w, m)
    \/ \E u \in Users, m \in Messages, c \in Contents : EditBegin(w, u, m, c)
    \/ \E u \in Users, m \in Messages, scope \in {"me", "everyone"} : DeleteBegin(w, u, m, scope)
    \/ \E u \in Users, m \in Messages, n \in 1..MaxTargets : ForwardBegin(w, u, m, n)
    \/ EditWrite(w) \/ DeleteFiles(w) \/ DeleteWrite(w)
    \/ Crash(w)

Next ==
    \/ \E u \in Users, m \in Messages, c \in Contents : SendText(u, m, c)
    \/ \E k \in Uploads : Put(k)
    \/ \E w \in Workers : Step(w)

Spec == Init /\ [][Next]_vars

----------------------------------------------------------------------------
(* Properties *)

\* Every variable has its type; a forwarded message names a message that exists.
TypeOK ==
    /\ msg \in [Messages -> MessageRows]
    /\ temp \in [Uploads -> {"awaited", "there", "gone"}]
    /\ stored \subseteq Objects
    /\ drawn \subseteq Files
    /\ req \in [Workers -> Requests]
    /\ broken \subseteq Messages
    /\ unclaimed \subseteq Objects
    /\ \A m \in Messages : msg[m].from # Null => Exists(msg[m].from)

\* A request that read m before it was deleted and will still write for it.
Unaware(w, m) ==
    /\ req[w].m = m
    /\ req[w].pc \in {"edit_write", "forward_create"}
    /\ req[w].copy.state = "live"

\* Once a message is deleted and the requests that had read it before are done, it is frozen:
\* no edit gives it content back (a second deletion may take what a late edit had written) and
\* no new forward of it appears.
DeletedIsFrozen ==
    [][\A m \in Messages : Deleted(m) /\ (\A w \in Workers : ~Unaware(w, m)) =>
           /\ msg'[m].content \in {msg[m].content, Null}
           /\ \A x \in Messages : msg'[x].from = m => Exists(x)
                  \/ \E w \in Workers : At(w, "forward_create") /\ req[w].copy.from = m]_vars

Shared(o, m) == \E x \in Messages \ {m} : msg[x].from = m \/ msg[m].from = x
                                              \/ (o \in msg[x].files)

IsDocument(o) == o[1] = "documents" \/ <<"documents", o[2]>> \in stored

\* An object a live message names is in storage, unless a deletion for everyone of that message is
\* under way or stopped half-way, the message shares its files with a forward or an original, or
\* it is a document, which is stored in another bucket than the one its message names.
FilesBacked ==
    \A m \in Messages : Live(m) => \A o \in msg[m].files :
        \/ o \in stored
        \/ Shared(o, m) \/ IsDocument(o)
        \/ m \in broken
        \/ \E w \in Workers : req[w].m = m /\ At(w, "delete_write") /\ req[w].scope = "everyone"

\* Storage keeps no object that no message names, but for those whose removal failed, those whose
\* upload never became a message, and the documents, which no deletion of a message reaches.
NoOrphanFiles ==
    \A o \in stored : o \in Named \cup Uploading \cup unclaimed \/ IsDocument(o)

\* However often a message is forwarded on, each copy names the message it all began with,
\* never another copy.
LineageIsFlat ==
    \A m \in Messages : msg[m].from # Null => msg[msg[m].from].from = Null
=============================================================================
