---------------------- MODULE MessageLifecycleProofs ----------------------
(***************************************************************************)
(* That forwards form a flat family, that a deleted message stays deleted, *)
(* and that rows and storage agree on the objects there are, for any       *)
(* users, messages, files and requests in flight.                          *)
(***************************************************************************)
EXTENDS MessageLifecycle, TLAPS

----------------------------------------------------------------------------
(* The inductive invariant.                                                *)

Media == {"media_main", "media_thumb", "media_clean", "media_create"}
OnMessage == {"edit_write", "delete_files", "delete_write", "forward_create"}

\* An upload that had nothing to read has stored nothing; a request on a message found its row; an edit and a forward read it live, and what a forward
\* copied still says where it is from.
RequestFits(r) ==
    /\ r.pc \in Media => r.file \in Files
    /\ r.pc = "media_absent" => r.got = {}
    /\ r.pc \in OnMessage => r.m \in Messages /\ Exists(r.m)
    /\ r.pc = "edit_write" => r.copy.state = "live"
    /\ r.pc = "forward_create" => /\ r.copy.state = "live" /\ r.copy.from = msg[r.m].from
                                  /\ r.more \in 1..MaxTargets

\* Only a row that is there names an original.
NamesFit == \A m \in Messages : msg[m].from # Null => Exists(m)

IInv ==
    /\ TypeOK
    /\ \A w \in Workers : RequestFits(req[w])
    /\ NamesFit
    /\ LineageIsFlat

USE NullAssumption, BoundsAssumption

----------------------------------------------------------------------------
(* Which rows a step writes. *)

\* Nothing changes in msg, or row m becomes r: a row that is there keeps its origin, a new one
\* names nothing or an original.
Writes(m, r) ==
    /\ m \in Messages /\ r \in MessageRows
    /\ msg' = [msg EXCEPT ![m] = r]
    /\ r.state # "none"
    /\ Exists(m) => r.from = msg[m].from
    /\ ~Exists(m) => r.from = Null \/ (r.from \in Messages /\ Exists(r.from) /\ msg[r.from].from = Null)

RowStep == UNCHANGED msg \/ \E m \in Messages, r \in MessageRows : Writes(m, r)

\* One request changes, to one that fits the rows as they are now.
Serves(w, r) ==
    /\ w \in Workers /\ r \in Requests
    /\ req' = [req EXCEPT ![w] = r]
    /\ RequestFits(r)

RequestStep == UNCHANGED req \/ \E w \in Workers, r \in Requests : Serves(w, r)

Kept ==
    /\ temp' \in [Uploads -> {"awaited", "there", "gone"}]
    /\ stored' \subseteq Objects
    /\ drawn' \subseteq Files
    /\ broken' \subseteq Messages
    /\ unclaimed' \subseteq Objects

LEMMA IdleFits == Idle \in Requests /\ RequestFits(Idle) /\ NoMessage \in MessageRows
<1>1. NoMessage \in MessageRows
  BY DEF NoMessage, MessageRows
<1>2. Idle \in Requests
  BY <1>1 DEF Idle, Requests, Stages
<1>3. RequestFits(Idle)
  BY DEF RequestFits, Idle, Media, OnMessage
<1> QED
  BY <1>1, <1>2, <1>3

\* A request that ends.
LEMMA EndServes ==
    ASSUME IInv, NEW w \in Workers, End(w)
    PROVE  RequestStep
  BY IdleFits DEF End, GoTo, RequestStep, Serves

----------------------------------------------------------------------------
(* Each operation. *)

LEMMA SendTextFits ==
    ASSUME IInv, NEW u \in Users, NEW m \in Messages, NEW c \in Contents, SendText(u, m, c)
    PROVE  RowStep /\ RequestStep /\ Kept
<1> DEFINE r == [NoMessage EXCEPT !.state = "live", !.by = u, !.content = c]
<1>1. r \in MessageRows /\ r.state = "live" /\ r.from = Null
  BY DEF NoMessage, MessageRows
<1>2. msg' = [msg EXCEPT ![m] = r] /\ ~Exists(m)
  BY DEF SendText, Free
<1> HIDE DEF r
<1>3. RowStep
  BY <1>1, <1>2 DEF RowStep, Writes
<1>4. UNCHANGED <<drawn, temp, stored, req, broken, unclaimed>>
  BY DEF SendText
<1> QED
  BY <1>3, <1>4 DEF RequestStep, Kept, IInv, TypeOK

LEMMA PutFits ==
    ASSUME IInv, NEW k \in Uploads, Put(k)
    PROVE  RowStep /\ RequestStep /\ Kept
<1>1. UNCHANGED <<drawn, msg, stored, req, broken, unclaimed>> /\ temp' = [temp EXCEPT ![k] = "there"]
  BY DEF Put
<1> QED
  BY <1>1 DEF RowStep, RequestStep, Kept, IInv, TypeOK

LEMMA MediaBeginFits ==
    ASSUME IInv, NEW w \in Workers, NEW u \in Users, NEW k \in Uploads, NEW kind \in Kinds, NEW f \in Files,
           MediaBegin(w, u, k, kind, f)
    PROVE  RowStep /\ RequestStep /\ Kept
<1> DEFINE r == [Idle EXCEPT !.pc = "media_main", !.by = u, !.key = k, !.kind = kind, !.file = f]
<1>1. r \in Requests /\ r.pc = "media_main" /\ r.file = f
  BY IdleFits DEF Idle, Requests, Stages
<1>2. req' = [req EXCEPT ![w] = r]
  BY DEF MediaBegin, GoTo
<1> HIDE DEF r
<1>3. RequestStep
  BY <1>1, <1>2 DEF RequestStep, Serves, RequestFits, Media, OnMessage
<1>4. UNCHANGED <<msg, temp, stored, broken, unclaimed>> /\ drawn' = drawn \cup {f}
  BY DEF MediaBegin
<1> QED
  BY <1>3, <1>4 DEF RowStep, Kept, IInv, TypeOK

LEMMA MediaAbsentFits ==
    ASSUME IInv, NEW w \in Workers, NEW u \in Users, NEW k \in Uploads, MediaAbsent(w, u, k)
    PROVE  RowStep /\ RequestStep /\ Kept
<1> DEFINE r == [Idle EXCEPT !.pc = "media_absent", !.by = u, !.key = k]
<1>1. r \in Requests /\ r.pc = "media_absent" /\ r.got = {}
  BY IdleFits DEF Idle, Requests, Stages
<1>2. req' = [req EXCEPT ![w] = r]
  BY DEF MediaAbsent, GoTo
<1> HIDE DEF r
<1>3. RequestStep
  BY <1>1, <1>2 DEF RequestStep, Serves, RequestFits, Media, OnMessage
<1>4. UNCHANGED <<drawn, msg, temp, stored, broken, unclaimed>>
  BY DEF MediaAbsent
<1> QED
  BY <1>3, <1>4 DEF RowStep, Kept, IInv, TypeOK

\* A step of an upload that stays an upload.
LEMMA UploadServes ==
    ASSUME IInv, NEW w \in Workers, NEW got \in SUBSET Objects, NEW pc \in Media, req[w].pc \in Media,
           GoTo(w, [req[w] EXCEPT !.got = got, !.pc = pc])
    PROVE  RequestStep
<1> DEFINE r == [req[w] EXCEPT !.got = got, !.pc = pc]
<1>1. req[w] \in Requests /\ RequestFits(req[w])
  BY DEF IInv, TypeOK
<1>2. r \in Requests /\ r.pc = pc /\ r.file = req[w].file
  BY <1>1, ZenonT(40) DEF Requests, Stages, Media
<1>3. req' = [req EXCEPT ![w] = r]
  BY DEF GoTo
<1> HIDE DEF r
<1>4. RequestFits(r)
  BY <1>1, <1>2 DEF RequestFits, Media, OnMessage
<1> QED
  BY <1>2, <1>3, <1>4 DEF RequestStep, Serves

LEMMA UploadFits ==
    ASSUME IInv, NEW w \in Workers, MediaMain(w) \/ MediaThumb(w) \/ MediaFails(w)
    PROVE  RowStep /\ RequestStep /\ Kept
<1>1. req[w] \in Requests /\ RequestFits(req[w]) /\ TypeOK
  BY DEF IInv, TypeOK
<1>2. req[w].pc \in Media /\ req[w].file \in Files /\ req[w].got \subseteq Objects
  BY <1>1 DEF MediaMain, MediaThumb, MediaFails, At, RequestFits, Media, Requests
<1>3. CASE MediaMain(w)
  <2> DEFINE o == <<BucketFor(req[w].kind), req[w].file>>
             pc == IF HasThumbnail(req[w].kind) THEN "media_thumb" ELSE "media_clean"
             got == {o}
  <2>1. o \in Objects /\ pc \in Media
    BY <1>2 DEF Objects, BucketFor, Media
  <2>2. /\ stored' = stored \cup got /\ GoTo(w, [req[w] EXCEPT !.got = got, !.pc = pc])
        /\ UNCHANGED <<drawn, msg, temp, broken, unclaimed>>
    BY <1>3 DEF MediaMain
  <2>3. got \in SUBSET Objects
    BY <2>1
  <2> HIDE DEF got, pc
  <2>4. RequestStep
    BY <1>2, <2>1, <2>2, <2>3, UploadServes
  <2> QED
    BY <1>1, <2>2, <2>3, <2>4 DEF RowStep, Kept, TypeOK
<1>4. CASE MediaThumb(w)
  <2> DEFINE o == <<"thumbnails", req[w].file>>
             got == req[w].got \cup {o}
  <2>1. o \in Objects /\ got \in SUBSET Objects /\ "media_clean" \in Media
    BY <1>2 DEF Objects, Media
  <2>2. /\ stored' = stored \cup {o} /\ GoTo(w, [req[w] EXCEPT !.got = got, !.pc = "media_clean"])
        /\ UNCHANGED <<drawn, msg, temp, broken, unclaimed>>
    BY <1>4 DEF MediaThumb
  <2> HIDE DEF got, o
  <2>3. RequestStep
    BY <1>2, <2>1, <2>2, UploadServes
  <2> QED
    BY <1>1, <2>1, <2>2, <2>3 DEF RowStep, Kept, TypeOK
<1>5. CASE MediaFails(w)
  <2>1. /\ unclaimed' = unclaimed \cup req[w].got /\ GoTo(w, [req[w] EXCEPT !.got = {}, !.pc = "media_clean"])
        /\ UNCHANGED <<drawn, msg, temp, stored, broken>> /\ "media_clean" \in Media
    BY <1>5 DEF MediaFails, Media
  <2>2. RequestStep
    BY <1>2, <2>1, UploadServes
  <2> QED
    BY <1>1, <1>2, <2>1, <2>2 DEF RowStep, Kept, TypeOK
<1> QED
  BY <1>3, <1>4, <1>5

LEMMA CleanFits ==
    ASSUME IInv, NEW w \in Workers, MediaClean(w)
    PROVE  RowStep /\ RequestStep /\ Kept
<1>1. req[w] \in Requests /\ RequestFits(req[w]) /\ TypeOK
  BY DEF IInv, TypeOK
<1>2. /\ UNCHANGED <<drawn, msg, stored, broken, unclaimed>>
      /\ \/ temp' = temp
         \/ temp' = [temp EXCEPT ![req[w].key] = IF temp[req[w].key] = "there" THEN "gone" ELSE temp[req[w].key]]
      /\ End(w) \/ (req[w].file \in Files /\ GoTo(w, [req[w] EXCEPT !.pc = "media_create"]))
  <2>1. req[w].got # {} => req[w].pc = "media_clean"
    BY <1>1 DEF MediaClean, At, RequestFits
  <2> QED
    BY <1>1, <2>1 DEF MediaClean, Advance, RequestFits, Media
<1>3. temp' \in [Uploads -> {"awaited", "there", "gone"}]
  BY <1>1, <1>2 DEF TypeOK
<1>4. ASSUME req[w].file \in Files, GoTo(w, [req[w] EXCEPT !.pc = "media_create"]) PROVE RequestStep
  <2> DEFINE r == [req[w] EXCEPT !.pc = "media_create"]
  <2>1. r \in Requests /\ r.pc = "media_create" /\ r.file = req[w].file
    BY <1>1 DEF Requests, Stages
  <2>2. req' = [req EXCEPT ![w] = r]
    BY <1>4 DEF GoTo
  <2> HIDE DEF r
  <2>3. RequestFits(r)
    BY <1>4, <2>1 DEF RequestFits, Media, OnMessage
  <2> QED
    BY <2>1, <2>2, <2>3 DEF RequestStep, Serves
<1> QED
  BY <1>1, <1>2, <1>3, <1>4, EndServes DEF RowStep, Kept, TypeOK

LEMMA MediaCreateFits ==
    ASSUME IInv, NEW w \in Workers, NEW m \in Messages, MediaCreate(w, m)
    PROVE  RowStep /\ RequestStep /\ Kept
<1> DEFINE r == [NoMessage EXCEPT !.state = "live", !.by = req[w].by, !.files = NamesOf(w)]
<1>1. req[w] \in Requests /\ RequestFits(req[w]) /\ TypeOK
  BY DEF IInv, TypeOK
<1>2. /\ req[w].pc = "media_create" /\ ~Exists(m) /\ msg' = [msg EXCEPT ![m] = r] /\ End(w)
      /\ UNCHANGED <<drawn, temp, stored, broken, unclaimed>>
  BY DEF MediaCreate, At, Free
<1>3. NamesOf(w) \subseteq Objects /\ req[w].by \in Users \cup {Null}
  <2>1. req[w].file \in Files /\ req[w].got \subseteq Objects /\ req[w].by \in Users \cup {Null}
    BY <1>1, <1>2 DEF RequestFits, Media, Requests
  <2>2. <<"media", req[w].file>> \in Objects
    BY <2>1 DEF Objects
  <2> QED
    BY <2>1, <2>2 DEF NamesOf
<1>4. r \in MessageRows /\ r.state = "live" /\ r.from = Null
  BY <1>3 DEF NoMessage, MessageRows
<1> HIDE DEF r
<1>5. RowStep
  BY <1>2, <1>4 DEF RowStep, Writes
<1> QED
  BY <1>1, <1>2, <1>5, EndServes DEF Kept, TypeOK

LEMMA RefusedFits ==
    ASSUME IInv, NEW w \in Workers, MediaRefused(w) \/ Crash(w)
    PROVE  RowStep /\ RequestStep /\ Kept
<1>1. req[w] \in Requests /\ RequestFits(req[w]) /\ TypeOK
  BY DEF IInv, TypeOK
<1>2. /\ UNCHANGED <<drawn, msg, temp, stored>> /\ End(w) /\ unclaimed' = unclaimed \cup req[w].got
      /\ broken' = broken \/ (req[w].pc = "delete_write" /\ broken' = broken \cup {req[w].m})
  BY DEF MediaRefused, Crash, At
<1>3. req[w].got \subseteq Objects /\ (req[w].pc = "delete_write" => req[w].m \in Messages)
  BY <1>1 DEF Requests, RequestFits, OnMessage
<1> QED
  BY <1>1, <1>2, <1>3, EndServes DEF RowStep, Kept, TypeOK

LEMMA EditBeginFits ==
    ASSUME IInv, NEW w \in Workers, NEW u \in Users, NEW m \in Messages, NEW c \in Contents,
           EditBegin(w, u, m, c)
    PROVE  RowStep /\ RequestStep /\ Kept
<1> DEFINE r == [Idle EXCEPT !.pc = "edit_write", !.by = u, !.m = m, !.copy = msg[m], !.content = c]
<1>0. msg[m] \in MessageRows
  BY DEF IInv, TypeOK
<1>1. r \in Requests /\ r.pc = "edit_write" /\ r.m = m /\ r.copy = msg[m]
  BY <1>0, IdleFits DEF Idle, Requests, Stages
<1>2. req' = [req EXCEPT ![w] = r] /\ Exists(m) /\ msg[m].state = "live"
  BY DEF EditBegin, GoTo, MayEdit, Live, Exists
<1> HIDE DEF r
<1>3. RequestStep
  BY <1>1, <1>2 DEF RequestStep, Serves, RequestFits, Media, OnMessage
<1>4. UNCHANGED <<drawn, msg, temp, stored, broken, unclaimed>>
  BY DEF EditBegin
<1> QED
  BY <1>3, <1>4 DEF RowStep, Kept, IInv, TypeOK

LEMMA EditWriteFits ==
    ASSUME IInv, NEW w \in Workers, EditWrite(w)
    PROVE  RowStep /\ RequestStep /\ Kept
<1> DEFINE m == req[w].m
           r == [msg[m] EXCEPT !.content = req[w].content]
<1>1. req[w] \in Requests /\ RequestFits(req[w]) /\ TypeOK
  BY DEF IInv, TypeOK
<1>2. /\ req[w].pc = "edit_write" /\ msg' = [msg EXCEPT ![m] = r] /\ End(w)
      /\ UNCHANGED <<drawn, temp, stored, broken, unclaimed>>
  BY <1>1 DEF EditWrite, At, TypeOK
<1>3. m \in Messages /\ Exists(m) /\ req[w].content \in Contents \cup {Null}
  BY <1>1, <1>2 DEF RequestFits, OnMessage, Requests
<1>4. msg[m] \in MessageRows
  BY <1>1, <1>3 DEF TypeOK
<1>5. r \in MessageRows /\ r.state = msg[m].state /\ r.from = msg[m].from
  BY <1>3, <1>4 DEF MessageRows
<1> HIDE DEF r
<1>6. RowStep
  BY <1>2, <1>3, <1>5 DEF RowStep, Writes, Exists
<1> QED
  BY <1>1, <1>2, <1>6, EndServes DEF Kept, TypeOK

LEMMA DeleteBeginFits ==
    ASSUME IInv, NEW w \in Workers, NEW u \in Users, NEW m \in Messages, NEW scope \in {"me", "everyone"},
           DeleteBegin(w, u, m, scope)
    PROVE  RowStep /\ RequestStep /\ Kept
<1> DEFINE takes == TakesFiles(scope, msg[m].files)
           pc == IF takes THEN "delete_files" ELSE "delete_write"
           copy == IF takes THEN [NoMessage EXCEPT !.files = msg[m].files] ELSE NoMessage
           r == [Idle EXCEPT !.pc = pc, !.by = u, !.m = m, !.scope = scope, !.copy = copy]
<1>1. msg[m] \in MessageRows
  BY DEF IInv, TypeOK
<1>2. msg[m].files \subseteq Objects
  BY <1>1 DEF MessageRows
<1>3. copy \in MessageRows /\ pc \in {"delete_files", "delete_write"}
  BY <1>2, IdleFits DEF NoMessage, MessageRows
<1>4. req' = [req EXCEPT ![w] = r] /\ Exists(m)
  BY DEF DeleteBegin, GoTo, MayDelete, Live, Exists
<1> HIDE DEF pc, copy
<1>5. r \in Requests /\ r.pc = pc /\ r.m = m
  BY <1>3, IdleFits DEF Idle, Requests, Stages
<1> HIDE DEF r
<1>6. RequestFits(r)
  BY <1>3, <1>4, <1>5 DEF RequestFits, Media, OnMessage
<1>7. RequestStep
  BY <1>4, <1>5, <1>6 DEF RequestStep, Serves
<1>8. UNCHANGED <<drawn, msg, temp, stored, broken, unclaimed>>
  BY DEF DeleteBegin
<1> QED
  BY <1>7, <1>8 DEF RowStep, Kept, IInv, TypeOK

LEMMA DeleteFilesFits ==
    ASSUME IInv, NEW w \in Workers, DeleteFiles(w)
    PROVE  RowStep /\ RequestStep /\ Kept
<1> DEFINE r == [req[w] EXCEPT !.pc = "delete_write", !.copy = NoMessage]
<1>1. req[w] \in Requests /\ RequestFits(req[w]) /\ TypeOK
  BY DEF IInv, TypeOK
<1>2. /\ req[w].pc = "delete_files" /\ req' = [req EXCEPT ![w] = r] /\ stored' \subseteq stored
      /\ unclaimed' \subseteq stored' /\ UNCHANGED <<drawn, msg, temp, broken>>
  BY DEF DeleteFiles, At, GoTo
<1>3. r \in Requests /\ r.pc = "delete_write" /\ r.m = req[w].m
  BY <1>1, IdleFits, ZenonT(40) DEF Requests, Stages
<1> HIDE DEF r
<1>4. RequestFits(r)
  BY <1>1, <1>2, <1>3 DEF RequestFits, Media, OnMessage
<1>5. RequestStep
  BY <1>2, <1>3, <1>4 DEF RequestStep, Serves
<1> QED
  BY <1>1, <1>2, <1>5 DEF RowStep, Kept, TypeOK

LEMMA DeleteWriteFits ==
    ASSUME IInv, NEW w \in Workers, DeleteWrite(w)
    PROVE  RowStep /\ RequestStep /\ Kept
<1> DEFINE m == req[w].m
           left == FilesLeft(req[w].scope, msg[m].files)
           r == [msg[m] EXCEPT !.state = "deleted", !.content = Null, !.files = left]
<1>1. req[w] \in Requests /\ RequestFits(req[w]) /\ TypeOK
  BY DEF IInv, TypeOK
<1>2. /\ req[w].pc = "delete_write" /\ msg' = [msg EXCEPT ![m] = r] /\ End(w)
      /\ broken' = broken \ {m} /\ UNCHANGED <<drawn, temp, stored, unclaimed>>
  BY <1>1 DEF DeleteWrite, At, TypeOK
<1>3. m \in Messages /\ Exists(m)
  BY <1>1, <1>2 DEF RequestFits, OnMessage
<1>4. msg[m] \in MessageRows
  BY <1>1, <1>3 DEF TypeOK
<1>5. left \subseteq Objects
  BY <1>4 DEF FilesLeft, MessageRows
<1> HIDE DEF left
<1>6. r \in MessageRows /\ r.state = "deleted" /\ r.from = msg[m].from
  BY <1>4, <1>5 DEF MessageRows
<1> HIDE DEF r
<1>7. RowStep
  BY <1>2, <1>3, <1>6 DEF RowStep, Writes
<1> QED
  BY <1>1, <1>2, <1>7, EndServes DEF Kept, TypeOK

LEMMA ForwardBeginFits ==
    ASSUME IInv, NEW w \in Workers, NEW u \in Users, NEW m \in Messages, NEW n \in 1..MaxTargets,
           ForwardBegin(w, u, m, n)
    PROVE  RowStep /\ RequestStep /\ Kept
<1> DEFINE r == [Idle EXCEPT !.pc = "forward_create", !.by = u, !.m = m, !.copy = msg[m], !.more = n]
<1>1. msg[m] \in MessageRows /\ n \in 0..MaxTargets
  BY DEF IInv, TypeOK
<1>2. r \in Requests /\ r.pc = "forward_create" /\ r.m = m /\ r.copy = msg[m] /\ r.more = n
  BY <1>1, IdleFits DEF Idle, Requests, Stages
<1>3. req' = [req EXCEPT ![w] = r] /\ Exists(m) /\ msg[m].state = "live"
  BY DEF ForwardBegin, GoTo, MayForward, Live, Exists
<1> HIDE DEF r
<1>4. RequestStep
  BY <1>2, <1>3 DEF RequestStep, Serves, RequestFits, Media, OnMessage
<1>5. UNCHANGED <<drawn, msg, temp, stored, broken, unclaimed>>
  BY DEF ForwardBegin
<1> QED
  BY <1>4, <1>5 DEF RowStep, Kept, IInv, TypeOK

\* A forward names what its original names, or the original where that names nothing: in both
\* cases a message that was not forwarded itself.
LEMMA OriginIsFirst ==
    ASSUME IInv, NEW w \in Workers, req[w].pc = "forward_create"
    PROVE  LET o == Origin(req[w].m, req[w].copy)
           IN  o \in Messages /\ Exists(o) /\ msg[o].from = Null
<1> DEFINE m == req[w].m
<1>1. m \in Messages /\ Exists(m) /\ req[w].copy.from = msg[m].from
  BY DEF IInv, RequestFits, OnMessage
<1>2. msg[m] \in MessageRows
  BY <1>1 DEF IInv, TypeOK
<1>3. CASE msg[m].from = Null
  BY <1>1, <1>3 DEF Origin
<1>4. CASE msg[m].from # Null
  <2>1. msg[m].from \in Messages
    BY <1>2, <1>4 DEF MessageRows
  <2>2. Exists(msg[m].from) /\ msg[msg[m].from].from = Null
    BY <1>1, <1>4 DEF IInv, TypeOK, LineageIsFlat
  <2> QED
    BY <1>1, <1>4, <2>1, <2>2 DEF Origin
<1> QED
  BY <1>3, <1>4

LEMMA ForwardCreateFits ==
    ASSUME IInv, NEW w \in Workers, NEW m \in Messages, ForwardCreate(w, m)
    PROVE  RowStep /\ RequestStep /\ Kept
<1> DEFINE o == Origin(req[w].m, req[w].copy)
           row == [req[w].copy EXCEPT !.by = req[w].by, !.from = o]
           r == [req[w] EXCEPT !.more = @ - 1]
<1>1. req[w] \in Requests /\ RequestFits(req[w]) /\ TypeOK
  BY DEF IInv, TypeOK
<1>2. /\ req[w].pc = "forward_create" /\ ~Exists(m) /\ msg' = [msg EXCEPT ![m] = row]
      /\ IF req[w].more = 1 THEN End(w) ELSE GoTo(w, r)
      /\ UNCHANGED <<drawn, temp, stored, broken, unclaimed>>
  BY DEF ForwardCreate, At, Free
<1>3. o \in Messages /\ Exists(o) /\ msg[o].from = Null
  BY <1>2, OriginIsFirst
<1>4. req[w].copy \in MessageRows /\ req[w].copy.state = "live" /\ req[w].by \in Users \cup {Null}
  BY <1>1, <1>2 DEF Requests, RequestFits
<1>5. row \in MessageRows /\ row.state = "live" /\ row.from = o
  BY <1>3, <1>4 DEF MessageRows
<1> HIDE DEF row, o
<1>6. RowStep
  BY <1>2, <1>3, <1>5 DEF RowStep, Writes
<1>7. ASSUME req[w].more # 1, GoTo(w, r) PROVE RequestStep
  <2>1. req[w].more \in 1..MaxTargets
    BY <1>1, <1>2 DEF RequestFits
  <2> DEFINE n == req[w].more - 1
  <2>2. n \in 0..MaxTargets /\ n \in 1..MaxTargets
    BY <1>7, <2>1
  <2>3. r = [req[w] EXCEPT !.more = n]
    OBVIOUS
  <2> HIDE DEF n
  <2>4. r \in Requests /\ r.pc = req[w].pc /\ r.m = req[w].m /\ r.copy = req[w].copy /\ r.more = n
    BY <1>1, <2>2, <2>3 DEF Requests
  <2>5. req' = [req EXCEPT ![w] = r]
    BY <1>7 DEF GoTo
  <2> HIDE DEF r
  <2>6. RequestFits(r)
    BY <1>1, <1>2, <2>2, <2>4 DEF RequestFits, Media, OnMessage
  <2> QED
    BY <2>4, <2>5, <2>6 DEF RequestStep, Serves
<1> QED
  BY <1>1, <1>2, <1>6, <1>7, EndServes DEF Kept, TypeOK

LEMMA NextFits ==
    ASSUME IInv, [Next]_vars
    PROVE  RowStep /\ RequestStep /\ Kept
<1>1. CASE UNCHANGED vars
  BY <1>1 DEF vars, RowStep, RequestStep, Kept, IInv, TypeOK
<1>2. ASSUME NEW w \in Workers, Step(w) PROVE RowStep /\ RequestStep /\ Kept
  BY <1>2, MediaBeginFits, MediaAbsentFits, UploadFits, CleanFits, MediaCreateFits, RefusedFits, EditBeginFits, EditWriteFits,
     DeleteBeginFits, DeleteFilesFits, DeleteWriteFits, ForwardBeginFits, ForwardCreateFits DEF Step
<1> QED
  BY <1>1, <1>2, SendTextFits, PutFits DEF Next

----------------------------------------------------------------------------
(* The invariant. *)

\* What is there stays, with its origin.
LEMMA RowsStay ==
    ASSUME IInv, RowStep
    PROVE  /\ msg' \in [Messages -> MessageRows]
           /\ \A m \in Messages : Exists(m) => Exists(m)' /\ msg'[m].from = msg[m].from
           /\ \A m \in Messages : msg'[m].from # Null =>
                 /\ Exists(m)' /\ msg'[m].from \in Messages
                 /\ Exists(msg'[m].from) /\ msg[msg'[m].from].from = Null
<1>1. msg \in [Messages -> MessageRows]
  BY DEF IInv, TypeOK
<1>2. ASSUME NEW m \in Messages, msg[m].from # Null
      PROVE  /\ Exists(m) /\ msg[m].from \in Messages
             /\ Exists(msg[m].from) /\ msg[msg[m].from].from = Null
  <2>1. msg[m] \in MessageRows
    BY <1>1
  <2>2. msg[m].from \in Messages
    BY <1>2, <2>1 DEF MessageRows
  <2> QED
    BY <1>2, <2>2 DEF IInv, TypeOK, NamesFit, LineageIsFlat
<1>3. CASE UNCHANGED msg
  <2>1. msg' = msg
    BY <1>3
  <2> QED
    BY <1>1, <1>2, <2>1 DEF Exists
<1>4. ASSUME NEW x \in Messages, NEW r \in MessageRows, Writes(x, r)
      PROVE  /\ msg' \in [Messages -> MessageRows]
             /\ \A m \in Messages : Exists(m) => Exists(m)' /\ msg'[m].from = msg[m].from
             /\ \A m \in Messages : msg'[m].from # Null =>
                   /\ Exists(m)' /\ msg'[m].from \in Messages
                   /\ Exists(msg'[m].from) /\ msg[msg'[m].from].from = Null
  <2>1. /\ msg' \in [Messages -> MessageRows] /\ msg'[x] = r /\ Exists(x)'
        /\ \A m \in Messages \ {x} : msg'[m] = msg[m]
    BY <1>1, <1>4 DEF Writes, Exists
  <2>2. ASSUME NEW m \in Messages, Exists(m) PROVE Exists(m)' /\ msg'[m].from = msg[m].from
    BY <1>4, <2>1, <2>2 DEF Writes, Exists
  <2>3. ASSUME NEW m \in Messages, msg'[m].from # Null
        PROVE  /\ Exists(m)' /\ msg'[m].from \in Messages
               /\ Exists(msg'[m].from) /\ msg[msg'[m].from].from = Null
    <3>1. CASE Exists(m) \/ m # x
      <4>1. msg'[m].from = msg[m].from
        BY <2>1, <2>2, <3>1
      <4>2. Exists(m)
        BY <1>2, <2>3, <4>1
      <4> QED
        BY <1>2, <2>2, <2>3, <4>1, <4>2
    <3>2. CASE m = x /\ ~Exists(x)
      BY <1>4, <2>1, <2>3, <3>2 DEF Writes
    <3> QED
      BY <3>1, <3>2
  <2> QED
    BY <2>1, <2>2, <2>3
<1> QED
  BY <1>3, <1>4 DEF RowStep

LEMMA RequestsStay ==
    ASSUME IInv, RowStep, RequestStep
    PROVE  req' \in [Workers -> Requests] /\ \A w \in Workers : RequestFits(req[w])'
<1>1. req \in [Workers -> Requests] /\ \A w \in Workers : RequestFits(req[w])
  BY DEF IInv, TypeOK
<1>2. /\ req' \in [Workers -> Requests]
      /\ \A w \in Workers : RequestFits(req'[w])
  <2>1. CASE UNCHANGED req
    BY <1>1, <2>1
  <2>2. ASSUME NEW w \in Workers, NEW r \in Requests, Serves(w, r)
        PROVE  req' \in [Workers -> Requests] /\ \A v \in Workers : RequestFits(req'[v])
    BY <1>1, <2>2 DEF Serves
  <2> QED
    BY <2>1, <2>2 DEF RequestStep
<1>3. ASSUME NEW w \in Workers PROVE RequestFits(req[w])'
  <2>1. PICK r \in Requests : r = req'[w]
    BY <1>2
  <2>2. RequestFits(r)
    BY <1>2, <2>1
  <2>3. r.pc \in OnMessage => Exists(r.m)' /\ msg'[r.m].from = msg[r.m].from
    BY <2>2, RowsStay DEF RequestFits
  <2>4. r.pc = "forward_create" => r.pc \in OnMessage
    BY DEF OnMessage
  <2>5. RequestFits(r)'
    BY <2>2, <2>3, <2>4 DEF RequestFits
  <2> QED
    BY <2>1, <2>5 DEF RequestFits, Exists
<1> QED
  BY <1>2, <1>3

LEMMA NextPreserves == IInv /\ [Next]_vars => IInv'
<1> SUFFICES ASSUME IInv, [Next]_vars PROVE IInv'
  OBVIOUS
<1>1. RowStep /\ RequestStep /\ Kept
  BY NextFits
<1>2. \A m \in Messages : msg'[m].from # Null =>
         msg'[m].from \in Messages /\ Exists(msg'[m].from) /\ msg[msg'[m].from].from = Null
  BY <1>1, RowsStay
<1>3. \A m \in Messages : msg'[m].from # Null =>
         msg'[msg'[m].from].state # "none" /\ msg'[msg'[m].from].from = Null
  <2>1. \A x \in Messages : Exists(x) => msg'[x].state # "none" /\ msg'[x].from = msg[x].from
    BY <1>1, RowsStay DEF Exists
  <2> QED
    BY <1>2, <2>1
<1>4. TypeOK' /\ LineageIsFlat'
  BY <1>1, <1>3, RowsStay, RequestsStay DEF TypeOK, Kept, LineageIsFlat, Exists
<1>5. NamesFit' /\ \A w \in Workers : RequestFits(req[w])'
  BY <1>1, RowsStay, RequestsStay DEF NamesFit
<1> QED
  BY <1>4, <1>5 DEF IInv

LEMMA InitEstablishes == Init => IInv
<1> SUFFICES ASSUME Init PROVE IInv
  OBVIOUS
<1>1. (\A m \in Messages : msg[m] = NoMessage) /\ (\A w \in Workers : req[w] = Idle) /\ NoMessage.from = Null
  BY DEF Init, NoMessage
<1>2. TypeOK
  BY <1>1, IdleFits DEF Init, TypeOK
<1>3. NamesFit /\ LineageIsFlat /\ \A w \in Workers : RequestFits(req[w])
  BY <1>1, IdleFits DEF NamesFit, LineageIsFlat
<1> QED
  BY <1>2, <1>3 DEF IInv

LEMMA Invariance == Spec => []IInv
  BY InitEstablishes, NextPreserves, PTL DEF Spec

----------------------------------------------------------------------------
(* Theorems. *)

\* Messages, objects and requests keep their types, and a forward names a message that exists.
THEOREM TypeCorrect == Spec => []TypeOK
<1>1. IInv => TypeOK
  BY DEF IInv
<1> QED
  BY <1>1, Invariance, PTL

\* forwardMessage names the first message of a chain however long it grows: it copies the origin
\* of a forward before the rows can change under it.
THEOREM ForwardsAreFlat == Spec => []LineageIsFlat
<1>1. IInv => LineageIsFlat
  BY DEF IInv
<1> QED
  BY <1>1, Invariance, PTL

\* A deleted message gets no content from a request that reads it as deleted, and no forward: only
\* the edits and forwards that had read it before reach it.
THEOREM DeletedStaysFrozen == Spec => DeletedIsFrozen
<1> DEFINE Frozen(m) ==
        Deleted(m) /\ (\A w \in Workers : ~Unaware(w, m)) =>
           /\ msg'[m].content \in {msg[m].content, Null}
           /\ \A x \in Messages : msg'[x].from = m => Exists(x)
                  \/ \E w \in Workers : At(w, "forward_create") /\ req[w].copy.from = m
<1>1. ASSUME IInv, [Next]_vars, NEW m \in Messages PROVE Frozen(m)
  <2> SUFFICES ASSUME Deleted(m), \A w \in Workers : ~Unaware(w, m)
               PROVE  /\ msg'[m].content \in {msg[m].content, Null}
                      /\ \A x \in Messages : msg'[x].from = m => Exists(x)
                             \/ \E w \in Workers : At(w, "forward_create") /\ req[w].copy.from = m
    OBVIOUS
  <2>0. msg \in [Messages -> MessageRows] /\ Exists(m) /\ msg[m] \in MessageRows
        /\ \A x \in Messages : msg[x].from = m => Exists(x)
    <3>1. TypeOK /\ NamesFit
      BY <1>1 DEF IInv
    <3>2. msg \in [Messages -> MessageRows] /\ m # Null
      BY <3>1 DEF TypeOK
    <3>3. Exists(m)
      BY DEF Deleted, Exists
    <3>4. \A x \in Messages : msg[x].from = m => Exists(x)
      BY <3>1, <3>2 DEF NamesFit
    <3> QED
      BY <3>2, <3>3, <3>4
  <2>1. CASE UNCHANGED msg
    BY <2>0, <2>1
  <2>2. ASSUME NEW x \in Messages, NEW r, msg' = [msg EXCEPT ![x] = r], ~Exists(x),
               r.from # m \/ \E w \in Workers : At(w, "forward_create") /\ req[w].copy.from = m
        PROVE  /\ msg'[m].content \in {msg[m].content, Null}
               /\ \A y \in Messages : msg'[y].from = m => Exists(y)
                      \/ \E w \in Workers : At(w, "forward_create") /\ req[w].copy.from = m
    <3>1. x # m /\ msg'[x] = r /\ \A y \in Messages \ {x} : msg'[y] = msg[y]
      BY <2>0, <2>2
    <3> QED
      BY <2>0, <2>2, <3>1
  <2>3. ASSUME NEW u \in Users, NEW x \in Messages, NEW c \in Contents, SendText(u, x, c)
        PROVE  \E r : msg' = [msg EXCEPT ![x] = r] /\ ~Exists(x) /\ r.from # m
    <3> DEFINE r == [NoMessage EXCEPT !.state = "live", !.by = u, !.content = c]
    <3>1. msg' = [msg EXCEPT ![x] = r] /\ ~Exists(x) /\ r.from = Null
      BY <2>3 DEF SendText, Free, NoMessage
    <3> HIDE DEF r
    <3> QED
      BY <3>1
  <2>4. ASSUME NEW w \in Workers, NEW x \in Messages, MediaCreate(w, x)
        PROVE  \E r : msg' = [msg EXCEPT ![x] = r] /\ ~Exists(x) /\ r.from # m
    <3> DEFINE r == [NoMessage EXCEPT !.state = "live", !.by = req[w].by, !.files = NamesOf(w)]
    <3>1. msg' = [msg EXCEPT ![x] = r] /\ ~Exists(x) /\ r.from = Null
      BY <2>4 DEF MediaCreate, Free, NoMessage
    <3> HIDE DEF r
    <3> QED
      BY <3>1
  <2>5. ASSUME NEW w \in Workers, NEW x \in Messages, ForwardCreate(w, x)
        PROVE  /\ msg'[m].content \in {msg[m].content, Null}
               /\ \A y \in Messages : msg'[y].from = m => Exists(y)
                      \/ \E v \in Workers : At(v, "forward_create") /\ req[v].copy.from = m
    <3> DEFINE o == Origin(req[w].m, req[w].copy)
               r == [req[w].copy EXCEPT !.by = req[w].by, !.from = o]
    <3>1. msg' = [msg EXCEPT ![x] = r] /\ ~Exists(x) /\ At(w, "forward_create")
      BY <2>5 DEF ForwardCreate, Free
    <3>2. req[w].m # m
      <4>1. RequestFits(req[w])
        BY <1>1 DEF IInv
      <4> QED
        BY <3>1, <4>1 DEF Unaware, At, RequestFits
    <3>3. req[w].copy \in MessageRows
      BY <1>1 DEF IInv, TypeOK, Requests
    <3>4. o # m \/ req[w].copy.from = m
      BY <3>2 DEF Origin
    <3> HIDE DEF o
    <3>5. r.from = o
      BY <3>3 DEF MessageRows
    <3> HIDE DEF r
    <3> QED
      BY <2>2, <3>1, <3>4, <3>5
  <2>6. ASSUME NEW x \in Messages, NEW r, msg' = [msg EXCEPT ![x] = r],
               r.from = msg[x].from, x # m \/ r.content = Null
        PROVE  /\ msg'[m].content \in {msg[m].content, Null}
               /\ \A y \in Messages : msg'[y].from = m => Exists(y)
                      \/ \E w \in Workers : At(w, "forward_create") /\ req[w].copy.from = m
    <3>1. msg'[x] = r /\ \A y \in Messages \ {x} : msg'[y] = msg[y]
      BY <2>0, <2>6
    <3>2. msg'[m].content \in {msg[m].content, Null}
      BY <2>6, <3>1
    <3>3. \A y \in Messages : msg'[y].from = msg[y].from
      BY <2>6, <3>1
    <3> QED
      BY <2>0, <3>2, <3>3
  <2>7. ASSUME NEW w \in Workers, EditWrite(w) \/ DeleteWrite(w)
        PROVE  \E x \in Messages : \E r : /\ msg' = [msg EXCEPT ![x] = r] /\ r.from = msg[x].from
                                          /\ x # m \/ r.content = Null
    <3> DEFINE x == req[w].m
               e == [msg[x] EXCEPT !.content = req[w].content]
               d == [msg[x] EXCEPT !.state = "deleted", !.content = Null,
                                   !.files = FilesLeft(req[w].scope, @)]
    <3>1. x \in Messages
      <4>1. RequestFits(req[w])
        BY <1>1 DEF IInv
      <4>2. req[w].pc \in {"edit_write", "delete_write"}
        BY <2>7 DEF EditWrite, DeleteWrite, At
      <4> QED
        BY <4>1, <4>2 DEF RequestFits, OnMessage
    <3>2. msg[x] \in MessageRows
      BY <2>0, <3>1
    <3>3. e.from = msg[x].from /\ d.from = msg[x].from /\ d.content = Null
      BY <3>2 DEF MessageRows
    <3>4. EditWrite(w) => msg' = [msg EXCEPT ![x] = e] /\ x # m
      <4>1. RequestFits(req[w])
        BY <1>1 DEF IInv
      <4> QED
        BY <2>0, <4>1 DEF EditWrite, Unaware, At, RequestFits
    <3>5. DeleteWrite(w) => msg' = [msg EXCEPT ![x] = d]
      BY <2>0 DEF DeleteWrite
    <3> HIDE DEF e, d
    <3> QED
      BY <2>7, <3>1, <3>3, <3>4, <3>5
  <2>8. ASSUME NEW w \in Workers, Step(w), ~(\E x \in Messages : MediaCreate(w, x) \/ ForwardCreate(w, x)),
               ~EditWrite(w), ~DeleteWrite(w)
        PROVE  UNCHANGED msg
    BY <2>8 DEF Step, MediaBegin, MediaAbsent, MediaMain, MediaThumb, MediaFails, MediaClean, MediaRefused, EditBegin,
                DeleteBegin, ForwardBegin, DeleteFiles, Crash
  <2>9. ASSUME UNCHANGED vars \/ \E k \in Uploads : Put(k) PROVE UNCHANGED msg
    BY <2>9 DEF vars, Put
  <2>10. ASSUME NEW x \in Messages,
                \/ \E u \in Users, c \in Contents : SendText(u, x, c)
                \/ \E w \in Workers : MediaCreate(w, x) \/ ForwardCreate(w, x)
         PROVE  /\ msg'[m].content \in {msg[m].content, Null}
                /\ \A y \in Messages : msg'[y].from = m => Exists(y)
                       \/ \E w \in Workers : At(w, "forward_create") /\ req[w].copy.from = m
    <3>1. CASE \E u \in Users, c \in Contents : SendText(u, x, c)
      <4>1. PICK r : msg' = [msg EXCEPT ![x] = r] /\ ~Exists(x) /\ r.from # m
        BY <2>3, <3>1
      <4> QED
        BY <2>2, <4>1
    <3>2. CASE \E w \in Workers : MediaCreate(w, x)
      <4>1. PICK r : msg' = [msg EXCEPT ![x] = r] /\ ~Exists(x) /\ r.from # m
        BY <2>4, <3>2
      <4> QED
        BY <2>2, <4>1
    <3>3. CASE \E w \in Workers : ForwardCreate(w, x)
      BY <2>5, <3>3
    <3> QED
      BY <2>10, <3>1, <3>2, <3>3
  <2>11. \/ UNCHANGED msg
         \/ \E x \in Messages : \/ \E u \in Users, c \in Contents : SendText(u, x, c)
                              \/ \E w \in Workers : MediaCreate(w, x) \/ ForwardCreate(w, x)
         \/ \E w \in Workers : EditWrite(w) \/ DeleteWrite(w)
    BY <1>1, <2>8, <2>9 DEF Next
  <2>12. CASE \E w \in Workers : EditWrite(w) \/ DeleteWrite(w)
    BY <2>6, <2>7, <2>12
  <2>13. CASE \E x \in Messages : \/ \E u \in Users, c \in Contents : SendText(u, x, c)
                                \/ \E w \in Workers : MediaCreate(w, x) \/ ForwardCreate(w, x)
    BY <2>10, <2>13
  <2> QED
    BY <2>1, <2>11, <2>12, <2>13
<1>2. IInv /\ [Next]_vars => [\A m \in Messages : Frozen(m)]_vars
  BY <1>1
<1> QED
  BY <1>2, Invariance, PTL DEF Spec, DeletedIsFrozen

----------------------------------------------------------------------------
(* Objects in storage: which messages name them, and who may remove them.  *)

\* The message a family of forwards began with.
RootOf(m) == IF msg[m].from = Null THEN m ELSE msg[m].from

Copying == {"delete_files", "forward_create"}

\* Key f belongs to the family of x: a message of it names it, or a request on one has read its name.
Claims(f, x) ==
    \/ \E m \in Messages : RootOf(m) = x /\ \E o \in msg[m].files : o[2] = f
    \/ \E w \in Workers : /\ req[w].pc \in Copying /\ RootOf(req[w].m) = x
                          /\ \E o \in req[w].copy.files : o[2] = f

\* A key belongs to one family, and was drawn.
KeysFit ==
    /\ \A f \in Files, x, y \in Messages : Claims(f, x) /\ Claims(f, y) => x = y
    /\ \A f \in Files, x \in Messages : Claims(f, x) => f \in drawn

Main(r) == <<BucketFor(r.kind), r.file>>
Thumb(r) == <<"thumbnails", r.file>>

\* What an upload in flight has drawn is nobody else's,
KeyApart(w) ==
    req[w].pc \in Media =>
      /\ req[w].file \in drawn
      /\ \A f \in Files, x \in Messages : Claims(f, x) => req[w].file # f
      /\ \A v \in Workers \ {w} : req[v].pc \in Media => req[v].file # req[w].file

\* ... and what it has stored is in storage, the original first.
GotFits(w) ==
    /\ req[w].pc \notin {"media_thumb", "media_clean", "media_create"} => req[w].got = {}
    /\ req[w].pc \in {"media_thumb", "media_create"} => Main(req[w]) \in req[w].got
    /\ req[w].got \subseteq stored \cap {Main(req[w]), Thumb(req[w])}
    /\ req[w].got # {} => Main(req[w]) \in req[w].got

\* Names are of originals and thumbnails; a row that is not there has none.
NamesInMedia ==
    \A m \in Messages : /\ \A o \in msg[m].files : o[1] # "documents"
                        /\ ~Exists(m) => msg[m].files = {}

\* A deletion for everyone takes all that its message names before it takes the names.
CopyFits(w) ==
    /\ req[w].pc \in Copying => \A o \in req[w].copy.files : o[1] # "documents"
    /\ req[w].pc = "delete_files" => req[w].scope = "everyone" /\ msg[req[w].m].files \subseteq req[w].copy.files
    /\ req[w].pc = "delete_write" /\ req[w].scope = "everyone" =>
          msg[req[w].m].files \cap stored \subseteq unclaimed

Forwarded(m) == msg[m].from # Null \/ \E x \in Messages : msg[x].from = m

Removing(m) == \E w \in Workers : req[w].m = m /\ At(w, "delete_write") /\ req[w].scope = "everyone"

\* FilesBacked, with the family in place of whoever shares a name today.
Backed ==
    \A m \in Messages : Live(m) => \A o \in msg[m].files :
        o \in stored \/ <<"documents", o[2]>> \in stored \/ Forwarded(m) \/ m \in broken \/ Removing(m)

FilesInv ==
    /\ KeysFit
    /\ NamesInMedia
    /\ \A w \in Workers : KeyApart(w) /\ GotFits(w) /\ CopyFits(w)
    /\ Backed
    /\ NoOrphanFiles

----------------------------------------------------------------------------
(* What a step does to files: request w moves, and message n may be new.   *)
(* No step that is nobody's request does more than add a row without files. *)

OthersSame(w) == \A v \in Workers \ {w} : req'[v] = req[v]

\* A row keeps its origin and gains no name; a new one takes names of its family, or those of the
\* upload it completes.
RowsKeep(w, n) ==
    \A m \in Messages :
      /\ Exists(m) => Exists(m)' /\ msg'[m].from = msg[m].from /\ msg'[m].files \subseteq msg[m].files
      /\ ~Exists(m) => \A o \in msg'[m].files :
            /\ Exists(m)' /\ o[1] # "documents"
            /\ \/ Claims(o[2], RootOf(m)')
               \/ w \in Workers /\ req[w].pc = "media_create" /\ o[2] = req[w].file /\ RootOf(m)' = n

CopyStep(w) ==
    w \in Workers =>
      /\ CopyFits(w)'
      /\ req'[w].pc \in Copying =>
           Exists(req'[w].m) /\ \A o \in req'[w].copy.files : Claims(o[2], RootOf(req'[w].m))

UploadStep(w) ==
    w \in Workers =>
      /\ GotFits(w)'
      /\ req'[w].pc \in Media => \/ req[w].pc \in Media \ {"media_create"} /\ req'[w].file = req[w].file
                                 \/ req[w].pc \notin Media /\ req'[w].file \in drawn' \ drawn

StorageStep(w) ==
    /\ drawn \subseteq drawn'
    /\ \A o \in stored' \ stored : w \in Workers /\ req[w].pc \in Media /\ o[2] = req[w].file /\ o \in req'[w].got
    /\ \A o \in stored \ stored' :
          /\ w \in Workers /\ req[w].pc = "delete_files" /\ o \in req[w].copy.files
          /\ \A m \in Messages : m = req[w].m => Removing(m)'
    /\ unclaimed \cap stored' \subseteq unclaimed'
    /\ \A m \in Messages : (msg[m].files \ msg'[m].files) \cap stored' \subseteq unclaimed'
    /\ w \in Workers => \A o \in req[w].got : o \in req'[w].got \cup unclaimed' \cup Named' \/ IsDocument(o)'

BackStep(w) ==
    /\ \A m \in Messages : Live(m)' /\ ~Live(m) =>
          \A o \in msg'[m].files : o \in stored' \/ <<"documents", o[2]>> \in stored' \/ Forwarded(m)'
    /\ \A m \in broken : m \in broken' \/ ~Live(m)'
    /\ w \in Workers /\ req[w].pc = "delete_write" /\ req[w].scope = "everyone" =>
          \A m \in Messages : m = req[w].m => m \in broken' \/ ~Live(m)' \/ Removing(m)'

FilesStep(w, n) ==
    OthersSame(w) /\ RowsKeep(w, n) /\ CopyStep(w) /\ UploadStep(w) /\ StorageStep(w) /\ BackStep(w)

\* Whoever has a name of a row, or has read one, has a claim on its key.
LEMMA ClaimOfRow ==
    ASSUME IInv, NEW m \in Messages, NEW o \in msg[m].files
    PROVE  Claims(o[2], RootOf(m)) /\ RootOf(m) \in Messages /\ o[2] \in Files
<1>1. msg[m] \in MessageRows
  BY DEF IInv, TypeOK
<1>2. o \in Objects /\ msg[m].from \in Messages \cup {Null}
  BY <1>1 DEF MessageRows
<1> QED
  BY <1>2 DEF Claims, RootOf, Objects

LEMMA ClaimOfCopy ==
    ASSUME IInv, NEW w \in Workers, req[w].pc \in Copying, NEW o \in req[w].copy.files
    PROVE  /\ Claims(o[2], RootOf(req[w].m)) /\ RootOf(req[w].m) \in Messages /\ o[2] \in Files
           /\ req[w].m \in Messages /\ Exists(req[w].m)
<1>1. req[w] \in Requests /\ RequestFits(req[w])
  BY DEF IInv, TypeOK
<1>2. req[w].m \in Messages /\ Exists(req[w].m) /\ req[w].copy \in MessageRows
  BY <1>1 DEF RequestFits, OnMessage, Copying, Requests
<1>3. o \in Objects /\ msg[req[w].m].from \in Messages \cup {Null}
  BY <1>2 DEF MessageRows, IInv, TypeOK
<1> QED
  BY <1>2, <1>3 DEF Claims, RootOf, Objects

\* A step makes no claim but that of the upload it completes.
LEMMA ClaimsStep ==
    ASSUME IInv, IInv', NEW w, NEW n, FilesStep(w, n), NEW f \in Files, NEW x \in Messages, Claims(f, x)'
    PROVE  \/ Claims(f, x)
           \/ w \in Workers /\ req[w].pc = "media_create" /\ f = req[w].file /\ x = n
<1>1. \A m \in Messages : Exists(m) => RootOf(m)' = RootOf(m)
  BY DEF FilesStep, RowsKeep, RootOf
<1>2. CASE \E m \in Messages : RootOf(m)' = x /\ \E o \in msg'[m].files : o[2] = f
  <2>1. PICK m \in Messages : RootOf(m)' = x /\ \E o \in msg'[m].files : o[2] = f
    BY <1>2
  <2>2. PICK o \in msg'[m].files : o[2] = f
    BY <2>1
  <2>3. CASE Exists(m)
    <3>1. o \in msg[m].files /\ RootOf(m) = x
      BY <1>1, <2>1, <2>2, <2>3 DEF FilesStep, RowsKeep
    <3> QED
      BY <2>2, <3>1, ClaimOfRow
  <2>4. CASE ~Exists(m)
    BY <2>1, <2>2, <2>4 DEF FilesStep, RowsKeep
  <2> QED
    BY <2>3, <2>4
<1>3. CASE \E v \in Workers : /\ req'[v].pc \in Copying /\ RootOf(req[v].m)' = x
                             /\ \E o \in req'[v].copy.files : o[2] = f
  <2>1. PICK v \in Workers : /\ req'[v].pc \in Copying /\ RootOf(req[v].m)' = x
                             /\ \E o \in req'[v].copy.files : o[2] = f
    BY <1>3
  <2>2. PICK o \in req'[v].copy.files : o[2] = f
    BY <2>1
  <2>3. CASE v = w
    <3>1. Exists(req'[w].m) /\ Claims(o[2], RootOf(req'[w].m))
      BY <2>1, <2>2, <2>3 DEF FilesStep, CopyStep
    <3>2. req'[w].m \in Messages
      BY <2>1, <2>3 DEF IInv, RequestFits, Copying, OnMessage
    <3>3. RootOf(req'[w].m) = x
      BY <2>1, <2>3, <3>1, <3>2 DEF FilesStep, RowsKeep, RootOf
    <3> QED
      BY <2>2, <3>1, <3>3
  <2>4. CASE v # w
    <3>1. req'[v] = req[v]
      BY <2>4 DEF FilesStep, OthersSame
    <3>2. Claims(f, RootOf(req[v].m)) /\ Exists(req[v].m) /\ req[v].m \in Messages
      BY <2>1, <2>2, <3>1, ClaimOfCopy
    <3>3. RootOf(req[v].m) = x
      BY <1>1, <2>1, <3>1, <3>2 DEF RootOf
    <3> QED
      BY <3>2, <3>3
  <2> QED
    BY <2>3, <2>4
<1> QED
  BY <1>2, <1>3 DEF Claims

LEMMA KeysKept ==
    ASSUME IInv, IInv', FilesInv, NEW w, NEW n, FilesStep(w, n)
    PROVE  KeysFit'
<1>1. w \in Workers /\ req[w].pc = "media_create" =>
        req[w].file \in drawn' /\ \A f \in Files, x \in Messages : Claims(f, x) => req[w].file # f
  BY DEF FilesInv, KeyApart, Media, FilesStep, StorageStep
<1>2. ASSUME NEW f \in Files, NEW x \in Messages, NEW y \in Messages, Claims(f, x)', Claims(f, y)'
      PROVE  x = y /\ f \in drawn'
  <2>1. \/ Claims(f, x)
        \/ w \in Workers /\ req[w].pc = "media_create" /\ f = req[w].file /\ x = n
    BY <1>2, ClaimsStep
  <2>2. \/ Claims(f, y)
        \/ w \in Workers /\ req[w].pc = "media_create" /\ f = req[w].file /\ y = n
    BY <1>2, ClaimsStep
  <2>3. drawn \subseteq drawn'
    BY DEF FilesStep, StorageStep
  <2> QED
    BY <1>1, <2>1, <2>2, <2>3 DEF FilesInv, KeysFit
<1> QED
  BY <1>2 DEF KeysFit

LEMMA NamesKept ==
    ASSUME FilesInv, NEW w, NEW n, FilesStep(w, n)
    PROVE  NamesInMedia'
<1> SUFFICES ASSUME NEW m \in Messages, NEW o \in msg'[m].files
             PROVE  o[1] # "documents" /\ Exists(m)'
  BY DEF NamesInMedia
<1> QED
  BY DEF FilesStep, RowsKeep, FilesInv, NamesInMedia

LEMMA RequestsKept ==
    ASSUME IInv, IInv', FilesInv, NEW w, NEW n, FilesStep(w, n), NEW v \in Workers
    PROVE  KeyApart(v)' /\ GotFits(v)' /\ CopyFits(v)'
<1>1. KeyApart(v) /\ GotFits(v) /\ CopyFits(v) /\ (w \in Workers => KeyApart(w)) /\ KeysFit
  BY DEF FilesInv
<1>2. StorageStep(w) /\ UploadStep(w) /\ CopyStep(w) /\ OthersSame(w)
  BY DEF FilesStep
<1>3. ASSUME NEW u \in Workers, req[u].pc \in Media PROVE req[u].file \in Files
  BY <1>3 DEF IInv, RequestFits
<1>4. ASSUME req'[v].pc \in Media PROVE req'[v].file \in Files
  BY <1>4 DEF IInv, RequestFits
<1>5. CASE v = w
  <2>1. GotFits(v)' /\ CopyFits(v)'
    BY <1>2, <1>5 DEF UploadStep, CopyStep
  <2>2. KeyApart(v)'
    <3> SUFFICES ASSUME req'[w].pc \in Media
                 PROVE  /\ req'[w].file \in drawn'
                        /\ \A f \in Files, x \in Messages : Claims(f, x)' => req'[w].file # f
                        /\ \A u \in Workers \ {w} : req'[u].pc \in Media => req'[u].file # req'[w].file
      BY <1>5 DEF KeyApart
    <3>1. \/ req[w].pc \in Media \ {"media_create"} /\ req'[w].file = req[w].file
          \/ req[w].pc \notin Media /\ req'[w].file \in drawn' \ drawn
      BY <1>2, <1>5 DEF UploadStep
    <3>2. req'[w].file \in drawn'
      BY <1>1, <1>2, <1>5, <3>1 DEF StorageStep, KeyApart
    <3>3. ASSUME NEW f \in Files, NEW x \in Messages, Claims(f, x)', req'[w].file = f PROVE FALSE
      <4>1. Claims(f, x)
        <5>1. ~(req[w].pc = "media_create")
          BY <3>1 DEF Media
        <5> QED
          BY <3>3, <5>1, ClaimsStep
      <4> QED
        BY <1>1, <1>5, <3>1, <3>3, <4>1 DEF KeyApart, KeysFit
    <3>4. ASSUME NEW u \in Workers \ {w}, req'[u].pc \in Media, req'[u].file = req'[w].file PROVE FALSE
      <4>1. req'[u] = req[u] /\ KeyApart(u)
        BY <1>2 DEF OthersSame, FilesInv
      <4> QED
        BY <1>1, <1>5, <3>1, <3>4, <4>1 DEF KeyApart
    <3> QED
      BY <3>2, <3>3, <3>4
  <2> QED
    BY <2>1, <2>2
<1>6. CASE v # w
  <2>1. req'[v] = req[v]
    BY <1>2, <1>6 DEF OthersSame
  <2>2. KeyApart(v)'
    <3> SUFFICES ASSUME req[v].pc \in Media
                 PROVE  /\ req[v].file \in drawn'
                        /\ \A f \in Files, x \in Messages : Claims(f, x)' => req[v].file # f
                        /\ \A u \in Workers \ {v} : req'[u].pc \in Media => req'[u].file # req[v].file
      BY <2>1 DEF KeyApart
    <3>1. /\ req[v].file \in drawn /\ req[v].file \in Files
          /\ \A f \in Files, x \in Messages : Claims(f, x) => req[v].file # f
          /\ \A u \in Workers \ {v} : req[u].pc \in Media => req[u].file # req[v].file
      BY <1>1, <1>3 DEF KeyApart
    <3>2. ASSUME NEW f \in Files, NEW x \in Messages, Claims(f, x)', req[v].file = f PROVE FALSE
      <4>1. w \in Workers /\ req[w].pc = "media_create" /\ req[v].file = req[w].file
        BY <3>1, <3>2, ClaimsStep
      <4> QED
        BY <1>6, <3>1, <4>1 DEF Media
    <3>3. ASSUME NEW u \in Workers \ {v}, req'[u].pc \in Media, req'[u].file = req[v].file PROVE FALSE
      <4>1. CASE u = w
        BY <1>2, <3>1, <3>3, <4>1 DEF UploadStep
      <4>2. CASE u # w
        BY <1>2, <3>1, <3>3, <4>2 DEF OthersSame
      <4> QED
        BY <4>1, <4>2
    <3>4. req[v].file \in drawn'
      BY <1>2, <3>1 DEF StorageStep
    <3> QED
      BY <3>2, <3>3, <3>4
  <2>3. GotFits(v)'
    <3>1. req[v].got \subseteq stored'
      <4> SUFFICES ASSUME NEW o \in req[v].got, o \notin stored' PROVE FALSE
        OBVIOUS
      <4>1. /\ o \in stored /\ o[2] = req[v].file /\ req[v].pc \in Media
        BY <1>1 DEF GotFits, Main, Thumb, Media
      <4>2. w \in Workers /\ req[w].pc \in Copying /\ o \in req[w].copy.files
        BY <1>2, <4>1 DEF StorageStep, Copying
      <4>3. Claims(req[v].file, RootOf(req[w].m)) /\ RootOf(req[w].m) \in Messages
        BY <4>1, <4>2, ClaimOfCopy
      <4> QED
        BY <1>1, <1>3, <4>1, <4>3 DEF KeyApart
    <3> QED
      BY <1>1, <2>1, <3>1 DEF GotFits, Main, Thumb
  <2>4. CopyFits(v)'
    <3>1. ASSUME req[v].pc \in OnMessage
          PROVE  req[v].m \in Messages /\ Exists(req[v].m) /\ msg'[req[v].m].files \subseteq msg[req[v].m].files
      BY <3>1 DEF IInv, RequestFits, FilesStep, RowsKeep
    <3>2. ASSUME req[v].pc = "delete_write", req[v].scope = "everyone", NEW o \in msg'[req[v].m].files, o \in stored'
          PROVE  o \in unclaimed'
      <4>1. req[v].m \in Messages /\ o \in msg[req[v].m].files
        BY <3>1, <3>2 DEF OnMessage
      <4>2. CASE o \in stored
        BY <1>1, <1>2, <3>2, <4>1, <4>2 DEF CopyFits, StorageStep
      <4>3. CASE o \notin stored
        <5>1. w \in Workers /\ req[w].pc \in Media /\ o[2] = req[w].file
          BY <1>2, <3>2, <4>3 DEF StorageStep
        <5> QED
          BY <1>1, <4>1, <5>1, ClaimOfRow DEF KeyApart
      <4> QED
        BY <4>2, <4>3
    <3> QED
      BY <1>1, <2>1, <3>1, <3>2 DEF CopyFits, OnMessage, Copying
  <2> QED
    BY <2>2, <2>3, <2>4
<1> QED
  BY <1>5, <1>6

\* No step removes a document: what a deletion removes are names of messages.
LEMMA DocumentsStay ==
    ASSUME FilesInv, NEW w, NEW n, FilesStep(w, n), NEW f, <<"documents", f>> \in stored
    PROVE  <<"documents", f>> \in stored'
<1> DEFINE d == <<"documents", f>>
<1>1. SUFFICES ASSUME d \notin stored' PROVE FALSE
  OBVIOUS
<1>2. w \in Workers /\ req[w].pc = "delete_files" /\ d \in req[w].copy.files
  BY <1>1 DEF FilesStep, StorageStep
<1>3. CopyFits(w)
  BY <1>2 DEF FilesInv
<1> QED
  BY <1>2, <1>3 DEF CopyFits, Copying

\* Who has been forwarded, or is a forward, stays so.
LEMMA ForwardedStays ==
    ASSUME IInv, NEW w, NEW n, FilesStep(w, n), NEW m \in Messages, Forwarded(m), Exists(m)
    PROVE  Forwarded(m)'
<1>1. ASSUME NEW x \in Messages, msg[x].from # Null PROVE msg'[x].from = msg[x].from
  BY <1>1 DEF IInv, NamesFit, FilesStep, RowsKeep
<1> QED
  BY <1>1 DEF Forwarded

LEMMA BackedKept ==
    ASSUME IInv, FilesInv, NEW w, NEW n, FilesStep(w, n)
    PROVE  Backed'
<1> SUFFICES ASSUME NEW m \in Messages, Live(m)', NEW o \in msg'[m].files
             PROVE  \/ o \in stored' \/ <<"documents", o[2]>> \in stored'
                    \/ Forwarded(m)' \/ m \in broken' \/ Removing(m)'
  BY DEF Backed
<1>1. CASE ~Live(m)
  BY <1>1 DEF FilesStep, BackStep
<1>2. CASE Live(m)
  <2>1. Exists(m) /\ o \in msg[m].files
    BY <1>2 DEF Live, Exists, FilesStep, RowsKeep
  <2>2. \/ o \in stored \/ <<"documents", o[2]>> \in stored \/ Forwarded(m) \/ m \in broken \/ Removing(m)
    BY <1>2, <2>1 DEF FilesInv, Backed
  <2>3. CASE o \in stored /\ o \notin stored'
    <3>1. /\ w \in Workers /\ req[w].pc = "delete_files" /\ o \in req[w].copy.files
          /\ \A x \in Messages : x = req[w].m => Removing(x)'
      BY <2>3 DEF FilesStep, StorageStep
    <3>2. RootOf(req[w].m) = RootOf(m) /\ req[w].m \in Messages
      BY <2>1, <3>1, ClaimOfRow, ClaimOfCopy DEF Copying, FilesInv, KeysFit
    <3>3. CASE req[w].m = m
      BY <3>1, <3>3
    <3>4. CASE req[w].m # m
      <4>1. Forwarded(m)
        BY <3>2, <3>4 DEF Forwarded, RootOf
      <4> QED
        BY <2>1, <4>1, ForwardedStays
    <3> QED
      BY <3>3, <3>4
  <2>4. CASE Removing(m)
    <3>1. PICK v \in Workers : req[v].m = m /\ req[v].pc = "delete_write" /\ req[v].scope = "everyone"
      BY <2>4 DEF Removing, At
    <3>2. CASE v = w
      BY <3>1, <3>2 DEF FilesStep, BackStep
    <3>3. CASE v # w
      BY <3>1, <3>3 DEF FilesStep, OthersSame, Removing, At
    <3> QED
      BY <3>2, <3>3
  <2>5. CASE m \in broken
    BY <2>5 DEF FilesStep, BackStep
  <2> QED
    BY <2>1, <2>2, <2>3, <2>4, <2>5, DocumentsStay, ForwardedStays
<1> QED
  BY <1>1, <1>2

LEMMA OrphansKept ==
    ASSUME FilesInv, NEW w, NEW n, FilesStep(w, n)
    PROVE  NoOrphanFiles'
<1> SUFFICES ASSUME NEW o \in stored' PROVE o \in Named' \cup Uploading' \cup unclaimed' \/ IsDocument(o)'
  BY DEF NoOrphanFiles
<1>1. StorageStep(w)
  BY DEF FilesStep
<1>2. CASE o \notin stored
  <2>1. w \in Workers /\ o \in req'[w].got
    BY <1>1, <1>2 DEF StorageStep
  <2> QED
    BY <2>1 DEF Uploading
<1>3. CASE o \in stored
  <2>1. o \in Named \/ o \in Uploading \/ o \in unclaimed \/ IsDocument(o)
    BY <1>3 DEF FilesInv, NoOrphanFiles
  <2>2. CASE o \in Named
    <3>1. PICK m \in Messages : o \in msg[m].files
      BY <2>2 DEF Named
    <3>2. CASE o \in msg'[m].files
      BY <3>2 DEF Named
    <3>3. CASE o \notin msg'[m].files
      BY <1>1, <3>1, <3>3 DEF StorageStep
    <3> QED
      BY <3>2, <3>3
  <2>3. CASE o \in Uploading
    <3>1. PICK v \in Workers : o \in req[v].got
      BY <2>3 DEF Uploading
    <3>2. CASE v = w
      <4>1. o \in req'[w].got \cup unclaimed' \cup Named' \/ IsDocument(o)'
        BY <1>1, <3>1, <3>2 DEF StorageStep
      <4> QED
        BY <3>2, <4>1 DEF Uploading
    <3>3. CASE v # w
      BY <3>1, <3>3 DEF FilesStep, OthersSame, Uploading
    <3> QED
      BY <3>2, <3>3
  <2>4. CASE o \in unclaimed
    BY <1>1, <2>4 DEF StorageStep
  <2>5. CASE IsDocument(o)
    BY <2>5, DocumentsStay DEF IsDocument
  <2> QED
    BY <2>1, <2>2, <2>3, <2>4, <2>5
<1> QED
  BY <1>2, <1>3

\* Each part, for any step of the kind.
LEMMA FilesKept ==
    ASSUME IInv, IInv', FilesInv, NEW w, NEW n, FilesStep(w, n)
    PROVE  FilesInv'
<1>1. \A v \in Workers : (KeyApart(v) /\ GotFits(v) /\ CopyFits(v))'
  BY RequestsKept
<1> QED
  BY <1>1, KeysKept, NamesKept, BackedKept, OrphansKept DEF FilesInv

----------------------------------------------------------------------------
(* Every operation is such a step. *)

LEMMA RequestMoves ==
    ASSUME IInv, NEW w \in Workers, NEW r, GoTo(w, r)
    PROVE  OthersSame(w) /\ req'[w] = r
BY DEF IInv, TypeOK, GoTo, OthersSame

\* A request that copies nothing and uploads nothing asks for little.
LEMMA NoCopy ==
    ASSUME NEW w, w \in Workers => req'[w].pc \notin Copying \cup {"delete_write"}
    PROVE  CopyStep(w)
BY DEF CopyStep, CopyFits, Copying

LEMMA NoUpload ==
    ASSUME NEW w, w \in Workers => req'[w].pc \notin Media /\ req'[w].got = {}
    PROVE  UploadStep(w)
BY DEF UploadStep, GotFits, Media

LEMMA Ended ==
    ASSUME IInv, NEW w \in Workers, End(w)
    PROVE  OthersSame(w) /\ CopyStep(w) /\ UploadStep(w) /\ req'[w].got = {}
<1>1. OthersSame(w) /\ req'[w] = Idle
  BY RequestMoves DEF End
<1>2. req'[w].pc = "idle" /\ req'[w].got = {}
  BY <1>1 DEF Idle
<1> QED
  BY <1>1, <1>2, NoCopy, NoUpload DEF Copying, Media

LEMMA SameRowsKeep ==
    ASSUME FilesInv, NEW w, NEW n, msg' = msg
    PROVE  RowsKeep(w, n) /\ \A m \in Messages : msg[m].files \ msg'[m].files = {} /\ (Live(m)' <=> Live(m))
BY DEF RowsKeep, FilesInv, NamesInMedia, Exists, Live

\* Steps that touch neither rows nor storage.
LEMMA Quiet ==
    ASSUME FilesInv, NEW w, NEW n,
           OthersSame(w), CopyStep(w), UploadStep(w), UNCHANGED <<msg, stored>>,
           drawn \subseteq drawn', unclaimed \subseteq unclaimed', broken \subseteq broken',
           w \in Workers => /\ req[w].got \subseteq req'[w].got \cup unclaimed'
                            /\ req[w].pc = "delete_write" /\ req[w].scope = "everyone" => req[w].m \in broken'
    PROVE  FilesStep(w, n)
<1>1. StorageStep(w)
  BY SameRowsKeep DEF StorageStep
<1>2. BackStep(w)
  BY SameRowsKeep DEF BackStep
<1> QED
  BY <1>1, <1>2, SameRowsKeep DEF FilesStep

LEMMA NobodysStep ==
    ASSUME IInv, FilesInv, NEW w, w \notin Workers,
           \/ UNCHANGED vars
           \/ \E k \in Uploads : Put(k)
           \/ \E u \in Users, m \in Messages, c \in Contents : SendText(u, m, c)
    PROVE  FilesStep(w, Null)
<1>0. UNCHANGED <<stored, drawn, req, broken, unclaimed>> /\ OthersSame(w) /\ CopyStep(w) /\ UploadStep(w)
  BY NoCopy, NoUpload DEF vars, Put, SendText, OthersSame
<1>1. CASE UNCHANGED msg
  BY <1>0, <1>1, Quiet
<1>2. ASSUME NEW u \in Users, NEW m \in Messages, NEW c \in Contents, SendText(u, m, c)
      PROVE  FilesStep(w, Null)
  <2> DEFINE r == [NoMessage EXCEPT !.state = "live", !.by = u, !.content = c]
  <2>1. r.files = {} /\ r.state = "live"
    BY DEF NoMessage
  <2>2. msg' = [msg EXCEPT ![m] = r] /\ ~Exists(m) /\ msg \in [Messages -> MessageRows]
    BY <1>2 DEF SendText, Free, IInv, TypeOK
  <2> HIDE DEF r
  <2>3. \A x \in Messages : /\ ~Exists(x) => msg[x].files = {} /\ msg'[x].files = {}
                            /\ Exists(x) => msg'[x] = msg[x]
    BY <2>1, <2>2 DEF FilesInv, NamesInMedia
  <2>4. RowsKeep(w, Null)
    BY <2>3 DEF RowsKeep, Exists
  <2>5. StorageStep(w) /\ BackStep(w)
    BY <1>0, <2>3 DEF StorageStep, BackStep, Live, Exists
  <2> QED
    BY <1>0, <2>4, <2>5 DEF FilesStep
<1> QED
  BY <1>1, <1>2 DEF vars, Put

LEMMA MediaBeginFiles ==
    ASSUME IInv, FilesInv, NEW w \in Workers, NEW u \in Users, NEW k \in Uploads, NEW kind \in Kinds, NEW f \in Files,
           MediaBegin(w, u, k, kind, f)
    PROVE  FilesStep(w, Null)
<1> DEFINE r == [Idle EXCEPT !.pc = "media_main", !.by = u, !.key = k, !.kind = kind, !.file = f]
<1>1. r.pc = "media_main" /\ r.file = f /\ r.got = {}
  BY DEF Idle
<1>2. /\ GoTo(w, r) /\ UNCHANGED <<msg, stored, broken, unclaimed>> /\ req[w].pc = "idle"
      /\ drawn' = drawn \cup {f} /\ f \notin drawn
  BY DEF MediaBegin, At
<1> HIDE DEF r
<1>3. OthersSame(w) /\ req'[w] = r
  BY <1>2, RequestMoves
<1>4. req[w].got = {}
  BY <1>2 DEF FilesInv, GotFits
<1>5. UploadStep(w)
  BY <1>1, <1>2, <1>3 DEF UploadStep, GotFits, Media
<1>6. CopyStep(w)
  BY <1>1, <1>3, NoCopy DEF Copying
<1> QED
  BY <1>2, <1>3, <1>4, <1>5, <1>6, Quiet

LEMMA MediaAbsentFiles ==
    ASSUME IInv, FilesInv, NEW w \in Workers, NEW u \in Users, NEW k \in Uploads, MediaAbsent(w, u, k)
    PROVE  FilesStep(w, Null)
<1> DEFINE r == [Idle EXCEPT !.pc = "media_absent", !.by = u, !.key = k]
<1>1. r.pc = "media_absent" /\ r.got = {}
  BY DEF Idle
<1>2. /\ GoTo(w, r) /\ UNCHANGED <<drawn, msg, stored, broken, unclaimed>> /\ req[w].pc = "idle"
  BY DEF MediaAbsent, At
<1> HIDE DEF r
<1>3. OthersSame(w) /\ req'[w] = r
  BY <1>2, RequestMoves
<1>4. req[w].got = {}
  BY <1>2 DEF FilesInv, GotFits
<1>5. UploadStep(w) /\ CopyStep(w)
  BY <1>1, <1>3, NoUpload, NoCopy DEF Media, Copying
<1> QED
  BY <1>2, <1>3, <1>4, <1>5, Quiet

\* An object stored under the key the request drew.
LEMMA StoredFiles ==
    ASSUME IInv, FilesInv, NEW w \in Workers, MediaMain(w) \/ MediaThumb(w)
    PROVE  FilesStep(w, Null)
<1>1. req[w] \in Requests /\ GotFits(w)
  BY DEF IInv, TypeOK, FilesInv
<1>2. PICK o, pc, r : /\ o \in {Main(req[w]), Thumb(req[w])} /\ o[2] = req[w].file
                      /\ stored' = stored \cup {o} /\ pc \in {"media_thumb", "media_clean"}
                      /\ r = [req[w] EXCEPT !.got = @ \cup {o}, !.pc = pc] /\ GoTo(w, r)
                      /\ Main(req[w]) \in r.got
  <2>1. CASE MediaMain(w)
    <3> DEFINE o == Main(req[w])
               pc == IF HasThumbnail(req[w].kind) THEN "media_thumb" ELSE "media_clean"
               r == [req[w] EXCEPT !.got = @ \cup {o}, !.pc = pc]
    <3>1. req[w].got = {} /\ o[2] = req[w].file
      BY <1>1, <2>1 DEF MediaMain, At, GotFits, Main
    <3>2. r = [req[w] EXCEPT !.got = {o}, !.pc = pc] /\ r.got = {o}
      BY <1>1, <3>1 DEF Requests
    <3>3. stored' = stored \cup {o} /\ GoTo(w, r)
      BY <2>1, <3>2 DEF MediaMain, Main
    <3>4. pc \in {"media_thumb", "media_clean"}
      OBVIOUS
    <3> HIDE DEF pc, o
    <3>5. o = Main(req[w])
      BY DEF o
    <3> QED
      BY <3>1, <3>2, <3>3, <3>4, <3>5
  <2>2. CASE MediaThumb(w)
    <3> DEFINE o == Thumb(req[w])
               r == [req[w] EXCEPT !.got = @ \cup {o}, !.pc = "media_clean"]
    <3>1. Main(req[w]) \in req[w].got /\ o[2] = req[w].file
      BY <1>1, <2>2 DEF MediaThumb, At, GotFits, Thumb
    <3>2. r.got = req[w].got \cup {o}
      BY <1>1 DEF Requests
    <3>3. stored' = stored \cup {o} /\ GoTo(w, r)
      BY <2>2 DEF MediaThumb, Thumb
    <3> QED
      BY <3>1, <3>2, <3>3
  <2> QED
    BY <2>1, <2>2
<1>3. /\ r.got = req[w].got \cup {o} /\ r.pc = pc /\ r.file = req[w].file /\ r.kind = req[w].kind
      /\ OthersSame(w) /\ req'[w] = r
  BY <1>1, <1>2, RequestMoves DEF Requests
<1>4. /\ UNCHANGED <<drawn, msg, broken, unclaimed>> /\ req[w].pc \in Media \ {"media_create"}
      /\ req[w].pc # "delete_files"
  BY DEF MediaMain, MediaThumb, At, Media
<1>5. CopyStep(w)
  BY <1>2, <1>3, NoCopy DEF Copying
<1>6. UploadStep(w)
  <2>1. Main(req'[w]) = Main(req[w]) /\ Thumb(req'[w]) = Thumb(req[w])
    BY <1>3 DEF Main, Thumb
  <2>2. req'[w].got \subseteq stored' \cap {Main(req[w]), Thumb(req[w])}
    BY <1>1, <1>2, <1>3 DEF GotFits
  <2> QED
    BY <1>2, <1>3, <1>4, <2>1, <2>2 DEF UploadStep, GotFits
<1>7. StorageStep(w)
  BY <1>2, <1>3, <1>4, SameRowsKeep DEF StorageStep
<1>8. BackStep(w)
  BY <1>4, SameRowsKeep DEF BackStep, Media
<1> QED
  BY <1>3, <1>4, <1>5, <1>6, <1>7, <1>8, SameRowsKeep DEF FilesStep

LEMMA MediaFailsFiles ==
    ASSUME IInv, FilesInv, NEW w \in Workers, MediaFails(w)
    PROVE  FilesStep(w, Null)
<1> DEFINE r == [req[w] EXCEPT !.got = {}, !.pc = "media_clean"]
<1>1. req[w] \in Requests
  BY DEF IInv, TypeOK
<1>2. r.pc = "media_clean" /\ r.file = req[w].file /\ r.got = {}
  BY <1>1 DEF Requests
<1>3. /\ GoTo(w, r) /\ UNCHANGED <<drawn, msg, temp, stored, broken>> /\ unclaimed' = unclaimed \cup req[w].got
      /\ req[w].pc \in {"media_main", "media_thumb"}
  BY DEF MediaFails
<1> HIDE DEF r
<1>4. OthersSame(w) /\ req'[w] = r
  BY <1>3, RequestMoves
<1>5. UploadStep(w)
  BY <1>2, <1>3, <1>4 DEF UploadStep, GotFits, Media
<1>6. CopyStep(w)
  BY <1>2, <1>4, NoCopy DEF Copying
<1> QED
  BY <1>3, <1>4, <1>5, <1>6, Quiet

LEMMA MediaCleanFiles ==
    ASSUME IInv, FilesInv, NEW w \in Workers, MediaClean(w)
    PROVE  FilesStep(w, Null)
<1>1. req[w] \in Requests /\ GotFits(w)
  BY DEF IInv, TypeOK, FilesInv
<1>2. /\ UNCHANGED <<drawn, msg, stored, broken, unclaimed>>
      /\ req[w].pc = "media_clean" \/ (req[w].pc = "media_absent" /\ req[w].got = {})
  BY DEF MediaClean, At, IInv, RequestFits
<1>3. CASE req[w].got = {}
  BY <1>2, <1>3, Ended, Quiet DEF MediaClean
<1>4. CASE req[w].got # {}
  <2> DEFINE r == [req[w] EXCEPT !.pc = "media_create"]
  <2>1. r.pc = "media_create" /\ r.file = req[w].file /\ r.got = req[w].got /\ r.kind = req[w].kind
    BY <1>1 DEF Requests
  <2>2. GoTo(w, r)
    BY <1>4 DEF MediaClean, Advance
  <2> HIDE DEF r
  <2>3. OthersSame(w) /\ req'[w] = r
    BY <2>2, RequestMoves
  <2>4. UploadStep(w)
    BY <1>1, <1>2, <1>4, <2>1, <2>3 DEF UploadStep, GotFits, Media, Main, Thumb
  <2>5. CopyStep(w)
    BY <2>1, <2>3, NoCopy DEF Copying
  <2> QED
    BY <1>2, <2>1, <2>3, <2>4, <2>5, Quiet
<1> QED
  BY <1>3, <1>4

\* The message takes the names of what its upload stored; an original that went to another
\* bucket is a document.
LEMMA MediaCreateFiles ==
    ASSUME IInv, FilesInv, NEW w \in Workers, NEW m \in Messages, MediaCreate(w, m)
    PROVE  FilesStep(w, m)
<1> DEFINE r == [NoMessage EXCEPT !.state = "live", !.by = req[w].by, !.files = NamesOf(w)]
           f == req[w].file
<1>1. GotFits(w) /\ NamesInMedia /\ msg \in [Messages -> MessageRows]
  BY DEF IInv, TypeOK, FilesInv
<1>2. r.state = "live" /\ r.from = Null /\ r.files = NamesOf(w)
  BY DEF NoMessage
<1>3. /\ msg' = [msg EXCEPT ![m] = r] /\ ~Exists(m) /\ req[w].pc = "media_create"
      /\ UNCHANGED <<drawn, temp, stored, broken, unclaimed>> /\ End(w)
  BY DEF MediaCreate, At, Free
<1> HIDE DEF r
<1>4. \A x \in Messages : x # m => msg'[x] = msg[x]
  BY <1>1, <1>3
<1>5. msg'[m] = r /\ msg[m].files = {}
  BY <1>1, <1>3 DEF NamesInMedia
<1>6. /\ NamesOf(w) \subseteq {<<"media", f>>, Thumb(req[w])}
      /\ Main(req[w]) = <<"media", f>> \/ Main(req[w]) = <<"documents", f>>
      /\ req[w].got \subseteq {Main(req[w]), Thumb(req[w])} \cap stored /\ Main(req[w]) \in req[w].got
      /\ NamesOf(w) \subseteq {<<"media", f>>} \cup req[w].got /\ <<"media", f>> \in NamesOf(w)
      /\ Thumb(req[w]) \in req[w].got => Thumb(req[w]) \in NamesOf(w)
  <2>1. Main(req[w]) = <<"media", f>> \/ Main(req[w]) = <<"documents", f>>
    BY DEF Main, BucketFor
  <2>2. req[w].got \subseteq {Main(req[w]), Thumb(req[w])} \cap stored /\ Main(req[w]) \in req[w].got
    BY <1>1, <1>3 DEF GotFits
  <2> QED
    BY <2>1, <2>2 DEF NamesOf, Thumb
<1>7. RowsKeep(w, m)
  <2>1. ASSUME NEW o \in NamesOf(w) PROVE o[1] # "documents" /\ o[2] = f
    BY <1>6, <2>1 DEF Thumb
  <2>2. Exists(m)' /\ RootOf(m)' = m
    BY <1>2, <1>5 DEF Exists, RootOf
  <2>3. ASSUME NEW x \in Messages, x # m PROVE Exists(x)' <=> Exists(x)
    BY <1>4, <2>3 DEF Exists
  <2>4. ASSUME NEW x \in Messages, ~Exists(x) PROVE msg[x].files = {}
    BY <1>1, <2>4 DEF NamesInMedia
  <2> QED
    BY <1>2, <1>3, <1>4, <1>5, <2>1, <2>2, <2>3, <2>4 DEF RowsKeep
<1>8. StorageStep(w)
  <2>1. ASSUME NEW o \in req[w].got PROVE o \in Named' \/ IsDocument(o)'
    <3>1. o \in NamesOf(w) \/ o = <<"documents", f>>
      BY <1>6
    <3> QED
      BY <1>2, <1>5, <3>1 DEF Named, IsDocument
  <2>2. \A x \in Messages : msg[x].files \ msg'[x].files = {}
    BY <1>4, <1>5
  <2> QED
    BY <1>3, <2>1, <2>2 DEF StorageStep
<1>9. BackStep(w)
  <2>1. ASSUME NEW o \in NamesOf(w) PROVE o \in stored \/ <<"documents", o[2]>> \in stored
    <3>1. o = <<"media", f>> \/ o \in req[w].got
      BY <1>6
    <3>2. o = <<"media", f>> => o[2] = f
      OBVIOUS
    <3> QED
      BY <1>6, <3>1, <3>2
  <2>2. \A x \in Messages : x # m => (Live(x)' <=> Live(x))
    BY <1>4 DEF Live
  <2> QED
    BY <1>2, <1>3, <1>5, <2>1, <2>2 DEF BackStep
<1> QED
  BY <1>3, <1>7, <1>8, <1>9, Ended DEF FilesStep

LEMMA EndFiles ==
    ASSUME IInv, FilesInv, NEW w \in Workers, MediaRefused(w) \/ Crash(w)
    PROVE  FilesStep(w, Null)
<1>1. /\ UNCHANGED <<drawn, msg, temp, stored>> /\ End(w) /\ unclaimed' = unclaimed \cup req[w].got
      /\ broken \subseteq broken'
      /\ req[w].pc = "delete_write" /\ req[w].scope = "everyone" => req[w].m \in broken'
  BY DEF MediaRefused, Crash, At
<1> QED
  BY <1>1, Ended, Quiet

LEMMA EditBeginFiles ==
    ASSUME IInv, FilesInv, NEW w \in Workers, NEW u \in Users, NEW m \in Messages, NEW c \in Contents,
           EditBegin(w, u, m, c)
    PROVE  FilesStep(w, Null)
<1> DEFINE r == [Idle EXCEPT !.pc = "edit_write", !.by = u, !.m = m, !.copy = msg[m], !.content = c]
<1>1. r.pc = "edit_write" /\ r.got = {}
  BY DEF Idle
<1>2. GoTo(w, r) /\ UNCHANGED <<drawn, msg, temp, stored, broken, unclaimed>> /\ req[w].pc = "idle"
  BY DEF EditBegin, At
<1> HIDE DEF r
<1>3. OthersSame(w) /\ req'[w] = r /\ req[w].got = {}
  BY <1>2, RequestMoves DEF FilesInv, GotFits
<1> QED
  BY <1>1, <1>2, <1>3, NoCopy, NoUpload, Quiet DEF Copying, Media

\* Writing one row that is there: what it lost is lost to storage too.
LEMMA WrittenFiles ==
    ASSUME IInv, FilesInv, NEW w \in Workers, NEW m \in Messages, NEW r, Exists(m), End(w),
           msg' = [msg EXCEPT ![m] = r], UNCHANGED <<drawn, stored, unclaimed>>, req[w].got = {},
           r.from = msg[m].from, r.files \subseteq msg[m].files, r.state # "none",
           (msg[m].files \ r.files) \cap stored \subseteq unclaimed,
           r.state = "live" => Live(m),
           \A x \in broken : x \in broken' \/ (x = m /\ r.state # "live"),
           req[w].pc = "delete_write" => m = req[w].m /\ r.state # "live"
    PROVE  FilesStep(w, Null)
<1>1. \A x \in Messages : x # m => msg'[x] = msg[x]
  BY DEF IInv, TypeOK
<1>2. msg'[m] = r
  BY DEF IInv, TypeOK
<1>3. RowsKeep(w, Null)
  BY <1>1, <1>2 DEF RowsKeep, Exists, FilesInv, NamesInMedia
<1>4. StorageStep(w)
  BY <1>1, <1>2 DEF StorageStep
<1>5. BackStep(w)
  <2>1. Live(m)' <=> r.state = "live"
    BY <1>2 DEF Live
  <2>2. \A x \in Messages : x # m => (Live(x)' <=> Live(x))
    BY <1>1 DEF Live
  <2> QED
    BY <2>1, <2>2 DEF BackStep
<1> QED
  BY <1>3, <1>4, <1>5, Ended DEF FilesStep

LEMMA EditWriteFiles ==
    ASSUME IInv, FilesInv, NEW w \in Workers, EditWrite(w)
    PROVE  FilesStep(w, Null)
<1> DEFINE m == req[w].m
           r == [msg[m] EXCEPT !.content = req[w].content]
<1>1. /\ req[w].pc = "edit_write" /\ End(w) /\ UNCHANGED <<drawn, temp, stored, broken, unclaimed>>
  BY DEF EditWrite, At
<1>2. m \in Messages /\ Exists(m) /\ msg[m] \in MessageRows
  BY <1>1 DEF IInv, RequestFits, OnMessage, TypeOK
<1>3. r.from = msg[m].from /\ r.files = msg[m].files /\ r.state = msg[m].state
  BY <1>2 DEF MessageRows
<1>4. msg' = [msg EXCEPT ![m] = r]
  BY <1>2 DEF EditWrite, IInv, TypeOK
<1>5. req[w].got = {}
  BY <1>1 DEF FilesInv, GotFits
<1>6. r.state # "none" /\ (r.state = "live" => Live(m))
  BY <1>2, <1>3 DEF Exists, Live
<1> HIDE DEF r
<1> QED
  BY <1>1, <1>2, <1>3, <1>4, <1>5, <1>6, WrittenFiles

LEMMA DeleteWriteFiles ==
    ASSUME IInv, FilesInv, NEW w \in Workers, DeleteWrite(w)
    PROVE  FilesStep(w, Null)
<1> DEFINE m == req[w].m
           r == [msg[m] EXCEPT !.state = "deleted", !.content = Null, !.files = FilesLeft(req[w].scope, @)]
<1>1. /\ req[w].pc = "delete_write" /\ End(w) /\ UNCHANGED <<drawn, temp, stored, unclaimed>>
      /\ broken' = broken \ {m}
  BY DEF DeleteWrite, At
<1>2. m \in Messages /\ Exists(m) /\ msg[m] \in MessageRows
  BY <1>1 DEF IInv, RequestFits, OnMessage, TypeOK
<1>3. r.from = msg[m].from /\ r.files = FilesLeft(req[w].scope, msg[m].files) /\ r.state = "deleted"
  BY <1>2 DEF MessageRows
<1>4. msg' = [msg EXCEPT ![m] = r]
  BY <1>2 DEF DeleteWrite, IInv, TypeOK
<1>5. req[w].got = {} /\ CopyFits(w)
  BY <1>1 DEF FilesInv, GotFits
<1>6. r.files \subseteq msg[m].files /\ (msg[m].files \ r.files) \cap stored \subseteq unclaimed
  BY <1>1, <1>3, <1>5 DEF CopyFits, FilesLeft
<1> HIDE DEF r
<1> QED
  BY <1>1, <1>2, <1>3, <1>4, <1>5, <1>6, WrittenFiles

\* A request that reads the names of a row has a claim on them.
LEMMA DeleteBeginFiles ==
    ASSUME IInv, FilesInv, NEW w \in Workers, NEW u \in Users, NEW m \in Messages, NEW scope \in {"me", "everyone"},
           DeleteBegin(w, u, m, scope)
    PROVE  FilesStep(w, Null)
<1> DEFINE takes == TakesFiles(scope, msg[m].files)
           pc == IF takes THEN "delete_files" ELSE "delete_write"
           copy == IF takes THEN [NoMessage EXCEPT !.files = msg[m].files] ELSE NoMessage
           r == [Idle EXCEPT !.pc = pc, !.by = u, !.m = m, !.scope = scope, !.copy = copy]
<1>1. r.pc = pc /\ r.m = m /\ r.scope = scope /\ r.copy = copy /\ r.got = {}
  BY DEF Idle
<1>2. takes => copy.files = msg[m].files
  BY DEF NoMessage
<1>3. /\ GoTo(w, r) /\ UNCHANGED <<drawn, msg, temp, stored, broken, unclaimed>> /\ req[w].pc = "idle"
      /\ Exists(m)
  BY DEF DeleteBegin, At, MayDelete, Live, Exists
<1> HIDE DEF r, copy
<1>4. OthersSame(w) /\ req'[w] = r /\ req[w].got = {}
  BY <1>3, RequestMoves DEF FilesInv, GotFits
<1>5. takes <=> scope = "everyone" /\ msg[m].files # {}
  BY DEF TakesFiles
<1> HIDE DEF takes
<1>6. CopyFits(w)'
  BY <1>1, <1>2, <1>3, <1>4, <1>5 DEF CopyFits, FilesInv, NamesInMedia, Copying
<1>7. CopyStep(w)
  BY <1>1, <1>2, <1>3, <1>4, <1>6, ClaimOfRow DEF CopyStep, Copying
<1> QED
  BY <1>1, <1>3, <1>4, <1>7, NoUpload, Quiet DEF Media

LEMMA DeleteFilesFiles ==
    ASSUME IInv, FilesInv, NEW w \in Workers, DeleteFiles(w)
    PROVE  FilesStep(w, Null)
<1> DEFINE r == [req[w] EXCEPT !.pc = "delete_write", !.copy = NoMessage]
<1>1. req[w] \in Requests /\ CopyFits(w) /\ GotFits(w)
  BY DEF IInv, TypeOK, FilesInv
<1>2. r.pc = "delete_write" /\ r.m = req[w].m /\ r.scope = req[w].scope /\ r.got = req[w].got
  BY <1>1 DEF Requests
<1>3. /\ req[w].pc = "delete_files" /\ GoTo(w, r) /\ UNCHANGED <<drawn, msg, temp, broken>>
      /\ unclaimed' = stored' \cap (unclaimed \cup req[w].copy.files)
  BY DEF DeleteFiles, At
<1>4. stored' \subseteq stored /\ stored \ stored' \subseteq req[w].copy.files
  BY DEF DeleteFiles
<1> HIDE DEF r
<1>5. OthersSame(w) /\ req'[w] = r /\ r.got = {}
  BY <1>1, <1>2, <1>3, RequestMoves DEF GotFits
<1>6. req[w].scope = "everyone" /\ msg[req[w].m].files \subseteq req[w].copy.files
  BY <1>1, <1>3 DEF CopyFits
<1>7. CopyStep(w)
  BY <1>2, <1>3, <1>5, <1>6 DEF CopyStep, CopyFits, Copying
<1>8. UploadStep(w)
  BY <1>2, <1>5, NoUpload DEF Media
<1>9. \A m \in Messages : m = req[w].m => Removing(m)'
  BY <1>2, <1>5, <1>6 DEF Removing, At
<1>10. StorageStep(w)
  BY <1>2, <1>3, <1>4, <1>5, <1>9, SameRowsKeep DEF StorageStep
<1>11. BackStep(w)
  BY <1>3, SameRowsKeep DEF BackStep
<1> QED
  BY <1>3, <1>5, <1>7, <1>8, <1>10, <1>11, SameRowsKeep DEF FilesStep

LEMMA ForwardBeginFiles ==
    ASSUME IInv, FilesInv, NEW w \in Workers, NEW u \in Users, NEW m \in Messages, NEW n \in 1..MaxTargets,
           ForwardBegin(w, u, m, n)
    PROVE  FilesStep(w, Null)
<1> DEFINE r == [Idle EXCEPT !.pc = "forward_create", !.by = u, !.m = m, !.copy = msg[m], !.more = n]
<1>1. r.pc = "forward_create" /\ r.m = m /\ r.copy = msg[m] /\ r.got = {}
  BY DEF Idle
<1>2. /\ GoTo(w, r) /\ UNCHANGED <<drawn, msg, temp, stored, broken, unclaimed>> /\ req[w].pc = "idle"
      /\ Exists(m)
  BY DEF ForwardBegin, At, MayForward, Live, Exists
<1> HIDE DEF r
<1>3. OthersSame(w) /\ req'[w] = r /\ req[w].got = {}
  BY <1>2, RequestMoves DEF FilesInv, GotFits
<1>4. CopyFits(w)'
  BY <1>1, <1>3 DEF CopyFits, FilesInv, NamesInMedia, Copying
<1>5. CopyStep(w)
  BY <1>1, <1>2, <1>3, <1>4, ClaimOfRow DEF CopyStep
<1> QED
  BY <1>1, <1>2, <1>3, <1>5, NoUpload, Quiet DEF Media

\* A forward joins the family of its original, whose names it takes.
LEMMA ForwardCreateFiles ==
    ASSUME IInv, FilesInv, NEW w \in Workers, NEW m \in Messages, ForwardCreate(w, m)
    PROVE  FilesStep(w, Null)
<1> DEFINE x == req[w].m
           copy == req[w].copy
           r == [copy EXCEPT !.by = req[w].by, !.from = Origin(x, copy)]
<1>1. req[w] \in Requests /\ RequestFits(req[w]) /\ CopyFits(w) /\ GotFits(w) /\ msg \in [Messages -> MessageRows]
  BY DEF IInv, TypeOK, FilesInv
<1>2. /\ req[w].pc = "forward_create" /\ ~Exists(m) /\ msg' = [msg EXCEPT ![m] = r]
      /\ UNCHANGED <<drawn, temp, stored, broken, unclaimed>>
      /\ IF req[w].more = 1 THEN End(w) ELSE GoTo(w, [req[w] EXCEPT !.more = @ - 1])
  BY DEF ForwardCreate, At, Free
<1>3. /\ x \in Messages /\ Exists(x) /\ copy \in MessageRows /\ copy.state = "live"
      /\ copy.from = msg[x].from /\ req[w].got = {}
  BY <1>1, <1>2 DEF RequestFits, OnMessage, Requests, GotFits
<1>4. /\ r.files = copy.files /\ r.state = "live" /\ r.from = Origin(x, copy)
      /\ Origin(x, copy) = RootOf(x) /\ RootOf(x) \in Messages
  BY <1>3 DEF MessageRows, Origin, RootOf
<1> HIDE DEF r
<1>5. /\ \A y \in Messages : y # m => msg'[y] = msg[y]
      /\ msg'[m] = r /\ msg[m].files = {}
  BY <1>1, <1>2 DEF FilesInv, NamesInMedia
<1>6. \A o \in copy.files : Claims(o[2], RootOf(x)) /\ o[1] # "documents"
  BY <1>1, <1>2, ClaimOfCopy DEF CopyFits, Copying
<1>7. RootOf(m)' = RootOf(x) /\ Exists(m)' /\ Live(m)' /\ Forwarded(m)'
  BY <1>4, <1>5 DEF RootOf, Exists, Live, Forwarded
<1>8. RowsKeep(w, Null)
  <2>1. ASSUME NEW y \in Messages, y # m PROVE Exists(y)' <=> Exists(y)
    BY <1>5, <2>1 DEF Exists
  <2>2. ASSUME NEW y \in Messages, ~Exists(y) PROVE msg[y].files = {}
    BY <2>2 DEF FilesInv, NamesInMedia
  <2> QED
    BY <1>2, <1>4, <1>5, <1>6, <1>7, <2>1, <2>2 DEF RowsKeep
<1>9. OthersSame(w) /\ CopyStep(w) /\ UploadStep(w)
  <2>1. CASE req[w].more = 1
    BY <1>2, <2>1, Ended
  <2>2. CASE req[w].more # 1
    <3> DEFINE q == [req[w] EXCEPT !.more = @ - 1]
    <3>1. q.pc = "forward_create" /\ q.m = x /\ q.copy = copy /\ q.got = {}
      BY <1>1, <1>2, <1>3 DEF Requests
    <3>2. GoTo(w, q)
      BY <1>2, <2>2
    <3> HIDE DEF q
    <3>3. OthersSame(w) /\ req'[w] = q
      BY <3>2, RequestMoves
    <3>4. CopyFits(w)'
      BY <1>6, <3>1, <3>3 DEF CopyFits, Copying
    <3>5. CopyStep(w)
      BY <1>3, <1>6, <3>1, <3>3, <3>4 DEF CopyStep
    <3> QED
      BY <3>1, <3>3, <3>5, NoUpload DEF Media
  <2> QED
    BY <2>1, <2>2
<1>10. StorageStep(w)
  BY <1>2, <1>3, <1>5 DEF StorageStep
<1>11. BackStep(w)
  <2>1. \A y \in Messages : y # m => (Live(y)' <=> Live(y))
    BY <1>5 DEF Live
  <2> QED
    BY <1>2, <1>7, <2>1 DEF BackStep
<1> QED
  BY <1>8, <1>9, <1>10, <1>11 DEF FilesStep

LEMMA NextFiles ==
    ASSUME IInv, FilesInv, [Next]_vars
    PROVE  \E w, n : FilesStep(w, n)
<1>1. PICK nobody : nobody \notin Workers
  BY NoSetContainsEverything
<1>2. CASE \/ UNCHANGED vars
           \/ \E k \in Uploads : Put(k)
           \/ \E u \in Users, m \in Messages, c \in Contents : SendText(u, m, c)
  BY <1>1, <1>2, NobodysStep
<1>3. ASSUME NEW w \in Workers, Step(w)
      PROVE  \E n : FilesStep(w, n)
  <2>1. CASE \E u \in Users, k \in Uploads, kind \in Kinds, f \in Files : MediaBegin(w, u, k, kind, f)
    BY <2>1, MediaBeginFiles
  <2>2. CASE MediaMain(w) \/ MediaThumb(w)
    BY <2>2, StoredFiles
  <2>3. CASE MediaFails(w)
    BY <2>3, MediaFailsFiles
  <2>4. CASE MediaClean(w)
    BY <2>4, MediaCleanFiles
  <2>5. CASE MediaRefused(w) \/ Crash(w)
    BY <2>5, EndFiles
  <2>6. CASE \E m \in Messages : MediaCreate(w, m)
    BY <2>6, MediaCreateFiles
  <2>7. CASE \E m \in Messages : ForwardCreate(w, m)
    BY <2>7, ForwardCreateFiles
  <2>8. CASE \E u \in Users, m \in Messages, c \in Contents : EditBegin(w, u, m, c)
    BY <2>8, EditBeginFiles
  <2>9. CASE \E u \in Users, m \in Messages, scope \in {"me", "everyone"} : DeleteBegin(w, u, m, scope)
    BY <2>9, DeleteBeginFiles
  <2>10. CASE \E u \in Users, m \in Messages, n \in 1..MaxTargets : ForwardBegin(w, u, m, n)
    BY <2>10, ForwardBeginFiles
  <2>11. CASE EditWrite(w)
    BY <2>11, EditWriteFiles
  <2>12. CASE DeleteFiles(w)
    BY <2>12, DeleteFilesFiles
  <2>13. CASE DeleteWrite(w)
    BY <2>13, DeleteWriteFiles
  <2>14. CASE \E u \in Users, k \in Uploads : MediaAbsent(w, u, k)
    BY <2>14, MediaAbsentFiles
  <2> QED
    BY <1>3, <2>14, <2>1, <2>2, <2>3, <2>4, <2>5, <2>6, <2>7, <2>8, <2>9, <2>10, <2>11, <2>12, <2>13 DEF Step
<1> QED
  BY <1>2, <1>3 DEF Next

LEMMA InitFiles == Init => FilesInv
<1> SUFFICES ASSUME Init PROVE FilesInv
  OBVIOUS
<1>1. /\ \A m \in Messages : msg[m].state = "none" /\ msg[m].files = {}
      /\ \A w \in Workers : req[w].pc = "idle" /\ req[w].got = {}
      /\ stored = {}
  BY DEF Init, NoMessage, Idle
<1>2. \A f \in Files, x \in Messages : ~Claims(f, x)
  BY <1>1 DEF Claims, Copying
<1>3. \A w \in Workers : KeyApart(w) /\ GotFits(w) /\ CopyFits(w)
  BY <1>1 DEF KeyApart, GotFits, CopyFits, Copying, Media
<1> QED
  BY <1>1, <1>2, <1>3 DEF FilesInv, KeysFit, NamesInMedia, Backed, NoOrphanFiles

LEMMA FilesInvariance == Spec => [](IInv /\ FilesInv)
<1>1. IInv /\ IInv' /\ FilesInv /\ [Next]_vars => FilesInv'
  BY NextFiles, FilesKept
<1> QED
  BY <1>1, InitFiles, Invariance, PTL DEF Spec

\* The names two messages share are of one family of forwards, and whoever is about to remove an
\* object or to forward it on is of the same family: deleting a message never reaches the files
\* of a message that has nothing to do with it, whatever uploads and deletions overlap.
THEOREM FamiliesShareNoFile == Spec => []KeysFit
<1>1. IInv /\ FilesInv => KeysFit
  BY DEF FilesInv
<1> QED
  BY <1>1, FilesInvariance, PTL

\* What a live message names is in storage, but for the cases FilesBacked names: the deletion that
\* is under way or broke off, the shared file, and the document stored in another bucket.
THEOREM FilesStayBacked == Spec => []FilesBacked
<1>1. ASSUME IInv, FilesInv PROVE FilesBacked
  <2> SUFFICES ASSUME NEW m \in Messages, Live(m), NEW o \in msg[m].files
               PROVE  \/ o \in stored \/ Shared(o, m) \/ IsDocument(o) \/ m \in broken
                      \/ \E w \in Workers : req[w].m = m /\ At(w, "delete_write") /\ req[w].scope = "everyone"
    BY DEF FilesBacked
  <2>1. \/ o \in stored \/ <<"documents", o[2]>> \in stored \/ Forwarded(m) \/ m \in broken \/ Removing(m)
    BY <1>1 DEF FilesInv, Backed
  <2>2. ASSUME NEW x \in Messages, msg[x].from # Null
        PROVE  msg[x].from \in Messages \ {x}
    <3>1. msg[x] \in MessageRows /\ msg[msg[x].from].from = Null
      BY <1>1, <2>2 DEF IInv, TypeOK, LineageIsFlat
    <3> QED
      BY <2>2, <3>1 DEF MessageRows
  <2>3. CASE Forwarded(m)
    BY <2>2, <2>3 DEF Forwarded, Shared
  <2> QED
    BY <2>1, <2>3 DEF Removing, IsDocument
<1>2. IInv /\ FilesInv => FilesBacked
  BY <1>1
<1> QED
  BY <1>2, FilesInvariance, PTL

\* No object stays in storage that no message names: an upload that breaks off, a deletion that
\* fails half-way and a forward of what is being deleted leave only what they account for.
THEOREM StorageHasNoOrphans == Spec => []NoOrphanFiles
<1>1. IInv /\ FilesInv => NoOrphanFiles
  BY DEF FilesInv
<1> QED
  BY <1>1, FilesInvariance, PTL

===========================================================================
