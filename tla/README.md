# Formal model of the Echola server

TLA+ specifications of the chat server in `src/` (NestJS, Socket.IO, Postgres through Prisma,
Redis, S3-compatible object storage), checked with TLC on small instances and proved with TLAPS
for every instance. Paths below are relative to `src/src/`.

The server is a set of asynchronous request handlers. Nothing in it takes a lock: a handler reads,
awaits, decides, awaits, and writes, nearly always without a transaction and with writes by primary
key that do not repeat the condition that was checked. All the interesting behaviour is what happens
when two such chains interleave, or when one stops half-way. Every module therefore splits a handler
at its awaited commands: **one action is one database query, Redis command or batch of storage or
FCM calls with the synchronous code after it**, and any number of handlers may be between two actions.

## 1. The system

| Component | State it keeps | Operations | What makes it correct |
|---|---|---|---|
| Group membership (`conversations/group-management.service.ts`) | `conversation_participants`: role, leftAt | addMembers, removeMember, leaveGroup, updateMemberRole, updateGroupInfo, getGroupMembers | a group keeps an admin; the size limit; blocked users are not brought together; the creator cannot be removed or demoted |
| Conversations (`conversations/conversations.service.ts`) | `conversations`, participant rows | createConversation, delete, pin, archive, mute, mark as read, the list and its counts | one DIRECT conversation per pair; five pins; a deleted conversation stays usable for the other side; a walk through the pages misses nothing that stayed |
| Blocked users, profiles, account tokens (`users/users.service.ts`) | `blocked_users`, verification and reset tokens | blockUser, unblockUser, forgotPassword, resetPassword, sendVerificationEmail, verifyEmail, changePassword | a link serves once and replaces the one before; a reset signs every device out; the answer tells what happened |
| Messages (`messages/messages.service.ts`) | `messages`, `message_attachments`, `message_statuses` | send, edit, delete, forward, mark delivered, mark read, pages of a history | status only goes forward; a deleted message stays deleted; files are kept while a message names them |
| Delivery (`messages/messages.handler.ts`) | none of its own; timers | sendTextMessage, confirmMediaUpload, deliverToParticipants, scheduleDeliveryConfirmation, markDelivered, markRead | each participant gets the message now or from the inbox; the sender is told the truth |
| Connections (`connection/connection.handler.ts`) | presence key, `isOnline` | handleUserConnected, deliverQueuedMessages, handleUserDisconnected | the inbox drains; presence follows the sockets |
| Redis (`redis/redis.service.ts`) | presence keys, inbox ZSETs, session keys, caches | primitives of the above | removal takes out only what was delivered |
| Sessions (`auth/auth.service.ts`, `auth/strategies/`) | `refresh_tokens`, `session:user:device` | login, register, refreshTokens, logout, logoutAllDevices | an exchanged token is worth nothing once its second is over; logging out lasts |
| Rooms and gateway (`gateway/`, `socket/`, `conversations/groups.handler.ts`) | Socket.IO rooms, a pub/sub subscription | socket events | whoever is in a room is a participant |
| Reactions (`messages/reactions.*`) | `message_reactions` | add, remove, list | one reaction per user and emoji |
| Presence and typing (`presence/`) | five-second typing keys | typing events | none that depends on earlier steps |
| Media (`media/`, `storage/`) | objects in buckets: temporary ones, originals, thumbnails | request upload, confirm, process, clean up | what is stored gets a message; nothing is stored twice from one temporary object |
| Notifications (`notifications/notifications.service.ts`) | FCM tokens in `devices` | sendToUser, registerToken, removal of refused tokens | who silenced a conversation is not notified; a working token stays; no app gets another account's notifications |
| Rate limiting (`common/middleware/rate-limit.middleware.ts`) | a Redis counter per address and route | INCR, PEXPIRE | a fixed window: at most the limit passes, nothing is refused before it, and every counter expires |
| HTTP pipeline (`common/interceptors/`, `common/filters/`) | a timer per request | timeout, exception to status | the answer tells what happened |
| E-mail, health, metrics, logging, configuration | none that a decision reads | I/O | outside the models, but for mails that fail |

How they interact: REST controllers and the Socket.IO gateway call the same services. A send over a
socket calls `MessagesService.sendMessage`, then `deliverToParticipants`, which reads the
participants again, asks Redis for the presence of each and emits to the room `user:u` or appends to
`inbox:u`; a send over REST stops after `sendMessage`. A connection sets the presence key, then
drains the inbox through `MessagesService.markMessageAsDelivered`. For a recipient that is offline the
delivery starts `sendToUser` and does not wait for it. Group operations change the
participants a send reads, user blocks change what group operations allow, and a password reset
deletes the refresh tokens the sessions rely on. Several servers share Postgres, Redis and, through
the Socket.IO Redis adapter, the rooms.

The hard behaviours are listed one by one, at their lines, under `hazards` in `PROJECT.json`:
check-then-write over separate queries (size limit, other admins, pins, DIRECT conversations),
writes by id to rows that have changed, dates taken before the write that stores them, presence read
before an emit, two reads of the participants in one send, drains of several devices over one inbox,
exceptions that end a loop or roll back a transaction, servers that stop or commands that are rejected
between two writes, answers that are lost and sent again, handlers
that go on after their caller was answered 408, and pages of a list that moves under its reader.

## 2. Modules

`MCx` modules only give constants to module `x` and declare symmetry sets. Operators placed directly
before a definition, such as `InboxCleared` before `Without`, are variants of it a plausible bug
would produce; no specification uses them. `TokenFamily` and `RateWindow` are abstract
specifications; AuthSessions and AccountRequests are shown to implement them.

### GroupMembership

One GROUP conversation. `row[u]` and `role[u]` are the participant row of `u`, `blocks` is
`blocked_users`, `req[w]` is what the request served by worker `w` has read so far.

| Actions | Code |
|---|---|
| `CreateBegin`, `CreateBlocks`, `CreateCommit` | `createConversation` with type GROUP |
| `AddBegin` ... `AddCommit` (seven) | `addMembers`: admin check, count, members, blocks, active, previous, transaction |
| `RemoveBegin`, `RemoveFind`, `RemoveCommit` | `removeMember` |
| `LeaveBegin`, `LeaveAdmins`, `LeaveFind`, `LeaveCommit` | `leaveGroup` |
| `RoleBegin`, `RoleFind`, `RoleCommit` | `updateMemberRole` |
| `BlockUser`, `UnblockUser` | `users.service.ts` |

The transaction of `addMembers` is one step: its `updateMany` locks the rows it rewrites and its
inserts are invisible until the commit; an insert that meets an existing row rolls it back. Two
history variables say what the properties are about: `overtaken` (requests in flight at another
request's write) and `creatorLeft`.

### MessageDelivery

One conversation, its recipients, their sockets. `job[m]` is the request that sends `m`, `status` the
status rows, `inbox` and `online` the Redis keys, `conn[s]` the socket `s` together with the
`handleUserConnected` that serves it, `bye` the disconnects whose DEL is outstanding, `calls` the
timers and the client's mark calls between their read and their write, `told` the events the sender
got. `received`, `missed`, `raced` and `stranded` are history.

| Actions | Code |
|---|---|
| `SendBegin`, `SendCreate` | `sendMessage` / `createMediaMessage`: getRecipients, create |
| `SendLookup`, `RouteCheck`, `RouteEmit`, `RouteQueue` | `deliverToParticipants` |
| `Connect`, `SetOnline`, `DrainFetch`, `DrainLook`, `DrainMark`, `DrainRemove` | `handleUserConnected`, `deliverQueuedMessages` |
| `ConnRejected` | a Redis command or query of a connection is rejected, carried out or not: the catch ends the drain, the socket stays open |
| `Disconnect`, `SetOffline`, `SetOfflineRejected` | `handleDisconnect`, `handleUserDisconnected`; its DEL is rejected, which is logged |
| `ClientMarks`, `ClientReadsAll`, `CallLook`, `CallWrite` | the timer of `scheduleDeliveryConfirmation`, `markDelivered`, `markRead`, `markConversationAsRead` |
| `ChangeMember`, `Expire`, `CrashSocket`, `CrashSend`, `CrashCall` | group operations, the seven-day TTL, a server that stops, a send or a mark call that ends with a rejected command |

The JWT is verified synchronously, so the SET of a socket is sent before its disconnect can be
handled; both go over one Redis connection, hence `SetOffline` after `SetOnline` of the same socket.
Other sockets of the user are free to interleave. A drain does not look whether its socket is still
open: `DrainLook` serves a closed one like an open one, and the message counts as `missed`.

### AuthSessions

The `refresh_tokens` rows and the session keys of one account. Requests run at READ COMMITTED: a
`deleteMany` removes the rows its scan saw, waits for locked ones, and does not see rows inserted
meanwhile; `refreshTokens` is a transaction of find, delete, insert, Redis SET and commit, the SET
taking effect before the commit. A token is its device and the second it was signed in, because that
is all a signed payload holds: two tokens of a device in one second are the same string, and the
unique key refuses the second.

A `logout` deletes the rows of its device, then its session key. `logoutAllDevices` is a command per
step: the devices of the account (`LogoutDevices`, `known`), the deletion of all rows (`LogoutScan`,
`LogoutDelete`), then one DEL after the other for the devices it had found (`LogoutSession`).

`TokenFamily` says what this is for, in terms of the strings a client holds: a token becomes live by a
sign-in, or by an exchange that takes another live token of the device away in the same step; once it
was exchanged or revoked, and its second is over, it can be live again only if a request that signed
it in that second still holds it. `ImplementsTokenFamily` maps `live` to the strings in the rows
(`Strings`), `signing` and `renewing` to the strings that sign-ins and refreshes have signed and not
committed (`HeldAt`).

### MessageLifecycle

Messages with their attachment rows, the temporary objects of uploads, and the files in storage. An
object is a bucket with a key; an original and its thumbnail have the same key in two buckets.

| Actions | Code |
|---|---|
| `SendText` | `sendMessage`, without its checks (Conversations has them) |
| `Put` | the client's PUT of the temporary object |
| `MediaBegin`, `MediaAbsent` | `confirmUpload` reads the temporary object, or finds none: before the PUT, or after another confirmation |
| `MediaMain`, `MediaThumb`, `MediaFails`, `MediaClean` | store the original, store the thumbnail, an upload or a processor that fails; the `finally` that deletes the temporary object, also one put after the read found none |
| `MediaCreate`, `MediaRefused` | `createMediaMessage`, called by `confirmMediaUpload` of the handler; its checks refuse |
| `EditBegin`, `EditWrite` | `editMessage`: read and check, then update by id |
| `DeleteBegin`, `DeleteFiles`, `DeleteWrite` | `deleteMessage`: read and check, remove the files, update the row and the attachments |
| `ForwardBegin`, `ForwardCreate` | `forwardMessage`: one read, then one message per target |
| `Crash` | the server stops |

The row of a message names the bucket `media` for every kind, while a document is stored in the bucket
`documents`; a deletion therefore never reaches it.

### RoomMembership

The room `conversation:<id>` of one conversation. `member` are the active participant rows, `conn[s]`
is how far `handleUserConnected` is with socket `s`, `room` the sockets in the room, `req[w]` a group
operation with the users still in its loop and the sockets it fetched. Its environment is
GroupMembership seen from outside: a request that commits changes `member` in one step, whatever it
checked before.

| Actions | Code |
|---|---|
| `Connect`, `ReadConversations`, `JoinRooms`, `ConnectFails` | `handleUserConnected`: user room, participant rows, `socket.join`, the catch |
| `Disconnect` | Socket.IO empties the rooms of a closed socket |
| `Create` | `createConversation`: participants, and no room |
| `AddBegin`, `AddCommit`, `RemoveBegin`, `RemoveCommit`, `LeaveBegin`, `LeaveRestBegin`, `LeaveCommit` | the services, called by `groups.handler.ts` (`ws`) or `conversations.controller.ts` (`rest`) |
| `FetchSockets`, `JoinRoom`, `LeaveRoom` | the rest of the socket handlers: `getUserSockets`, `socket.join`, `socket.leave` |
| `Abandon` | `getUserSockets` rejects, or a server stops: no room is touched any more |
| `BroadcastBegin`, `Emit` | a reaction, an edit, a deletion, a role or name change: check, then `emitToConversation` |

`astray` is history: the sockets for which, after the last change of membership, the code has no step
left that would put them right. It grows by a REST operation, by a creation, on the second device of
a user who leaves, by an abandoned handler, by a failed connection, and by a join or leave that
comes after the opposite change. The invariants speak of all other sockets.

### Conversations

Several conversations between accounts. `row[c][u]` is the participant row, `pinned` the pins of one
account, `blocks` is `blocked_users`, `req[w]` what a request has read. GROUP conversations exist
from the start and are left and joined again in one step.

| Actions | Code |
|---|---|
| `CreateBegin`, `CreateBlocks`, `CreateCommit` | `createConversation` with type DIRECT, `findDirectConversation`, `checkIfBlocked` |
| `PinBegin`, `PinCount`, `PinWrite`, `UnpinBegin`, `UnpinWrite` | `pinConversation`, `unpinConversation` |
| `DeleteBegin`, `DeleteWrite` | `deleteConversation` |
| `SendBegin`, `SendOther`, `SendBlock`, `SendRecipients`, `SendCreate` | `sendMessage`: `verifyParticipant`, `ensureNotBlockedInDirect` (two queries), `getRecipients`, create |
| `LeaveGroup`, `Rejoin`, `BlockUser`, `UnblockUser` | `leaveGroup`, `addMembers`, `blockUser`, `unblockUser` |

`overtaken` is as in GroupMembership; `barred` holds the requests whose two sides have had a block
between them since the request began.

### ConversationList

What one account sees: the pages of its list, the pages of a history, the two counts of unread
messages. `row[c]` is the participant row, `updated[c]` the column the list is sorted by, `walk` the
client that goes through a list or a history page by page.

| Actions | Code |
|---|---|
| `ListBegin`, `ListCursor`, `ListPage` | `getUserConversations`: the row of the cursor, then the page sorted again with pins first |
| `HistoryBegin`, `HistoryStep` | `getMessages`, with `cursor` and `skip: 1`; a deleted cursor gives an empty page |
| `Arrive`, `Touch`, `DeleteMessage` | a message of another account; `touchConversation`, whose date was taken before the update and may be older than the one it overwrites; a deletion |
| `ReadMessage` | `markMessageAsRead` |
| `ReadBegin`, `ReadFind`, `ReadWrite`, `ReadRow` | `markConversationAsRead`: participant, unread status rows, `updateMany`, `lastReadAt` |
| `ReadAll` | `markAllConversationsAsRead` |
| `SetFlag`, `Pin`, `Unpin`, `Leave`, `Return` | mute and archive, pins, leaving and being added again |

`walk.steady` are the items that were there from the first page on and received nothing, `walk.shown`
those a page held, `walk.passed` those the next page is known to skip; `opened` and `late` tell which
messages a read was about and which came in the middle of one. A query with `muted=false` filters for
true, as `@Type(() => Boolean)` turns every non-empty string to TRUE; the filters of `Views` are those
that remain. Two conversations updated in the same millisecond are left out. The pages of a history follow
Prisma's client: an `orderBy` on a column that is not unique is paged in memory, from the cursor's row
among those that `where` left; a cursor that is not among them gives an empty page (external, as the
engine is not in the repository).

### PushNotifications

Notifications for messages of one conversation, the devices rows, the tokens. `settings[u]` is what
the participant row of `u` has against notifications, `app[d]` the token FCM gives the app on `d`.

| Actions | Code |
|---|---|
| `NotifyBegin`, `NotifyCheck`, `NotifyDevices`, `NotifySend`, `NotifyRemove` | `deliverToParticipants` starts `sendToUser`: `shouldNotifyUser`, the devices with a token, `sendEachForMulticast`, `removeInvalidTokens` |
| `Fail` | a query or FCM rejects, which `sendToUser` logs; a sign-in fails |
| `LoginBegin`, `LoginWrite` | `login`: find the row of the deviceId, then create it or update it with the fcmToken |
| `RegisterToken` | `registerToken`: it looks a row up by its id with a deviceId, so it finds none |
| `Set`, `Unset` | mute, notification preference, leaving, and each taken back |
| `NewToken` | FCM hands the app its first or another token (external) |

A logout leaves the token in the row, and a devices row never changes its owner: a sign-in of another
account on the device is refused, as the row is not its own. `unwanted` is history: the notifications
whose user has not wanted them since they began.

### AccountRequests

The HTTP requests about the password and the address of one account, from the rate limiter to the
answer. `counter` and `expires` are the Redis key, `links` and `codes` the token rows, `req[w]` the
request with its status once it is answered; 200 stands for any success.

| Actions | Code |
|---|---|
| `ForgotBegin`, `LimitCount`, `LimitExpire`, `LimitFails`, `WindowEnds` | `rate-limit.middleware.ts`: INCR, PEXPIRE for the first request of a window, a Redis error lets the request pass; the key expires |
| `ForgotFind`, `SendBegin`, `SendFind`, `LinkDelete`, `LinkCreate`, `LinkMail` | `forgotPassword`, `sendVerificationEmail`, `resendVerificationEmail`: find the account, or answer 200 for an address nobody has (`Unknown`), delete the old tokens, create one, mail it |
| `ResetBegin`, `ResetFind`, `ResetCommit` | `resetPassword` |
| `ChangeBegin`, `ChangeFind`, `ChangeWrite` | `changePassword`, which leaves the refresh tokens as they are |
| `VerifyBegin`, `VerifyFind`, `VerifyWrite`, `VerifyDelete` | `verifyEmail` |
| `QueryFails` | any query or transaction of these is rejected, having written nothing or everything, and the handler ends with 500 |
| `Timeout` | `timeout.interceptor.ts`: 408 now, and the handler goes on |
| `Crash` | the server stops |

What a rejected command may have written is the same operator the successful step uses (`LinksGo`,
`LinkComes`, `PasswordResets`, `PasswordChanges`, `AddressVerified`, `CodeGoes`). The statuses are
those `http-exception.filter.ts` gives each exception (`StatusOf`). `crossed` holds the requests whose
rows another request has changed since they read them. `RateWindow` is the promise of a fixed window;
`ImplementsRateWindow` maps `admitted` to the counter up to `Max` and `gate` to the
stage of each request (`Gate`).

## 3. Runs

All runs use two TLC workers and end in less than five minutes.

| Run | Instance | Question | Result |
|---|---|---|---|
| `group_membership` | 3 accounts, 2 requests, limit 2, batches up to 2, one pair that may block | do overlapping requests keep the creator's group, bound the overrun, keep blocked users out? | holds |
| `group_without_admin` | the same | does the creator's departure leave an admin? | no |
| `delivery_faults` | 1 recipient, 2 devices, 1 message, a client call of each kind, all faults, rejected commands among them | are marks, inbox, presence and sender events consistent, and which messages are lost? | holds |
| `delivery_fair` | 1 recipient, 2 devices, 2 messages, inbox limit 1, no fault | is nothing lost, and is every queued message marked in the end? | holds |
| `auth_sessions` | 2 devices, 2 requests, 3 token rows, 2 seconds | are the stored strings a token family, which refreshes never multiply? do undisturbed revocations last? | holds |
| `auth_reuse` | 1 device, 1 request | does a detected reuse revoke the device's tokens? | no |
| `message_lifecycle` | 1 account (admin), 3 messages, 1 upload, 1 file, image or document, 2 requests | objects, lineage and deletion under overlapping requests, failures and crashes | holds |
| `room_membership` | 2 accounts, 2 devices of one, 2 requests, faults | does the room follow the participants, and catch up with them? | holds |
| `conversations` | 2 accounts, 2 DIRECT, 1 group, 1 pin, 2 requests | do blocks silence, do undisturbed requests meet the limits? | holds |
| `conversation_list` | 3 conversations on pages of 1, 3 messages, clock up to 6, list unfiltered or muted, 1 request | what may a walk miss, what may be taken for read? | holds |
| `push_notifications` | 2 accounts of which 1 receives, 2 devices, 3 tokens, 2 requests | who is notified, which tokens are removed? | holds |
| `account_requests` | 2 requests, 2 passwords, limit 2, 2 links | fixed window, links, answers, with rejected queries, commands and mails, timeouts and restarts | holds |

The two runs with the result "no" contradict a sentence of the source, quoted under `findings`:

1. `leaveGroup` counts the other admins and updates the creator's row in separate queries; the admin
   it counted can be gone by then, and a group is left that nobody can administer.
2. The reuse detection of `refreshTokens` deletes the device's tokens inside the transaction that the
   exception after it rolls back.

### What does not hold

These behaviours of the code came up while modelling. The properties exempt them by name; the models
contain each of them.

- A user who joins between `getRecipients` and the second read of the participants is served without
  a status row. If it is offline, the message enters its inbox, `markMessageAsDelivered` throws at
  each drain, and every drain stops there until the inbox expires (`AfterLook`).
- A message is lost in three ways (`missed`): a send emits it to a user whose presence key outlived
  its sockets, because a server stopped or a DEL was rejected, or whose last socket is just closing;
  a drain whose socket has closed emits it there, marks it DELIVERED and removes it from the inbox,
  even with another device connected; the inbox expires. In the first two the sender is told that it
  was delivered.
- `editMessage` updates by id: an edit that passed its check before a deletion writes content into
  the deleted row (`Unaware` in `DeletedIsFrozen`).
- `createConversation`, and every group operation over REST, joins no socket to the room, so until
  they connect again the participants hear no reaction, edit, deletion or group event (`astray`).
- A document is stored in another bucket than the one its message names, so no deletion of a message
  removes it (`IsDocument`). A deletion removes the files that a forward still names (`Shared`).
- Within the second in which a token was signed, a refresh stores the very string it has just taken
  out. A second refresh with that string then finds it, and both succeed: the comment at
  `auth/auth.service.ts:158-159` ("concurrent refreshes can't both succeed with the same token") holds
  only from the next second on (`Exchange` of TokenFamily with `t = n`).
- Whoever lost the answer of a refresh and sends the old token again gets 401 and has to sign in,
  while the token of the lost answer stays stored and the device's others with it (second finding).
- A logout deletes the rows its scan saw: a refresh or a sign-in that overlaps it leaves its token, a
  device that signs in after `logoutAllDevices` has read the devices keeps its session (`disturbed`).
- Two overlapping creations leave two DIRECT conversations; two pins exceed five, and so does, without
  any overlap, leaving a pinned group, pinning another and being added again, as `addMembers` revives
  the row with its pin (`overtaken`).
- Two overlapping requests for a link leave two links; two resets with one link that overlap both
  change the password (`crossed`).
- A page of the list is cut by `updatedAt` and then sorted with the pins first, but its cursor is its
  last item in the second order: a page that ends with a pin skips conversations. `touchConversation`
  takes its date before the update: two overlapping messages may write the older date last, and where
  that happens to the conversation a client has as its cursor, the next page begins further down and
  skips what lies between. A history whose cursor was deleted gives an empty page, so that everything
  older is missed (`walk.passed`).
- A message that arrives while its conversation is being read is hidden from the unread count of the
  list by the `lastReadAt` written after it (`late`). `markAllConversationsAsRead` sets `lastReadAt`
  and leaves the status rows, which `getUnreadCount` counts: the two counts then differ.
- A query, a mail or a command that is rejected after the change was committed answers 500, for an
  address that is verified, a password that is changed or a link that is made and works.
- `registerToken` never finds the row of the device, so a token an app gets between two sign-ins is
  not stored.

### Bounds

Why the bounds are enough. Every hazard here is a race between two requests on the same row, so two
requests in flight show it; the third account of the group runs is the other admin, the outsider, or
the second newcomer. A limit of two makes the group full after one addition. Two devices show every
race over one presence key and one inbox. A second message matters only where order in the inbox
does, which is `delivery_fair` with an inbox limit of 1, so that a drain leaves something behind.
Two seconds tell tokens signed together from tokens signed apart; three rows give a sign-in and two
rotations. Three messages give an original, a copy and a copy of the copy; one key drawn for a file
gives an upload, a forward and a deletion that meet on it, and an image beside a document the two
buckets. Pages of one make every item a cursor, and of three conversations one can stay, one be
pinned and one move to the top. Three messages, on a clock of six with the three conversations, let
two of them overlap in one conversation, so that the older date is written last, or leave one behind
a cursor that is deleted. Of three tokens a device can have one refused, one stored since and
one not yet known. A limit of two and two links let a request be counted, refused and overtaken by a
second link.
Two devices of one account tell the socket a handler was called on from the other one, which
`leaveGroup` forgets; nothing in RoomMembership relates sockets of different accounts but the loop of
one addition. Two DIRECT conversations of one pair are the duplicate, and a limit of one pin is
passed by the second. Symmetry is declared for requests and for DIRECT conversations, never in a run
with a liveness property. `CHECK_DEADLOCK FALSE` is
stated where the bounds stop the system: all messages sent, all rows used, or no group yet and no
request.

Bounds that are not part of the code: `MaxBatch`, `Workers`, `Blockable`, `Sockets`, `ClientOps`,
`MaxClientCalls`, `Faults`, `MaxRows`, `MaxTime`, `MaxTargets`, `Uploads`, `Kinds`, `Files`,
`Messages`, `Ops`, `Directs`, `Groups`, `Walks`, `Views`, `Recipients`, `Tokens`, `MaxLinks`. A
temporary object is put once per key. `Limit`, `Max`, `MaxPinned`, `MaxGroupSize` and `InboxLimit` are
constants of the code with smaller values.

### Properties

*GroupMembership.* `CreatorKeepsGroup`: stale requests never demote or remove the creator before it
leaves. `OverrunBounded`: overlapping additions exceed the limit by at most a batch per other
request; a single one cannot (`IsolatedAddFits`). `IsolatedCreatorLeaveKeepsAdmin`: the race in the
first finding is the only way to lose the last admin through the creator. `BlockKeepsOut`: once an
outsider and a member are blocked and the additions that looked earlier are done, the outsider stays
out.

*MessageDelivery.* `NothingLost`, `QueuedUntilMarked`, `QueuedIsMarked`: a served message is
received, waiting, or lost in one of the three ways above; it leaves the inbox only marked or expired;
without faults it is marked in the end. `SenderToldTruth`, `ReadSticks`: the sender hears nothing
that is not in the status row, and READ is only overwritten by a delivery mark that had seen SENT.
`KeyHasSocket`: a presence key without a socket means a stopped server or a rejected DEL.

*AuthSessions.* `ImplementsTokenFamily`: a refresh takes the token it was sent out of the store in the
step that puts the new one there, whatever requests overlap, and what was exchanged or revoked comes
back after its second only from a request that had signed it by then. `OnlySignInsAdd`: however many
refreshes present one token, within its second too, the device has no more stored tokens than before.
`LoggedOutStaysOut`, `UndisturbedResetRevokes`: what no request overlaps leaves no token.

*MessageLifecycle.* `FilesBacked`, `NoOrphanFiles`: an object a live message names is there, and an
object that is there has a message, a request or a failure to account for it. `LineageIsFlat`: a copy
names the first original. `DeletedIsFrozen`: after the requests that had read it, nothing gives a
deleted message content or copies it.

*RoomMembership.* `MembersHear`, `OutsidersHearNothing`: but for the sockets of `astray`, a
difference between room and participants means a handler on its way; in particular no addition slips
between the user room and the conversation rooms of a socket that connects. `RoomCatchesUp`: the
difference goes away.

*Conversations.* `BlockSilences`: whoever acts after a block opens no conversation with the other
side and sends it nothing, although the other side may delete the conversation between the two reads
of the check. `IsolatedCreateIsFirst`, `IsolatedPinFits`, `IsolatedSendReaches`: what no write
overtakes makes no second conversation, passes no limit and reaches all that take part.

*ConversationList.* `ListWalkComplete`, `HistoryWalkComplete`: what stays is shown, whatever moves,
is pinned or disappears meanwhile, but for the cases above: a page that ends with a pin, a cursor
whose date went back, a history's cursor that was deleted.
`NothingReadUnasked`: a message is READ, or missing from the unread count, only by a read that was
about it, or as described above.

*PushNotifications.* `MutedStaysSilent`: who muted, switched off or left before a notification began
gets none. `WorkingTokenStays`: the removal of refused tokens, which goes by token and comes after
FCM has answered, spares the token stored meanwhile. `NoForeignPush`: a notification reaches only apps
whose row is the user's, whoever signs in meanwhile.

*AccountRequests.* `ImplementsRateWindow` and `CounterEnds`: the middleware is a fixed window, and a
counter without expiry means that a command on this key failed or a server stopped. `OldLinksDie`,
`LinkServesOnce`: a new link is the only one, and a link serves once, unless requests overlapped.
`HonestAnswer`: 200 means that the change was made or the address is unknown, a refusal (400, 401,
404, 429) that nothing was changed, but for an address verified with a code that another request took
meanwhile; 500 and 408 tell nothing.

The type invariants of the modules in section 4 that no run lists are proved there.

### Fairness

`FairSpec` of MessageDelivery, used by `delivery_fair` only, has weak fairness of the steps of a
send, of a connection and of the calls, because the Node event loop runs every continuation whose
I/O has answered; of `SetOffline` for the same reason. Weak fairness of `Connect` and `Disconnect` is
an assumption about the users, not about the code: devices come back, and no connection lasts for
ever. Without it a message queued while the user is connected waits for as long as the connection
lasts (the race between `isUserOnline` and the drain), which the code does not prevent.

`FairSpec` of RoomMembership has weak fairness of `Server(w)`, the continuations of request `w`, for
the same reason as above; `Abandon` stands for the awaits that reject. A disconnection and a
connection need none: a socket that is not settled is not behind.

## 4. Proofs

### GroupMembershipProofs

It holds theorems about every instance of GroupMembership: any finite set of
accounts, any finite set of requests in flight, any size limit of at least two, any pairs that may block.
Assumed are the facts `UsersAssumption`, `SizeAssumption`, `BlockableAssumption`,
`WorkersAssumption` (TLC evaluates them) and what the model's header says of a step.

| Theorem | Statement |
|---|---|
| `TypeCorrect` | `Spec => []TypeOK` |
| `CreatorStays` | `Spec => []CreatorKeepsGroup` |
| `AddsFitWhenIsolated` | `Spec => IsolatedAddFits` |
| `CreatorLeavesAdminWhenIsolated` | `Spec => IsolatedCreatorLeaveKeepsAdmin` |
| `BlockedStayOut` | `Spec => BlockKeepsOut` |
| `OverrunsStayBounded` | `Spec => []OverrunBounded` |

`CreatorKeepsGroup` is not inductive: it says nothing of what requests in flight will write. `IInv`
adds that: while the group is being created no other request runs (`CreationIsAlone`); a group with
a request on it has a row for its creator (`CreatorHasRow`), so an addition that read before can
never "create" it; a role is written only to an existing row (`RoleHasRow`); a removal, a demotion or
a re-addition in flight does not concern the creator unless the creator has left (`CreatorSpared`);
and a request nothing overtook still has a true picture of the size and of the other admins
(`IsolatedReads`). A step is a beginning, a check, a commit or a block: one lemma for each
(`BeginPreserves`, `CheckPreserves`, `CommitPreserves`, `BlockPreserves`), joined in `InvStep`. The
action properties follow from `IInv` at the step in question; `BlockedStayOut` follows from
`StaysAware`, that no request becomes unaware of a block that was there when it looked.

`OverrunBounded` counts a seat `<<w, u>>` for each user `u` that request `w`, past its size check, is
about to add (`Promised`), so that no sum over the requests, and no induction, is needed. A request
that passes its check has counted the members as they are, so its batch fits beside them, and every
other request holds at most `MaxBatch` seats (`BatchesOnly`): their seats number no more than a
product of two intervals (`BatchEach`, `CountedSeats`). Any other step turns seats of its request
into members, or gives them up (`NoNewSeats`).

### ConversationsProofs

For any accounts, conversations, requests, blocks and any limit of pins, from `SelfAssumption`,
`ApartAssumption`, `BlockableAssumption` and `PinnedAssumption`.

| Theorem | Statement |
|---|---|
| `ConversationTypes` | `Spec => []TypeOK` |
| `BlockedAreSilent` | `Spec => BlockSilences` |
| `CreatesAreFirst` | `Spec => IsolatedCreateIsFirst` |
| `PinsFit` | `Spec => IsolatedPinFits` |
| `SendsReach` | `Spec => IsolatedSendReaches` |

`BlockSilences` is about the last step of a chain of five queries; the invariant says how far a
barred request can be (`Held`). Before its block check it is still about the blocked pair. Past it,
it can only be because the look at the conversation found nobody else in it: the other side has left,
and, as no step brings a row of a DIRECT conversation back, `getRecipients` finds nobody either
(`RecipientsBetween`). That takes three more facts: a DIRECT conversation has the rows of two
accounts (`PairsOnly`), a creation concerns one other account (`OneInvited`), and a deletion is of a
row that exists (`DeletesOwn`). `HeldStays` shows that no step of another request disturbs a held
one; there is one lemma for a beginning, one for a check, one for a write, and one for each request
stage that cites them, joined in `NextPreserves`.

The three isolated properties rest on a second layer, `ReadsHold`: what a request that no write
overtook has read is still true (`StillTrue`): the pair of a creation has no conversation, a pin
about to be written has room, the sender of a message takes part, and the recipients read are those
there are. A write ends its request and overtakes all others, so nothing is left to show of them
(`WriteHolds`); a read leaves the rows alone, so only its own result is (`ReadHolds`).

### ConversationListProofs

For any finite sets of conversations and messages, any requests in flight, any size of a page and any
filters, from `FiniteAssumption`, `LimitAssumption`, `NullAssumption` and `ViewsAssumption`.

| Theorem | Statement |
|---|---|
| `NothingIsReadUnasked` | `Spec => []NothingReadUnasked` |
| `ListWalksComplete` | `Spec => []ListWalkComplete` |
| `HistoryWalksComplete` | `Spec => []HistoryWalkComplete` |

A page is the first elements of a set by an order, cut off by counting. The lemmas that come first
are about such sets for any strict total order on a finite set: something comes first (`Extreme`,
from the well-foundedness of the numbers), the first `n` are `n` or all (`FirstFull`) and have
whatever comes before one of them (`FirstClosed`), and there is a last one, the cursor (`LastExists`).
`NewerFirst`, `AboveFirst` and `LaterFirst` bring the three orders of the code under them, which takes
`TimesFit`: no time is still to come, and no two are the same.

The invariant says of a walk what it has behind it: whatever was there from the first page on and has
not moved is seen or passed, or older than where the next page begins (`ListFits`, `HistoryFits`). The
steps of the walk keep that by the facts about pages (`PageFacts`, `HistoryPageFacts`), and when the
date of the cursor has gone back, `ListCursor` puts what lies between in `passed`. All other steps keep
it by `Outside`: a conversation whose date is written, later or earlier, leaves `steady`, and so does
whatever is hidden.
`NothingReadUnasked` needs that what a read has found had come when it looked, and that what came
since is `late` (`ReadsFit`).

### MessageDeliveryProofs

For any recipients, messages, sockets, inbox limit, client calls and faults, from `OwnerAssumption`,
`MembersAssumption`, `InboxLimitAssumption`, `ClientOpsAssumption` and `FaultsAssumption`. `FairSpec`
implies `Spec`, so the theorems hold of it too.

| Theorem | Statement |
|---|---|
| `TypeCorrect` | `Spec => []TypeOK` |
| `NothingIsLost` | `Spec => []NothingLost` |
| `SendersHearTruth` | `Spec => []SenderToldTruth` |
| `KeysHaveSockets` | `Spec => []KeyHasSocket` |
| `ReadsStick` | `Spec => ReadSticks` |
| `QueuedStay` | `Spec => QueuedUntilMarked` |

MessageDelivery has over twenty actions on thirteen variables. `WhoWrites` says once which kinds of
step write which variable; each part of the invariant is then a group of lemmas about the steps that
write its variables. The parts say what is known half-way: a participant is served once (`JobFits`);
an inbox holds what was queued for its user (`InboxFits`); what a drain has fetched was sent, and
past its status row it was received or counted as missed, and is marked before it is removed
(`DrainFits`), whether or not a command of it is rejected; a socket about to set its key is open or
its DEL is still to come (`SocketFits`), so that the key outlives it only by a stopped server or a
rejected DEL; a call writes to rows that are there (`CallFits`); and where a delivery mark on its way
would overwrite READ, the race is on record (`MarksFit`), which is what `ReadSticks` needs. `NothingLost` takes the
longest chain: a message leaves an inbox only by a removal, an expiry or a trim (`LeavesMarked`),
and whoever is newly served has received it, has it queued or is counted as missed
(`ServedSomehow`). `NextPreserves` joins them.

### MessageLifecycleProofs

For any accounts, messages, uploads, files, contents, requests and targets, from `NullAssumption` and
`BoundsAssumption`.

| Theorem | Statement |
|---|---|
| `TypeCorrect` | `Spec => []TypeOK` |
| `ForwardsAreFlat` | `Spec => []LineageIsFlat` |
| `DeletedStaysFrozen` | `Spec => DeletedIsFrozen` |
| `FamiliesShareNoFile` | `Spec => []KeysFit` |
| `FilesStayBacked` | `Spec => []FilesBacked` |
| `StorageHasNoOrphans` | `Spec => []NoOrphanFiles` |

Every operation writes at most one row and one request. `Writes(m, r)` says what a row may become: one
that is there keeps its origin, a new one names nothing or a first original; `Serves(w, r)` that the
request fits the rows as they are now. One lemma for each action shows that it is such a step
(`RowStep`, `RequestStep`); two more that such steps preserve the invariant. `LineageIsFlat` rests on
`RequestFits`: the copy a forward carries still says where its message is from.

The two properties of storage are about all requests at once, so their invariant, `FilesInv`, first
says who can reach an object. The messages forwarded from one first message are a family (`RootOf`);
a family *claims* a key if a message of it names the key or a request on one has read it. `KeysFit`:
a key is claimed by one family at most, and only once drawn; `KeyApart`: what an upload has drawn no
family and no other upload has. A deletion therefore removes objects of its own family only
(`FamiliesShareNoFile`), and the exceptions of `FilesBacked` are enough: `Backed` says it with "is
or has a forward" in place of the names shared today. `CopyFits` says that a deletion removes all that
its message names before it takes the names, which is what `NoOrphanFiles` needs of it, `GotFits` what
an upload has in storage. Each step is one request's: `FilesStep(w, n)` says what it may do to rows,
copies, uploads and storage; one lemma for each action shows that it is such a step, and one for each
part of the invariant that such a step preserves it. TLC found `FilesInv` to hold on the instance of
`message_lifecycle` before it was proved.

### AuthSessionsProofs

For any devices, requests, rows and seconds, from `BoundsAssumption`.

| Theorem | Statement |
|---|---|
| `TypeCorrect` | `Spec => []TypeOK`, which includes that no token is stored twice |
| `TokensAreAFamily` | `Spec => ImplementsTokenFamily` |
| `LoggedOutLast` | `Spec => []LoggedOutStaysOut` |
| `ResetsRevoke` | `Spec => UndisturbedResetRevokes` |
| `OnlySignInsAddTokens` | `Spec => OnlySignInsAdd` |

The invariant has a part for each request: the row a refresh exchanges is its device's, stays while it
is locked, and the new one is the only one with its token (`RefreshFits`); a revocation nothing
disturbed has seen all rows it must take (`RevocationFits`); nothing is issued to a device that is
signed out (`IssueFits`). And one for each pair: two refreshes lock different rows and insert different
tokens (`Apart`). The refinement is about strings: a commit of a refresh is one `Exchange`, which in
the token's second may put back the string it takes out, the issue of a sign-in an `Issue`, deletions
`Revoke`. What a request has signed is in `signing` or `renewing` until it commits or gives up
(`HeldAt`), though another request may hold the same string. All other steps are stutters.
`OnlySignInsAdd` also needs that the stored rows are finitely many (`FiniteRows`), so that a commit,
which takes one and puts one, leaves no more than there were.

### DevicesProofs

The two ways an event reaches the devices of an account.

*The room*, for any accounts, sockets, owners and requests, with or without faults, from `OwnerAssumption`.

| Theorem | Statement |
|---|---|
| `RoomTypes` | `Spec => []TypeOK` |
| `ParticipantsHear` | `Spec => []MembersHear` |
| `OutsidersDoNotHear` | `Spec => []OutsidersHearNothing` |

The two invariants say nothing of a socket whose connection handler is between its read and its
joins, nor of the sockets a group handler has fetched. The inductive invariant replaces "an addition
for the user is pending" by "a request will join this very socket" (`WillJoin`: it has yet to fetch
the user's sockets, or has this one among them; `WillLeave` alike), and asks it of every socket that
is past its read of the participants (`JoinComes`) or in the room (`LeaveComes`). It also needs that
the sockets a request carries belong to the user it serves (`SocksAreTheirs`), that removals and
departures serve one user (`OneToRemove`), and that nobody takes part before the creation
(`NobodyBefore`). There is one lemma for each action, with one step for each conjunct.

*Push notifications*, for any accounts, devices, tokens and requests. The module has an instance of
PushNotifications, `Push`, with variables of its own; each theorem has the assumptions of
PushNotifications, `RecipientsAssumption`, `NullAssumption` and `RowIdAssumption`, as its hypothesis
`PushAssumptions`.

| Theorem | Statement |
|---|---|
| `PushTypes` | `Push!Spec => []Push!TypeOK` |
| `UnwantedIsSilent` | `Push!Spec => Push!MutedStaysSilent` |
| `WorkingTokensStay` | `Push!Spec => Push!WorkingTokenStays` |
| `PushesAreOwn` | `Push!Spec => Push!NoForeignPush` |

All three action properties follow from one invariant about who can hold a token: none is known that
FCM has not handed out (`TokensAreSpent`); one in use belongs to one app, and only the row of that app
can hold it (`OneAppPerToken`); a sign-in carries no token of another app (`SignInsOwn`); what a
notification is about to send to is its user's (`NotifiesOwn`); what is about to be removed is in use
nowhere (`RefusedAreDead`); a notification nobody wants has its check still to come
(`UnwantedAreChecked`).

### AccountRequestsProofs

For any requests, passwords, limit and number of links, from `MaxAssumption`, `BoundsAssumption` and
`NullAssumption`.

| Theorem | Statement |
|---|---|
| `TypeCorrect` | `Spec => []TypeOK` |
| `CountersEnd` | `Spec => []CounterEnds` |
| `AnswersAreHonest` | `Spec => []HonestAnswer` |
| `LimiterIsAWindow` | `Spec => ImplementsRateWindow` |
| `ResetsServeOnce` | `Spec => LinkServesOnce` |
| `OldLinksAreGone` | `Spec => OldLinksDie` |

The invariant is `Sound(w)` for each request: its fields fit its stage (`StageFits`), what it has done
and answered agree (`AnswerFits`), and what it has read still holds or it has been crossed
(`ReadsHold`). `OthersStay` shows that a step disturbs no other request but by crossing it. The
refinement maps INCR to `Admit` or `Refuse`, a failing command to `Bypass`, the expiry to `Roll` and
the end of a request to `Leave`. What a write does to the account is a lemma of its own
(`LinksGoPreserves`, `PasswordResetsPreserves` and the like), cited for the step that succeeds and for
the query that is rejected after it was carried out (`QueryFailsPreserves`).

### Not proved

- Liveness under fairness (`QueuedIsMarked`, `RoomCatchesUp`) and `ENABLED` are out of the prover's
  reach and stay with TLC. Every other property of a passing run is a theorem.

## 5. What is not modelled

- *Reads and single updates*: `updateGroupInfo` (one unconditional update), `getGroupMembers`,
  `getConversationById`, `getMessageById`, search by name and full-text search. They keep no state
  between two queries.
- *State nothing reads for a decision*: typing keys, the conversation cache, the metadata of an upload,
  the `isOnline` column with `presence_changed`. The pub/sub channel `conversation:*`, a literal name
  nothing publishes to. Typing events, which go to a room named by the bare conversation id that no
  socket joins.
- *Time*: refresh tokens expire after thirty days and links after an hour or a day; an expired one is
  like an unknown one. Two conversations updated in one millisecond.
- *Avatars* (`users/users.service.ts`): two confirmations at the same time leave the object of the one
  that is overwritten. Replies. The rows of reactions, kept unique by their key. The uniqueness checks
  of `register`, which the database's keys repeat.
- *Formatting and I/O*: the text of errors, events, notifications and mails, the image, video and audio
  processors, health, metrics, logging, configuration and start-up, the WebSocket exception filter.

## 6. Plan

1. *Done.* The nine models above; the two abstract specifications and the proofs that they are
   implemented; eight modules of proofs, which state every safety property of the passing runs.
2. *DeliveryPromise*: per message and user absent, pending, done or missed, implemented by
   MessageDelivery; and the commits of GroupMembership as the environment of RoomMembership.
3. *Presence*: the `isOnline` column against the key, over the sockets of MessageDelivery.
