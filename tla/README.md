# Tepla: a verification development

TLA+ models of the Tepla messenger, model-checked with TLC and, for the modules
named below, proved with TLAPS. Paths are those of the repository; `MC` stands
for `services/messaging-core-service/src/index.ts`. `PROJECT.json` holds the
machine-readable side: components, runs, the source lines of every definition
(`map`), mutants, findings, hazards and theorems.

    tlc -workers 2 -config Membership_races.cfg MCMembership.tla
    tlc -workers 2 -config Messages_send.cfg MCMessages.tla
    tlc -workers 2 -config Calls.cfg MCCalls.tla
    tlc -workers 2 -config Timeline.cfg MCTimeline.tla
    tlc -workers 2 -config Services.cfg MCServices.tla
    tlapm Membership_proofs.tla
    tlapm Services_proofs.tla

## The system

| Part | State it keeps | Operations | Hard behaviours | What makes it correct |
|---|---|---|---|---|
| `services/messaging-core-service` | PostgreSQL: `chats`, `chat_members`, `chat_bans`, `chat_invites`, `messages`, `files`, `reactions`, `polls`, `chat_folders` | ~55 HTTP routes, each a sequence of `pool.query` calls without a transaction, then a Kafka publish | every two statements of a handler may have any statement of another between them; a handler may stop between any two (`catch`, crash) | counts, ownership, bans and limits survive the races; a retried send is one message; what is committed is announced |
| `services/realtime-service` | socket rooms, a batch of undelivered emits (100 ms), calls in PostgreSQL, presence in Redis, notifications | Kafka consumers, socket events, call routes, heartbeats | emits lost with the process, rooms joined after an async check, call start/join/leave races | every published event reaches the sockets of the members; one live call per chat |
| `services/auth-user-service` | users, sessions, OTP challenges, prekeys, the key-transparency log and its cached Merkle tree | auth, refresh, logout, prekey hand-out, append and proof routes | refresh rotation races, attempts counted after a read, a cached tree that is stale | one refresh token rotates once; a prekey is handed out once; proofs match the published root |
| `services/media-service` | object store, stories, sticker packs | upload, expiry | cleanup against views | little state of its own |
| `services/workers/*` | search buffer and offsets, cleanup cursors; the outbox worker cannot start (its import does not exist) | Kafka consumers, timers | buffered operations lost, offsets committed early | what is committed to the database is searchable |
| `shared/common` | Kafka producer/consumer and DLQ, circuit breaker, caches, limiters, service base | library | at-most-once consumption, half-open probing, window boundaries | limits hold, failures are contained |
| `shared/crypto`, `client/src/lib/security` | X3DH, double ratchet, Merkle proofs; sessions in IndexedDB | encrypt, decrypt, accept | get-mutate-put of a session without a lock, reordered ciphertexts | each message key is used once; both ends agree |
| `client/src/stores/chat-store.ts` | messages per chat, optimistic sends | socket handlers, REST calls | echo before or after the answer, reload during a send, reconnect | every message is shown once, none is lost |
| `wbit-token/contracts` | jetton minter and wallets (FunC) | mint, transfer, burn, bounces | asynchronous messages, bounces | supply = balances + in flight |
| `gateway/api-gateway` | rate-limiter windows | proxying | – | – |
| `src/` (legacy), `client` UI, `supabase/`, `infrastructure/` | – | – | superseded, rendering, deployment | – |

The parts interact through the gateway (HTTP), through Kafka (messaging-core
publishes, realtime and the workers consume; one partition per chat) and through
the shared PostgreSQL database and Redis. The client sees the result twice: as
the answer to its own request and as the socket event that the Kafka event
becomes.

`PROJECT.json` lists all 29 components with their status, and 40 hazards at the
line where each bites.

## Modules

| Module | Models | Status |
|---|---|---|
| `Membership` | the routes that change the members, bans, invite links and `members_count` of a group or channel | checked, proved |
| `MCMembership` | three users, of whom `o` created the chat; symmetry | |
| `Membership_proofs` | eight theorems about `Membership` | |
| `SendOnce` | the abstract idempotent send that migration 007 promises | refined by `Messages` |
| `Messages` | send, forward, edit, delete and pin in one chat, and the events published for it | checked, proved |
| `MCMessages` | instances of `Messages`; symmetry | |
| `Messages_proofs` | eight theorems about `Messages`, among them the refinement | |
| `Calls` | start, join, leave and decline of the calls of one chat, and the ringing of an idle client | checked, proved |
| `MCCalls` | instance of `Calls`; symmetry and a state constraint | |
| `Calls_proofs` | six theorems about `Calls` | |
| `Timeline` | the way of a message from its INSERT over Kafka, the delivery batch and the room to the list of one client | checked, with liveness; safety proved |
| `MCTimeline` | one message of each user | |
| `Timeline_proofs` | one row of each message, and a deleted one stays gone | |
| `Sessions` | token refresh in the client's tabs, rotation and logout in the auth service | checked, proved |
| `MCSessions` | instance of `Sessions` with two tabs | |
| `Sessions_proofs` | with one tab nobody is sent to `/login` without cause and logging out is final; with any number of them a request that waits is answered | |
| `EmailCodes` | the codes that are e-mailed to one address, from `/login` to `/verify-login` | checked, proved |
| `TwoFactor` | the second factor of one account: set up, confirm, use, turn off | checked, proved |
| `Accounts` | registering a username, and the saved-messages chat that two services find or create | checked, proved |
| `Chats` | finding, creating and destroying the chat of two users | checked, proved |
| `Votes` | votes, quiz answers, closing and reactions of one message | checked, proved |
| `Votes_proofs` | answers are what is stored, and events show it | |
| `Presence` | presence of one user in Redis, statement by statement | checked, proved |
| `KeyLog` | the key-transparency log and the cached tree | checked, proved |
| `Ratchet` | the double ratchet and the client's read-change-put around it | checked, proved |
| `MCRatchet` | instance of `Ratchet` with overlapping operations | |
| `Ratchet_proofs` | each message is read once, and keys are fresh unless a state was put back over another | |
| `Jetton` | minter and wallets exchanging messages that bounce | checked, proved |
| `SearchIndex` | the search worker's bulk buffer | checked, proved |
| `MCServices` | one instance of each of the eleven components above it that have no MC module of a passing run; see "The pack" | |
| `Services_proofs` | what `MCServices` promises, of the whole: the theorems about `KeyLog`, `Presence`, `Chats`, `Accounts`, `EmailCodes`, `TwoFactor`, `SearchIndex` and `Jetton`, and those of the modules above carried over | |

### How a handler is modelled

No route of messaging-core opens a transaction, so each `pool.query` commits on
its own. A running request is a record `req[r]` with a program counter `pc` that
names the statement it executes next; each statement is an action named after
what it does (`ReadInvite`, `InsertMember`, `RefreshMembersCount`,
`PublishMemberJoined`, `ReadLast`, `Insert`, ...), with the guard and the early
return of the code. What the handler remembers between two statements is in the
record. `Abort(r)` is a statement or a publish that throws, or the process that
dies, after any statement; `MayAbort` turns it on. `Requests` is the set of slots,
so its size is the number of requests that run at once.

Assumptions of these modules:

- one SQL statement is atomic. Under READ COMMITTED the `UPDATE ... (SELECT
  COUNT(*) ...)` of `refreshMembersCount` (MC:63-70) may take its count before it
  waits for the row lock; that overlap inside PostgreSQL is
  not a behaviour of the model.
- reading a row that nobody changes in the model (the type and slow mode of the
  chat) is no step of its own, and checks that look only at the request body are
  preconditions of `Start...`.

### `Membership`

State: `chat_members` (user -> role), `chat_bans`, `chat_invites`,
`members_count`; history: `unannounced` (the changes that are not yet published
and whose handler has not stopped), `lost` (a handler stopped between its write
and its refresh, and none has refreshed since), `admitted` (link -> the members it has
brought in) and `uncounted` (link -> the joins that stopped between their INSERT and
the UPDATE of `uses`). `uses` is what the code counts, `admitted` what happened;
`InviteOvershootBounded` is about the second: such a stop is a use the link never
counts, and nothing bounds how often it happens but `MaxUncounted`, a bound of the run.
Routes: `POST /groups/:id/members` and `/channels/:id/members` (a loop over ids,
taken in any order), `DELETE` and `PATCH .../members/:userId[/role]`, leave,
`POST /channels/:id/join`, the invite routes, ban and unban. `Expire` is the
passing of `expires_at`. The removal of the owner deletes nothing but still
publishes `MEMBER_LEFT`, as in the code.

### `Messages`

State: `chat_members` and `muted` (changed by the environment actions
`ChangeMember` and `RestrictMember`, which stand for the routes of `Membership`
and for `PATCH .../restrict`), `messages` (id -> row), `log` (the chat's
partition of Kafka: `shared/common/src/kafka.ts:36` publishes with `chatId` as
key, so a partition is a sequence), `now`. History: `answers`, the answers that
sends got. `key` is the `clientMessageId`; `Conflicts` is the partial unique
index of migration 007. A forwarded message comes from another chat, so its
content is arbitrary; the checks on the source chat are left out, the one on the
target is `RequireMember`. `MESSAGE_FORWARDED` is an event type of its own that
all consumers treat like `MESSAGE_SENT`, so `"sent"` stands for both.
`PATCH /messages/:id` really does not look at `chat_members`: a user who left may
still edit, and the model has it so. Not modelled here: reads, delete-for-me,
message TTL, secret-chat envelopes, attachments (the INSERTs into `files` fall
between `Insert` and `Publish`, where `Abort` may strike).

`Rest` is a stuttering step for the states in which the bounds forbid another
request and none runs, so that deadlock stays checked everywhere else.

`SendOnce` has three actions: `Accept` stores a message for a key that has none,
`Announce` publishes a stored message that was never announced and answers its
send, `Answer` repeats the answer. `Messages` implements it under
`accepted <- Accepted` (sender, key and id of each row) and `announced <-
TimesAnnounced` (the number of `"sent"` events of each id).

### `Calls`

State: `calls` (id -> status and `is_group`), `call_participants` (id -> the users
whose row has `left_at` NULL), `chat_members`. `req[r].seen` is what a handler read
of its call at the start and goes by afterwards: `updateCallStatus` writes whatever
the status is by then, so an ended call may become active again, and two starts may
both find no live call. The model keeps these races; the properties bound them.
`incomingCall` is what the client of an idle member shows once it has every event
(`call:incoming` and `call:ended` of `client/src/stores/chat-store.ts:856-871`;
CALL events are keyed by chat, so they arrive in the order of their publishing).
History: `overtaken` (calls whose CALL_ENDED was published before CALL_STARTED, which
is possible because `/start` and `/chat/:chatId/active` show the row before the
event is out) and `stopped` (calls of which a handler stopped half-way). `toggle`
only forwards a signal and the LiveKit token is opaque: both are left out.

### `Timeline`

Composes four parts that hand a message on: the route (`Insert`, `Publish`), Kafka
(`partition`, one for the chat: the payload of every event about a message has the
`chatId` that `kafka.ts:40` takes as key), realtime-service (`Consume` into
`emitQueue`, `FlushEmitQueue` to the room, `Crash` with the uncommitted events
consumed again) and the chat store of the user `Me` (`SendMessage`, `SendAnswered`,
`SendFailed`, `Receive`, `Ask`/`Serve`/`Apply` of the history, `Disconnect`,
`Connect`). A lost socket has `RECONNECTION_ATTEMPTS` attempts to come back
(`lib/socket.ts:13`), of which each may find no server (`ConnectFails`); a refused
handshake, whose token is the one `connectSocket` was called with, ends them at once
(`Refused`), since socket.io does not repeat what a middleware refused. A history
request is answered with the newest `Limit` rows (`Page`; `loadMessages` asks for 50 and
for no cursor), so what was missed before them stays off the list until the user scrolls
back. `list` is the screen. A row keeps its temporary id until it is `sent`,
and `pendingMessages` holds the ids whose echo is to be dropped, as in
`chat-store.ts:645-691`. `wire` is the socket: in order, lost with the connection.
History variables name the ways in which the code really loses or repeats a row:
`again` (events consumed twice after a crash), `overlapped` (a history answer
brought a message whose announcement was still on its way), `dropped` (a history
answer replaced the list while an own row in it had not been stored yet). Taking one
of these excuses out of a property makes TLC find the case. `gone` counts a deletion
only once the message's own POST is answered: an admin may delete a message whose
sender has no answer yet, and when message:deleted is handled first it finds only
the optimistic row, under its temporary id, which the answer then turns into a
`sent` row of a deleted message.

### `Sessions`

Tokens come in pairs; pair `p` is issued by the `p - 1`-th refresh. A request that meets a
401 joins the tab's shared refresh or starts one (`Denied`, `StartRefresh`) and is
retried once; `POST /refresh` reads, deletes and stores in three steps; `POST
/logout` deletes the session and then revokes the access token. `crossed` says that
a refresh had read the session before a logout deleted it: such a session survives.
`disturbed` says that an answer was lost, a handler failed or a page was reloaded.

### `EmailCodes` and `TwoFactor`

`EmailCodes`: Redis has one code for an address, with its purpose and the wrong entries.
`storeAndSendEmailOtp` reads the cooldown, stores the code, sets the cooldown and sends
the mail in four steps, and `/resend-code` decides before them what the code is for. The
Lua script that redeems a code is one step (`Enter`); an entry it refuses may be tried
again. `flow` is what the latest answer of `/login` asked for, and so the route at which
the client enters a code. `CodeWorksOnce` names the three ways in which the code of the
newest mail is not the one in Redis: two sends overlapped; a code was stored whose mail
is not there; or a resend renewed the code in Redis, which was that of a login that
failed or of one of two overlapping logins while the address was being verified, and
the other flow is the one `/login` asked for. (It was the proof of `NewestCodeWorks` that
asked for the overlapping logins to be named.) The
deployment demands codes (`shouldRequireEmailOtp`); `is_verified` and the second factor
start either way, and so does the hourly count, at its limit or at 0.

`TwoFactor`: `saveTotpSecret` is refused by a read that precedes it; `verifyTotp` marks
whatever row there is and then the settings (a database made from
`supabase/schema.sql` has the column, see Findings for the other). A confirmation notes
whether a setup or a disable past its read ran beside it: that is the only excuse of
`FactorAsConfirmed`, handlers that stop half-way are none. `MaySetup`, the
guard, is what makes it hold. The user's authenticator has the secret it was shown last, and a
code is a time step of it; `totp_used` keeps the steps.

### `Accounts` and `Chats`

A request is the name of the row it creates. `Accounts!Selected` is where the two
services differ: `getOrCreateSavedMessages` also takes a chat of which the user is
the creator, `ensureSavedChat` wants the row in `chat_members`. A creation that is
cut short between its two INSERTs therefore leaves a chat that auth-user-service
answers with for good while GET `/chats` creates another. `Chats` has the same two
statements for direct and secret chats; there half a chat is found by nobody. Both
keep what a request could see when it looked (`before`, `complete`), so that the
properties can say which duplicates a race excuses.

### `Votes` and `Presence`

`Votes`: `findPoll`, the look for a quiz answer, the upsert, the two counts and the
publish are separate steps (`POST /reactions`: look, write, count, publish). `told`
is what the users were answered, `announced` what the latest event says. Retracting a
vote publishes nothing and does not ask for `closes_at`. A vote that read the open
poll before it was closed announces it as open again: the event carries the row as it
was read (MC:1467). `Presence`: SISMEMBER, the pipeline and the publish of
`setOnline` and `setOffline`, the heartbeat's SETEX and its `ensureOnline`, which puts
an absent user back without an event, and the checker that lists the online users
and then asks for each heartbeat.

### `KeyLog`, `Ratchet`, `Jetton`, `SearchIndex`

`KeyLog`: a tree is its number of leaves. A reader reads its entry, joins the rebuild
under way or starts one; `/publish` inserts and then invalidates. A rebuild that read
the leaves before an INSERT and ends after the invalidation is cached all the same
(`straddled` keeps the rows that such a rebuild lacks). One that cannot read the leaves
fails, and with it everyone who joined (`FailBuild`). Whether a reader may miss its row is
decided when it takes a tree or joins a rebuild: its publish is then still before
`invalidateTree`, or the tree is a cached one and the row straddled. For who joins a
rebuild the second is no excuse: `invalidateTree` makes it start another, and
`TreeHasEntry` fails when only the cached tree is dropped (`InvalidateCache`). `leaf_index` is a SERIAL that starts at 1 and is used as an index that
starts at 0 (kt.routes.ts:147); the model counts rows and does not hash.

`Ratchet`: cryptography is symbolic (an output of Diffie-Hellman is the set of two
key pairs, a root key the sequence of outputs), the state, the DH step, the skipped
keys and their eviction are those of `ratchet.ts`. Each client reads its stored state,
changes a copy and puts it back; with two `Slots` these overlap. Messages are lost,
reordered and repeated. The initial state is that after `startSession` and
`acceptSession`, which the server's check of the key format keeps apart today
(e2e.routes.ts:125 wants a base64 key of 32 bytes, e2eeSession.ts:91 sends 128 hex digits).

`Jetton`: `messages` is a set, so the chain may deliver in any order; any handler may
throw, which turns the message into a bounced one (`external` in the map: that is TON,
not this code). A bounced mint stays in `total_supply`, which the minter's empty
bounce handler does; `lost` counts it.

`SearchIndex`: the script of events, the buffer and the bulk writes under way. Of a
bulk write any part may be carried out: single operations fail, are logged and dropped
(search-worker:49-51), the whole write may fail, and its answer may be lost after the
write (62-64). All of this is `EndBulk` with the operations `carried` out; the others are
`lost`. Elasticsearch's client makes an attempt that failed or timed out again, up to
`MAX_RETRIES` times (`RetryBulk`), and what the earlier attempt had carried out is then in
the index twice, since the documents have no identifiers of ours: `unanswered` counts
these. `SendsIndexedOnce` is an equation, so that a document too many or too few that is
not one of these cases breaks it. The
worker turns automatic commits off and commits what `pendingOffsets` holds, which
nothing fills: no offset is committed, and "will retry on restart"
(search-worker:63) does not happen. `MESSAGE_SENT` carries `id` and not
`messageId`, so the documents get identifiers of Elasticsearch's own, and the
update and the deletion of a message name none of them.

### The pack

`MCServices` model-checks eleven components in one run: `Sessions` (one tab), `Ratchet`
(two operations of a side may overlap), `KeyLog`, `Jetton`, `Chats`, `SearchIndex`,
`Votes`, `Presence`, `Accounts`, `EmailCodes` and `TwoFactor`. They share no state, so there is nothing to
interleave: `component` is chosen in `Init`, the behaviour is one of that
specification, and the variables of the others are blank. The properties of the
run are those of the components under the same names; `BallotHolds` joins `AnswersHold`
and `AnnouncedIsStored` of `Votes`. Everything that bounds the instance is a constant
(the requests, `MAX_SKIP`, `MAX_ATTEMPTS`, `HOURLY_LIMIT`, `BULK_MAX_SIZE`, the script
of search events, the amounts, and the limits whose names start with `Max`), so that
the theorems of `Services_proofs` speak of all their values under `ServicesAssumption`:
the names for "no request" are no request, there are finitely many users and at least
one, there is at least one pair of tokens, a bulk has room for an event, the two parties
of a secret chat differ, and the bounds are natural numbers.

## Runs

Every passing run exhausts its state space. Deadlock is checked in the runs of
`Membership`, `Messages` and `Calls`; in the others the requests of the instance are
finite and the system comes to rest when they are answered.

| Run | Question | Bounds | Result |
|---|---|---|---|
| `Membership_races` | is the creator the only owner, do only owners change roles, is every change about to be published, does a ban keep the user out? | 3 users, 2 requests, routes addGroup, setRole, leave, ban | holds |
| `Membership_invites` | is `members_count` exact when nobody is between write and refresh; by how many members, and by which roads, does a link exceed its limit; does a dead link admit anyone new? | 3 users, 2 requests, 1 link with a limit of 1, aborts, at most 1 of them a join that never counts its use (`MaxUncounted`), the other seven routes but the channel upsert | holds |
| `Membership_roles_v` | "Only the owner can change roles" (MC:444) | adding to groups and channels, setRole | violated: the upsert of MC:556 |
| `Messages_send` | does sending implement `SendOnce`, while members are removed, restricted and slowed? | 2 users, 2 requests, 2 messages, 1 key, clock to 2, slow mode 1, aborts | holds |
| `Messages_changes` | does what was answered come to be announced, do the events account for the rows, is a deletion final? | 2 users, 2 requests, 1 message, 2 texts, 5 events, all routes, fair handlers, no aborts | holds |
| `Messages_swallow_v` | "at-least-once Kafka delivery for DB-committed events" (init.sql:218) | as `Messages_send` | violated: a retry is answered, the event never published |
| `Messages_order_v` | "per-chat ordering" (kafka.ts:38) | two requests, edits and pins | violated: commit order is not publish order |
| `Calls` | does a live call have participants, does a client ring only for live calls, are second calls, overfull calls and outsiders bounded by the requests that raced? | 2 users, 2 calls, 2 requests, capacity 1, aborts, members change | holds |
| `Timeline` | is a message shown once, does a deleted one stay away, does what is announced, or was missed while offline and is in the newest page, arrive? | one message of each user, both deletable, 1 fault (restart, disconnect or deletion), 2 attempts to reconnect, pages of 1 row | holds, with liveness |
| `Services` | the pack: needless logins, sessions after logout, readable messages, trees with their entries, conservation, one chat of two users, one document per message, answered votes, announced polls and presence, one saved chat, the code of the newest mail, the second factor as confirmed | 2 or 3 requests of each kind, 4 pairs of tokens, 4 messages with `MAX_SKIP` 1, 3 rebuilds, 4 jetton operations of 1 or 2 tokens, 5 search events with batches of 2 and 1 retry of each, 2 logins and 1 resend, an hourly limit of 1, 1 wrong entry, 3 secrets and 2 time steps, 1 or 2 faults | holds |
| `Sessions_tabs_v` | "exactly one rotation happens per expiry" (api.ts:16) | 2 tabs, 2 requests each, no faults | violated: each tab has a promise of its own |
| `Ratchet_race_v` | "every message is encrypted with a fresh one-time key" (ratchet.ts:5) | 2 operations at once, 2 messages | violated: both read the same state |

Why these bounds are enough to be interesting: every race in these handlers is
between two requests (check and act on one side, a write on the other), so two
slots reach each of them; three users are the owner, an actor and a target; two
users with one key let a retry race its original and check that keys are per
sender; the clock passes the slow-mode window twice; capacity 1 is the smallest
that a second join overfills. `MaxLog`, `Ids`, `MaxTime` and `CallIds` bound the
history; `RoomInLog`, `RoomForRows` and the guard of `Calls!Start` keep a request
from starting unless its effects fit, so no handler is cut short by a bound. In
`Calls`, the constraint `Bound` of `MCCalls` explores the changes of membership and
the stopped handlers one at a time and with a single call, and the races of two
calls without them; the theorems have no such bound.

In `Timeline` two messages of different users give an echo and another user's
message in one partition, and one fault (a restart, a lost socket or a deletion) is
enough for every excuse but one to be needed: that a deleted message may come back
when its announcement is consumed twice takes a deletion and a restart. Two attempts to
reconnect let the second succeed after a first that fails, and fail as well; a page of
one row is the smallest that leaves one of two messages out. With
`MaxFaults` 2 TLC finds that case too, but does not finish in minutes. In the pack, three requests let two race while a third sees the result; `MAX_SKIP` 1 and
batches of 2 make both limits reachable; four jetton operations are a mint, a
transfer, a burn and one more that overtakes.

The properties about checks that are read before a write
(`BannedStaysOut`, `DeadInviteAdmitsNobody`, `SilencedStaySilent`, `SlowModeHolds`,
`NoFurtherCall`, `OutsidersStayOut`) have one form. The code checks and acts in two
statements, so the plain promise ("a banned user is no member") is broken by a race
of two requests. What the code does keep is that from the moment the condition
changes, only requests already past their check can still act: the number of what
has happened plus the number of requests past the check never grows. Each such
property therefore says how far the race can go, and fails when a check is dropped
or weakened. `SilencedStaySilent` and `SlowModeHolds` are about `POST /messages`:
`POST /messages/forward` checks membership only (MC:943), and is kept out of that run.

Fairness. `FairSpec` asks weak fairness of each running request's next statement:
Node runs the continuation of a settled promise, and the queries of `pg` and the
sends of `kafkajs` settle. It asks nothing of users (no request need arrive) and
is used without `Abort`, since a process that died runs nothing.
`Timeline!Fairness` is weak fairness of the consumer loop, of the batch
timer, of the socket's delivery, of an attempt of socket.io to reconnect while it has
any left, whichever way the attempt ends (`Connect`, `ConnectFails` and `Refused`
together: none of them need ever be the one), of the join that follows a connection, of
the answer of a history request or its failure (`Serve` and `LoadFails` together), and of
applying the answer. Nobody has to send. The liveness properties say what is then owed,
and allow for a client whose socket.io has given up (`GaveUp`) and for a failed history
request, neither of which anything repeats: the user has to reload the page.

## Proofs

All constants are arbitrary up to the named assumptions (`ConstantsAssumption`,
`ServicesAssumption`): any users, any number of concurrent requests, any links, messages
and limits. An assumption of a single theorem stands in its statement. Every safety
property that a passing run checks, invariant or action property, is stated by a theorem;
`PROJECT.json` "theorems" pairs them.

The properties about checks that are read before a write are proved as they are stated:
in a step, what has happened and the requests past the check change together. Only the
request that takes the step can enter or leave the set of those past the check
(`OthersKept` keeps the rest), so the proof is one of
cardinalities, a step at a time; what has to be invariant is only that the sets are
of the right rows.

`Membership_proofs`

- `TypeCorrect`: `Spec => []TypeOK`.
- `CountIsExact`: `Spec => []CountExact`. `CountExact` is nearly inductive; it
  needs `ControlOK` (a request is at a statement of its own route), because a
  handler that finishes must be known to have refreshed.
- `OwnershipHolds`, `RolesByOwner`: without the channel upsert route, the creator
  is the only owner for ever and a role changes only by a request of the owner.
  `Membership_roles_v` shows that the assumption is needed. The strengthening
  `OwnerChecked` says what a request knows about the owner when
  it comes to its write: a ban or a leave that is about to delete does not target
  the creator, a request about to change a role acts for the creator, and a ban
  that read the creator's role read "owner". It is inductive only together with
  `Ownership`, since what was read earlier is still true because ownership never
  moves.
- `AnnouncementsOwed`: `Spec => []NoLostAnnouncement`, for any routes and with aborts.
  It is inductive with `TypeOK` and `ControlOK`.
- `DeadLinkAdmitsNobody`, `InviteOvershoot`: a link that is full, expired or revoked
  stays so and admits only those past its check; a link brings in more than its limit
  by fewer members than requests run, and by one more for each join that stopped before
  it counted its use. The second rests on two facts: the uses of a link and the joins that
  hold it stay within the limit and the requests (`UsesBounded`), and every member it
  brought in is a use it counted, one about to be counted, or one that never will be
  (`AdmissionsCounted`). `LinksHeld` says that a held link was created and that a code
  nobody created counts no use.
- `BansHold`: `Spec => BannedStaysOut`.

`Messages_proofs`

- `TypeCorrect`: `Spec => []TypeOK`.
- `SendingInvariant`: `SendInv`, four facts about the window between an INSERT and
  its publish. A handler about to announce a message stored that row under its own
  sender and key, nobody has announced it and no other handler is about to
  (`SendersOwnMessage`); announcements are of stored rows; answers are of stored
  rows; the unique index holds (`OneMessagePerKey`). `AnswersAgree` alone is not
  inductive: that a late answer of the first handler agrees with the duplicate's
  depends on the row and the handler's memory naming the same message.
- `AnswersAlwaysAgree`: `Spec => []AnswersAgree`.
- `SendOnceImplemented`: `Spec => ImplementsSendOnce`. `StepCases` sorts the steps:
  a step is quiet (rows keep their identity, no announcement, no answer), or an
  INSERT (`Accept`), a duplicate's answer (`Answer`) or the publish of a new
  message (`Announce`).
- `DeletingIsFinal`: `Spec => DeletedIsFinal`. An INSERT must not meet the row of a
  deleted message, and an edit or a pin must have found its row: `ChangesOfRows`.
- `SilenceHolds`, `SlowModeIsKept`: for any routes but forwarding, which checks neither
  (MC:943); `RowsOfThePast` says that no row is newer than the clock.
- `LogAccounts`: `Spec => []LogAccountsForRows` if handlers run to their end
  (`~MayAbort`; `Messages_swallow_v` shows what an abort does). The property speaks of
  quiet states only; its inductive form `EventsAccount` counts an event from the write
  that owes it, published or not, with the content in an event or on its way into one.

`Calls_proofs`

- `TypeCorrect`: `Spec => []TypeOK`.
- `LiveCallsTended`: `Spec => []LiveCallHasParticipants`, which is inductive with
  `TypeOK`: `OneCall` is the case of a step that changes one call.
- `RingsForLiveCalls`: `Spec => []RingsForLiveCall`. The strengthening `RingOK`
  speaks also of a call that is about to ring (its CALL_STARTED is not out yet), and
  `ControlOK` says which statements belong to which route, so that only a start
  announces a start.
- `CapacityOvershoot`: `Spec => []CapacityOvershootBounded`. `RowsRead` says that a
  request past its read knows its call as it is; a call never changes its kind.
- `NoFurtherCalls`: `Spec => NoFurtherCall`. The calls that a late join may bring back to
  life count as live (`Reviving`); `SeenRinging` says that only a join does that.
- `OutsidersEnterNoCall`: `Spec => OutsidersStayOut`.

`Timeline_proofs`

- `TimelineTyped`: `Spec => []TypeOK`, from `Typed`.
- `OneRowEach`: `Spec => []ShownOnce`; `GoneIsGone`: `Spec => []DeletedStaysGone`; for
  any messages, any number of history requests and any number of faults. `QInv` follows
  the announcements through Kafka, the consumed but uncommitted events, the batch and the
  socket: the one of a message is in one place, and ahead of that of its deletion. `LInv`
  follows the rows: a row that is shown as sent before its announcement came has its id
  remembered in `pendingMessages`; what is in a history answer is stored. Two facts that
  were not plain before the proof asked for them: the order of "new" and "deleted" holds
  only for a deletion that found its message announced, and a history answer that is
  still out may bring a row back. That a filter over a sequence (`Without`) keeps the
  order of what it leaves is proved from the least counterexample (`LeastNat`), as
  induction with an operator is not to be had.

`Sessions_proofs`

- `NoBounceWithOneTab`: `Spec => []NoNeedlessBounce` for one tab (`OneTab`) and at
  least one pair of tokens. The invariant relates four places a refresh token can be
  (the cookie, the handler, Redis, the answer): undisturbed, at most one refresh is
  under way, and it holds the only session. `Sessions_tabs_v` shows that the
  assumption is needed.
- `LogoutIsFinalWithOneTab`: `Spec => []LoggedOutStaysOut` for one tab. Before the
  logout the one session is the cookie's, or that of the refresh which rotates it
  (`OneSession`); afterwards no refresh has read a session and no access token is
  accepted that the tab holds (`Leaving`).
- `WaitersAreAnswered`: `Spec => []TypeOK` for any number of tabs. The last conjunct of
  `TypeOK` says that a request which waits has a refresh under way that will answer it
  (`api.ts` clears its shared promise when it settles); `InFlight` is what it rests on.

`Votes_proofs`, for finitely many users (`UsersFinite`)

- `AnswersAreStored`: `Spec => []AnswersHold`. Of each user the invariant has one writer
  between write and answer
  (`OneWriter`); what that writer stored and what others were told
  (`VoteHolds`, `VoteWritten`, `ReactionHolds`); and what is still true of what was
  read (`QuizUnanswered`, `ReactionRead`). `Moves`, `AnswerKeeps`, `WritePollKeeps`,
  `ToggleKeeps` and `StopKeeps` are the kinds of steps.
- `EventsAreTrue`: `Spec => []AnnouncedIsStored`. A request that has been alone since it
  began is the only one under way (`AloneIsAlone`), so what it read and counted is what
  is stored (`AloneIsCurrent`).

`Ratchet_proofs`, for two parties and natural `MAX_SKIP` and `MaxSent`

- `MessagesAreReadOnce`: `Spec => []ReadOnArrivalOnly`: whatever is lost, delayed,
  reordered or repeated, the first delivery of a message recovers its text and no later
  one does, unless its key was evicted or a state was put back over another (`raced`).
- `KeysAreFresh`: no two messages have one key until then. With the violated run
  `Ratchet_race_v` this says that the unlocked read-change-put is all that reuses a key.
- `CacheIsBounded`: `Spec => []TypeOK`, also after a race: the cache has at most
  `MAX_SKIP` keys, and a text is recovered at most once for each delivery.

The invariant `RInv` writes the two clients in closed form. The root keys form one
ladder (`Ladder`): every new key pair goes up one rung, which is the chain of that key
pair, so a state is told by the number of its key pairs but for its counts and its cache
(`Shape`). `LettersOK` says what is in a message, `InStep` that the parties take turns
going up, `Delivered` that the key of a message which the receiver's chain is past is in
the cache, was used or was evicted, and `OpsSound` what an operation read. `Decrypts`
has the five cases of `ratchetDecrypt`.

`Services_proofs`: what `MCServices` promises, of the whole. For each of the eight
small components there is an invariant and a lemma per action:

| Theorem | Property | Invariant and its argument |
|---|---|---|
| `PresenceIsAnnounced` | `AnnouncedPresence` | a change is announced or its call is still going to (`ToldOrTelling`); a call that is alone acts on what is so |
| `ProofsHaveEntries` | `TreeHasEntry` | of a row no publish of which is under way: the rebuild that requests join has not read the leaves or has the row's (`BuildsKnow`), what a reader joined has it or the reader came too early (`WaitersServed`), and a cached tree has it unless the row is `straddled` (`CacheKnows`) |
| `FactorStaysOn` | `FactorAsConfirmed` | a confirmation that no change ran into holds the row it read (`Undisturbed`); what is confirmed is on and nobody is about to replace it (`Confirmed`); an accepted step is used up (`CodesOnce`) |
| `SavedChatIsOne` | `OneSavedChat` | who creates without company is the only one and found nothing (`CreatesAlone`); who answers found the first chat (`FoundFirst`) |
| `NewestCodeWorks` | `CodeWorksOnce` | an undisturbed send has its code in Redis until it is mailed (`OwnCode`); as long as all went calmly the code is for the flow `/login` asked for (`Followed`) |
| `SendsAreOnce` | `SendsIndexedOnce` | a message is a document, or in the buffer, or in one bulk, or lost, and otherwise a document of an unanswered attempt (`InOnePlace`); what such attempts left and the retries a write still has stay within `MAX_RETRIES` together (`RetriesLeft`) |
| `SupplyIsCounted` | `Conserved` | amounts are numbered tokens, so a sum over wallets and messages is the cardinality of a set, to which the facts on finite sets apply; a step moves tokens from one holder to another |
| `ChatIsFoundOrCreated` | `FindOrCreate` | how far a creation has come tells which rows there are (`OpeningProgress`); who inserts a chat has found none |
| `RebuildsAreComing` | `KeyLog!TypeOK` | whoever joins a rebuild joins one that is coming (`TreeComes`) |
| `ResendsAreLimited` | `EmailCodes!ResendsLimited` | a step takes at most one resend out of those past the check as it counts it, and lets one in only below the limit (`PassedOrCounted`) |
| `BallotStands`, `SecretsAreReadOnce`, `NobodyIsBounced`, `LoggingOutIsFinal` | `BallotHolds`, `ReadOnArrivalOnly`, `NoNeedlessBounce`, `LoggedOutStaysOut` | the theorems of `Votes_proofs`, `Ratchet_proofs` and `Sessions_proofs` with the constants of the pack |
| `EverythingIsTyped` | `TypeOK` | all of the above: the types also say that no request waits for nothing and what no count may pass |

What holds of a component holds of the whole because `component` stays
(`ComponentStays`) and a step of the whole is one of that component. `BallotProved`,
`SecretProved` and `LoginProved` are instances of the proof modules;
`BallotSame`, `SecretSame` and `LoginSame` say that they define what the instances of
`MCServices` do.

`ResendsLimited` is proved only; no run has it among its properties.

Only model-checked: the liveness properties `AnsweredGetsAnnounced`,
`AnnouncedIsShown` and `OfflineMessagesAppear`, since liveness under fairness (ENABLED)
is beyond the prover. The assumptions that narrow a theorem leave out what the code does
not keep: `Ownership` with the channel upsert (`Membership_roles_v`), muting and slow
mode with forwards, `LogAccountsForRows` with aborts (`Messages_swallow_v`), needless
logins with more tabs than one (`Sessions_tabs_v`). Of `LoggedOutStaysOut` with more
tabs nothing is said.

## Findings

Each `_v` run is a disagreement between the code and its own comment, message or
schema note; `PROJECT.json` "findings" quotes the line. The channel upsert lets
admins change roles and demote the owner; a committed change whose handler stops
before the publish is never announced, and a retry hides it; two edits or pins may
be published in the other order than they were committed in.

Read off the code while modelling, and visible in the models as behaviours that the
properties allow or leave out: invite limits, bans, slow mode, capacity and the
live-call check are check-then-act; slow mode refuses the retry of the very message
it counts (MC:836 precedes the deduplication); forwarding bypasses the channel, mute
and slow-mode checks; an ended or declined call comes back to life through a join
that read it ringing; a handler that stops after creating a call, or a participant
whose client vanishes or who is removed from the chat (and may then not leave the
call any more), keeps the call live, and every later start of the chat is answered
with it.

In the other modules: two tabs rotate the same refresh token; two quick messages are
sealed with one key. A creation of the saved chat that is cut short splits the two
services for good (`OneSavedChat` excuses it); a vote cast while its poll is closed
announces the poll as open (`AnnouncedIsStored` excuses it); a heartbeat puts a user
back online without an event (`AnnouncedPresence` excuses it); a reloaded list drops
an own message whose POST is still out. Also read off the code, outside the models:
`poll_votes` of init.sql has `option_index` in its primary key while migration 011
creates another table of that name only if there is none; `chats.type` of init.sql:59
does not allow `secret`, which migration 012 does not change, so that the INSERT of
`POST /secret-chats` fails on that schema; `user_settings` of init.sql has no
`two_factor_enabled`, so that the second UPDATE of `verifyTotp` fails after the first
has committed; the outbox worker imports a file that is not there. The client uploads its
keys in hex where the server wants base64, and `ensureIdentity` returns the stored identity
before it would upload again, although "if an upload fails we can retry"
(e2eeSession.ts:83).

## Not modelled

- Media, stories and stickers: object-store I/O around single-statement writes.
- Folders, statistics, archive, notifications, profiles: one user's own rows, one
  statement each.
- Passwords, phone codes, backup codes, the binary shield, the PIN, the limits on
  attempts and the device checks of sign-in.
- Prekeys: the only client's registration is refused by the server (see `Ratchet`), so
  nothing of the program comes after it; handing one out is one atomic UPDATE with SKIP
  LOCKED.
- Hashing and proof verification of the Merkle tree, X3DH: sequential computations
  with unit tests of their own.
- The circuit breaker, HTTP client, sliding-window limiter, spam detection and
  `kafka-dlq`: exported and used by no service.
- The limiters in front of the routes: a counter with an expiry each.
- The legacy monolith (answers 410, docs/AUDIT_TODO.md M-16), the user interface,
  deployment.
- The overlap of two statements inside PostgreSQL (the COUNT(*) and the row lock of MC:66), and
  the failure of a single Kafka handler, which is logged and forgotten.

What would come next: typing indicators, read receipts and the edits of `Timeline`; the
creation of groups and channels in `Membership`; `SilenceHolds` and `SlowModeIsKept` with
the forwards counted.
