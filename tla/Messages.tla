------------------------------- MODULE Messages -------------------------------
(***************************************************************************)
(* The messages of one chat, as messaging-core-service stores them and     *)
(* publishes their events (services/messaging-core-service/src/index.ts):  *)
(* POST /messages, POST /messages/forward, PATCH and DELETE /messages/:id, *)
(* PATCH /messages/:id/pin.                                                *)
(*                                                                         *)
(* As in Membership, each statement of a handler commits on its own, the   *)
(* statements of concurrent requests interleave, and a handler may stop    *)
(* between two of them.  log is the Kafka partition of the chat: every     *)
(* event is published with chatId as its key (shared/common/src/kafka.ts). *)
(***************************************************************************)
EXTENDS Naturals, Sequences, FiniteSets

CONSTANTS
    Users,          \* the users of the service
    InitialRole,    \* the chat's members at the start: user -> role, or "none"
    RoleChanges,    \* the roles that Membership's routes may give to a user meanwhile
    Requests,       \* request slots: how many requests may run concurrently
    Ids,            \* messages; bounds how many are ever stored
    Keys,           \* clientMessageIds
    NoKey,          \* a send without clientMessageId
    Texts,          \* contents of messages
    ChatType,       \* chats.type
    SlowMode,       \* chats.slow_mode_seconds
    MaxTime,        \* bounds the clock
    MaxLog,         \* bounds the events of the chat
    Routes,         \* the routes requests are sent to
    MayAbort        \* whether a handler may stop between two statements

Roles      == {"admin", "member"}       \* "admin" stands for the owner too
AllRoutes  == {"send", "forward", "edit", "delete", "pin"}
ChatTypes  == {"direct", "group", "channel"}

ASSUME ConstantsAssumption ==
    /\ InitialRole \in [Users -> Roles \cup {"none"}]
    /\ RoleChanges \subseteq Roles \cup {"none"}
    /\ NoKey \notin Keys
    /\ Ids # {} /\ Texts # {} /\ Users # {}
    /\ IsFiniteSet(Ids) /\ IsFiniteSet(Requests)
    /\ ChatType \in ChatTypes
    /\ SlowMode \in Nat /\ MaxTime \in Nat /\ MaxLog \in Nat
    /\ Routes \subseteq AllRoutes
    /\ MayAbort \in BOOLEAN

VARIABLES
    chat_members,   \* user -> role, or "none"
    muted,          \* the members whose muted_until lies in the future
    messages,       \* the rows of messages: id -> row
    log,            \* the events published for the chat
    req,            \* the control state of each request
    answers,        \* history: the answers of sends and forwards: <<sender, key, id>>
    now             \* the clock, in seconds

rows == <<chat_members, muted, messages>>
vars == <<chat_members, muted, messages, log, req, answers, now>>

AnyUser == CHOOSE u \in Users : TRUE
AnyText == CHOOSE t \in Texts : TRUE
AnyId   == CHOOSE i \in Ids : TRUE

Row == [exists : BOOLEAN, sender : Users, key : Keys \cup {NoKey}, content : Texts,
        deleted : BOOLEAN, pinned : BOOLEAN, at : Nat]

NoRow == [exists |-> FALSE, sender |-> AnyUser, key |-> NoKey, content |-> AnyText,
          deleted |-> FALSE, pinned |-> FALSE, at |-> 0]

EventTypes == {"sent", "edited", "deleted", "pinned", "unpinned"}
Event      == [type : EventTypes, id : Ids, content : Texts]

Statements == {"idle", "requireMember", "requireAdmin", "readMe", "readLast", "readMessage",
               "insert", "readExisting", "update", "publish"}

Request == [pc : Statements, route : AllRoutes, actor : Users, id : Ids,
            key : Keys \cup {NoKey}, content : Texts, event : EventTypes]

Idle == [pc |-> "idle", route |-> "send", actor |-> AnyUser, id |-> AnyId,
         key |-> NoKey, content |-> AnyText, event |-> "sent"]

Stored          == {i \in Ids : messages[i].exists}
StoredAs(u, k)  == {i \in Stored : messages[i].sender = u /\ messages[i].key = k}
SentBy(u)       == {i \in Stored : messages[i].sender = u}

-------------------------------------------------------------------------------
Init ==
    /\ chat_members = InitialRole
    /\ muted = {}
    /\ messages = [i \in Ids |-> NoRow]
    /\ log = <<>>
    /\ req = [r \in Requests |-> Idle]
    /\ answers = {}
    /\ now = 0

Goto(r, statement) == req' = [req EXCEPT ![r].pc = statement]
Finish(r)          == req' = [req EXCEPT ![r] = Idle]

-------------------------------------------------------------------------------
(* Arrival of a request.  The bounds keep room for what it may store and   *)
(* publish.                                                                *)

Running     == {r \in Requests : req[r].pc # "idle"}
RoomInLog   == Len(log) + Cardinality(Running) < MaxLog
RoomForRows == Cardinality(Stored)
               + Cardinality({r \in Running : req[r].route \in {"send", "forward"}})
               < Cardinality(Ids)

StartSend(r, actor, key, content) ==
    /\ "send" \in Routes /\ RoomInLog /\ RoomForRows
    /\ req[r].pc = "idle"
    /\ req' = [req EXCEPT ![r] = [Idle EXCEPT !.pc = "requireMember", !.actor = actor,
                                              !.key = key, !.content = content]]
    /\ UNCHANGED <<rows, log, answers, now>>

\* The original lies in another chat of the actor's: any content may come in.
StartForward(r, actor, content) ==
    /\ "forward" \in Routes /\ RoomInLog /\ RoomForRows
    /\ req[r].pc = "idle"
    /\ req' = [req EXCEPT ![r] = [Idle EXCEPT !.pc = "requireMember", !.route = "forward",
                                              !.actor = actor, !.content = content]]
    /\ UNCHANGED <<rows, log, answers, now>>

StartEdit(r, actor, id, content) ==
    /\ "edit" \in Routes /\ RoomInLog
    /\ req[r].pc = "idle"
    /\ messages[id].exists
    /\ req' = [req EXCEPT ![r] = [Idle EXCEPT !.pc = "update", !.route = "edit",
                                              !.actor = actor, !.id = id, !.content = content]]
    /\ UNCHANGED <<rows, log, answers, now>>

StartChange(r, route, actor, id) ==
    /\ route \in Routes \cap {"delete", "pin"} /\ RoomInLog
    /\ req[r].pc = "idle"
    /\ messages[id].exists
    /\ req' = [req EXCEPT ![r] = [Idle EXCEPT !.pc = "readMessage", !.route = route,
                                              !.actor = actor, !.id = id]]
    /\ UNCHANGED <<rows, log, answers, now>>

-------------------------------------------------------------------------------
(* Reads.  The row of the chat does not change here, so reading its type   *)
(* and slow mode is no step of its own.                                    *)

AfterMember(route) ==
    CASE route = "send"    -> IF ChatType = "channel" THEN "requireAdmin" ELSE "readMe"
      [] route = "forward" -> "insert"
      [] OTHER             -> "update"

RequireMember(r) ==
    /\ req[r].pc = "requireMember"
    /\ IF chat_members[req[r].actor] # "none"
       THEN Goto(r, AfterMember(req[r].route))
       ELSE Finish(r)
    /\ UNCHANGED <<rows, log, answers, now>>

RequireAdmin(r) ==
    /\ req[r].pc = "requireAdmin"
    /\ IF chat_members[req[r].actor] = "admin"
       THEN Goto(r, IF req[r].route = "send" THEN "readMe" ELSE "update")
       ELSE Finish(r)
    /\ UNCHANGED <<rows, log, answers, now>>

\* Mutant of ReadMe: muted_until is not looked at.
ReadRoleOnly(r) ==
    /\ req[r].pc = "readMe"
    /\ Goto(r, IF chat_members[req[r].actor] = "admin" \/ SlowMode = 0
               THEN "insert" ELSE "readLast")
    /\ UNCHANGED <<rows, log, answers, now>>

\* Restricted members cannot send; a row that is gone by now restricts nobody.
ReadMe(r) ==
    LET me == req[r].actor
    IN  /\ req[r].pc = "readMe"
        /\ CASE chat_members[me] = "admin"                  -> Goto(r, "insert")
             [] chat_members[me] = "member" /\ me \in muted -> Finish(r)
             [] OTHER -> Goto(r, IF SlowMode > 0 THEN "readLast" ELSE "insert")
        /\ UNCHANGED <<rows, log, answers, now>>

\* Mutant of ReadLast: off by one second.
ReadLastEarly(r) ==
    /\ req[r].pc = "readLast"
    /\ IF \E i \in SentBy(req[r].actor) : now + 1 < messages[i].at + SlowMode
       THEN Finish(r)
       ELSE Goto(r, "insert")
    /\ UNCHANGED <<rows, log, answers, now>>

\* Slow mode: elapsed < slowMode since the sender's last message refuses.
ReadLast(r) ==
    /\ req[r].pc = "readLast"
    /\ IF \E i \in SentBy(req[r].actor) : now < messages[i].at + SlowMode
       THEN Finish(r)
       ELSE Goto(r, "insert")
    /\ UNCHANGED <<rows, log, answers, now>>

\* DELETE finds only messages that are not deleted; a sender may delete their
\* own.  In groups and channels only admins may pin.
ReadMessage(r) ==
    LET row      == messages[req[r].id]
        asMember == IF req[r].route = "delete" THEN row.sender = req[r].actor
                                               ELSE ChatType = "direct"
    IN  /\ req[r].pc = "readMessage"
        /\ IF req[r].route = "delete" /\ row.deleted
           THEN Finish(r)
           ELSE Goto(r, IF asMember THEN "requireMember" ELSE "requireAdmin")
        /\ UNCHANGED <<rows, log, answers, now>>

-------------------------------------------------------------------------------
(* Writes.                                                                 *)

\* Mutant of Conflicts: no unique index on clientMessageId.
NeverConflicts(r) == FALSE

\* INSERT ... ON CONFLICT (chat_id, sender_id, client_message_id) DO NOTHING.
Conflicts(r) == req[r].key # NoKey /\ StoredAs(req[r].actor, req[r].key) # {}

\* Mutant of Insert: the client is answered before the event is published.
InsertAndAnswer(r, id) ==
    /\ req[r].pc = "insert"
    /\ ~Conflicts(r)
    /\ ~messages[id].exists
    /\ messages' = [messages EXCEPT ![id] =
                       [NoRow EXCEPT !.exists = TRUE, !.sender = req[r].actor,
                                     !.key = req[r].key, !.content = req[r].content]]
    /\ answers' = answers \cup {<<req[r].actor, req[r].key, id>>}
    /\ Finish(r)
    /\ UNCHANGED <<chat_members, muted, log, now>>

Insert(r, id) ==
    /\ req[r].pc = "insert"
    /\ ~Conflicts(r)
    /\ ~messages[id].exists
    /\ messages' = [messages EXCEPT ![id] =
                       [exists |-> TRUE, sender |-> req[r].actor, key |-> req[r].key,
                        content |-> req[r].content, deleted |-> FALSE, pinned |-> FALSE,
                        at |-> now]]
    /\ req' = [req EXCEPT ![r] = [@ EXCEPT !.id = id, !.pc = "publish"]]
    /\ UNCHANGED <<chat_members, muted, log, answers, now>>

InsertNothing(r) ==
    /\ req[r].pc = "insert"
    /\ Conflicts(r)
    /\ Goto(r, "readExisting")
    /\ UNCHANGED <<rows, log, answers, now>>

\* Mutant of ReadExisting: a duplicate is published again.
RepublishExisting(r, id) ==
    /\ req[r].pc = "readExisting"
    /\ id \in StoredAs(req[r].actor, req[r].key)
    /\ req' = [req EXCEPT ![r] = [@ EXCEPT !.id = id, !.pc = "publish"]]
    /\ UNCHANGED <<rows, log, answers, now>>

\* Duplicate delivery: answer with the original, publish nothing.
ReadExisting(r, id) ==
    /\ req[r].pc = "readExisting"
    /\ id \in StoredAs(req[r].actor, req[r].key)
    /\ answers' = answers \cup {<<req[r].actor, req[r].key, id>>}
    /\ Finish(r)
    /\ UNCHANGED <<rows, log, now>>

\* Mutant of UpdateContent: UPDATE without is_deleted = false.
UpdateAnyContent(r) ==
    LET id == req[r].id
    IN  /\ req[r].pc = "update" /\ req[r].route = "edit"
        /\ IF messages[id].sender = req[r].actor
           THEN /\ messages' = [messages EXCEPT ![id].content = req[r].content]
                /\ req' = [req EXCEPT ![r] = [@ EXCEPT !.pc = "publish", !.event = "edited"]]
           ELSE Finish(r) /\ UNCHANGED messages
        /\ UNCHANGED <<chat_members, muted, log, answers, now>>

UpdateContent(r) ==
    LET id == req[r].id
    IN  /\ req[r].pc = "update" /\ req[r].route = "edit"
        /\ IF messages[id].sender = req[r].actor /\ ~messages[id].deleted
           THEN /\ messages' = [messages EXCEPT ![id].content = req[r].content]
                /\ req' = [req EXCEPT ![r] = [@ EXCEPT !.pc = "publish", !.event = "edited"]]
           ELSE Finish(r) /\ UNCHANGED messages
        /\ UNCHANGED <<chat_members, muted, log, answers, now>>

UpdateDeleted(r) ==
    /\ req[r].pc = "update" /\ req[r].route = "delete"
    /\ messages' = [messages EXCEPT ![req[r].id].deleted = TRUE]
    /\ req' = [req EXCEPT ![r] = [@ EXCEPT !.pc = "publish", !.event = "deleted"]]
    /\ UNCHANGED <<chat_members, muted, log, answers, now>>

\* Mutant of TogglePinned: the event tells the flag that was read before.
ToggleStale(r) ==
    LET pinned == ~messages[req[r].id].pinned
    IN  /\ req[r].pc = "update" /\ req[r].route = "pin"
        /\ messages' = [messages EXCEPT ![req[r].id].pinned = pinned]
        /\ req' = [req EXCEPT ![r] = [@ EXCEPT !.pc = "publish",
                                               !.event = IF pinned THEN "unpinned" ELSE "pinned"]]
        /\ UNCHANGED <<chat_members, muted, log, answers, now>>

TogglePinned(r) ==
    LET pinned == ~messages[req[r].id].pinned
    IN  /\ req[r].pc = "update" /\ req[r].route = "pin"
        /\ messages' = [messages EXCEPT ![req[r].id].pinned = pinned]
        /\ req' = [req EXCEPT ![r] = [@ EXCEPT !.pc = "publish",
                                               !.event = IF pinned THEN "pinned" ELSE "unpinned"]]
        /\ UNCHANGED <<chat_members, muted, log, answers, now>>

\* Mutant of Publish: the event lacks the content.
PublishBare(r) ==
    /\ req[r].pc = "publish"
    /\ log' = Append(log, [type |-> req[r].event, id |-> req[r].id])
    /\ Finish(r)
    /\ UNCHANGED <<rows, answers, now>>

\* The event carries the row its own statement returned.  A forwarded message
\* has an event type of its own, which every consumer treats like "sent".
Publish(r) ==
    /\ req[r].pc = "publish"
    /\ log' = Append(log, [type |-> req[r].event, id |-> req[r].id, content |-> req[r].content])
    /\ answers' = IF req[r].event = "sent"
                  THEN answers \cup {<<req[r].actor, req[r].key, req[r].id>>}
                  ELSE answers
    /\ Finish(r)
    /\ UNCHANGED <<rows, now>>

-------------------------------------------------------------------------------
\* A statement or the publish throws, or the process dies.
Abort(r) ==
    /\ MayAbort
    /\ req[r].pc # "idle"
    /\ Finish(r)
    /\ UNCHANGED <<rows, log, answers, now>>

\* What the routes of Membership do to a user's row.
ChangeMember(u, role) ==
    /\ role \in RoleChanges
    /\ chat_members' = [chat_members EXCEPT ![u] = role]
    /\ muted' = IF role = "none" THEN muted \ {u} ELSE muted
    /\ UNCHANGED <<messages, log, req, answers, now>>

\* PATCH .../restrict, which mutes or unmutes, and the passing of muted_until.
RestrictMember(u) ==
    /\ RoleChanges # {}
    /\ chat_members[u] # "none"
    /\ \E mutes \in {muted \cup {u}, muted \ {u}} : muted' = mutes
    /\ UNCHANGED <<chat_members, messages, log, req, answers, now>>

Tick ==
    /\ now < MaxTime
    /\ now' = now + 1
    /\ UNCHANGED <<rows, log, req, answers>>

\* The bounds are reached and nothing runs: the model, not the service, stops.
Rest ==
    /\ Running = {}
    /\ ~RoomInLog \/ ~RoomForRows
    /\ UNCHANGED vars

Start(r) ==
    \E actor \in Users, content \in Texts :
        \/ \E key \in Keys \cup {NoKey} : StartSend(r, actor, key, content)
        \/ StartForward(r, actor, content)
        \/ \E id \in Ids : StartEdit(r, actor, id, content)
        \/ \E id \in Ids, route \in {"delete", "pin"} : StartChange(r, route, actor, id)

Step(r) ==
    \/ RequireMember(r) \/ RequireAdmin(r) \/ ReadMe(r) \/ ReadLast(r) \/ ReadMessage(r)
    \/ \E id \in Ids : Insert(r, id)
    \/ InsertNothing(r)
    \/ \E id \in Ids : ReadExisting(r, id)
    \/ UpdateContent(r) \/ UpdateDeleted(r) \/ TogglePinned(r)
    \/ Publish(r)

Next ==
    \/ \E r \in Requests : Start(r) \/ Step(r) \/ Abort(r)
    \/ \E u \in Users, role \in Roles \cup {"none"} : ChangeMember(u, role)
    \/ \E u \in Users : RestrictMember(u)
    \/ Tick
    \/ Rest

Spec == Init /\ [][Next]_vars

\* A handler that runs goes on running: Node executes its continuations.
FairSpec == Spec /\ \A r \in Requests : WF_vars(Step(r))

-------------------------------------------------------------------------------
(* Properties.                                                             *)

\* Every variable has its type.
TypeOK ==
    /\ chat_members \in [Users -> Roles \cup {"none"}]
    /\ muted \subseteq Users
    /\ messages \in [Ids -> Row]
    /\ log \in Seq(Event)
    /\ req \in [Requests -> Request]
    /\ answers \subseteq Users \X (Keys \cup {NoKey}) \X Ids
    /\ now \in Nat

\* "duplicate deliveries (retries, replays) return the original message" (007):
\* however sends under one key race and are repeated, all are answered with the
\* same message.
AnswersAgree ==
    \A a, b \in answers : a[1] = b[1] /\ a[2] = b[2] /\ a[2] # NoKey => a[3] = b[3]

Announcements(id) == {n \in DOMAIN log : log[n].type = "sent" /\ log[n].id = id}

\* The service does what SendOnce promises: one message for a key, announced at
\* most once, and answered only after it is stored.
Accepted       == {<<messages[i].sender, messages[i].key, i>> : i \in Stored}
TimesAnnounced == [i \in Ids |-> Cardinality(Announcements(i))]

Once == INSTANCE SendOnce WITH accepted <- Accepted, announced <- TimesAnnounced

ImplementsSendOnce == Once!Spec

\* The request is about to announce the message it stored.
WillAnnounce(r, id) == req[r].pc = "publish" /\ req[r].event = "sent" /\ req[r].id = id

\* "Guarantees at-least-once Kafka delivery for DB-committed events" (the
\* outbox of infrastructure/docker/init.sql): a message that a client has been
\* told is sent is announced, or some handler is going to announce it.
AnsweredIsAnnounced ==
    \A a \in answers : \/ Announcements(a[3]) # {}
                       \/ \E r \in Requests : WillAnnounce(r, a[3])

\* The same as progress, if handlers run to their end: also the answer to a
\* duplicate that overtakes the original request is followed by the event.
AnsweredGetsAnnounced ==
    \A id \in Ids : (\E a \in answers : a[3] = id) ~> Announcements(id) # {}

\* A user who may not post: not a member, restricted, or not an admin of a
\* channel ("Channels are broadcast-only: subscribers read, only owner/admins
\* post", "Restricted (muted) members cannot send until muted_until passes").
Restricted(u) == chat_members[u] = "member" /\ u \in muted
Silenced(u)   == \/ chat_members[u] = "none" \/ Restricted(u)
                 \/ ChatType = "channel" /\ chat_members[u] # "admin"

\* The requests of a user that have passed the check that now silences them.
Admitted(u) ==
    {r \in Requests : /\ req[r].actor = u
                      /\ \/ req[r].pc \in {"readLast", "insert"}
                         \/ req[r].pc = "readMe" /\ ~Restricted(u)}

\* While a user is silenced, only what had been admitted before can be stored:
\* the messages they have and may still get never grow.
SilencedStaySilent ==
    [][\A u \in Users :
          /\ Silenced(u)
          /\ chat_members'[u] = chat_members[u] /\ (u \in muted' <=> u \in muted)
          => Cardinality(SentBy(u))' + Cardinality(Admitted(u))'
               <= Cardinality(SentBy(u)) + Cardinality(Admitted(u))]_vars

\* The requests of a user that have passed the slow-mode check, and whether the
\* user has to wait now.
PassedSlow(u) == {r \in Requests : req[r].actor = u /\ req[r].pc = "insert"}
MustWait(u)   == chat_members[u] # "admin" /\ \E i \in SentBy(u) : now < messages[i].at + SlowMode

\* "Slow mode: non-admin members must wait between messages" (POST /messages):
\* while a user has to wait, only the sends that read the last message before it
\* was stored can still be stored, however many requests and retries race.
SlowModeHolds ==
    [][\A u \in Users :
          MustWait(u) /\ MustWait(u)'
          => Cardinality(SentBy(u))' + Cardinality(PassedSlow(u))'
               <= Cardinality(SentBy(u)) + Cardinality(PassedSlow(u))]_vars

\* "DELETE" is final: whatever edits race with it, the content of a deleted
\* message stays what it was and the message stays deleted.
DeletedIsFinal ==
    [][\A id \in Ids : messages[id].deleted
          => messages'[id].deleted /\ messages'[id].content = messages[id].content]_vars

\* The places in the log of a message's events of the given types.
Events(id, types) == {n \in DOMAIN log : log[n].id = id /\ log[n].type \in types}

\* Event n is the last of the message's events of the given types.
IsLast(n, id, types) == n \in Events(id, types) /\ \A later \in Events(id, types) : later <= n

\* Every change is committed and published exactly once: when no handler runs,
\* the events account for the rows, in whatever order the events of racing
\* handlers were published.
LogAccountsForRows ==
    (\A r \in Requests : req[r].pc = "idle") =>
        \A id \in Stored :
            /\ Cardinality(Events(id, {"sent"})) = 1
            /\ \E n \in Events(id, {"sent", "edited"}) : log[n].content = messages[id].content
            /\ messages[id].deleted <=> Events(id, {"deleted"}) # {}
            /\ Cardinality(Events(id, {"pinned"}))
                 = Cardinality(Events(id, {"unpinned"})) + (IF messages[id].pinned THEN 1 ELSE 0)

\* "Use chatId as partition key for message events -> per-chat ordering"
\* (kafka.ts): one who reads the events of the chat in order ends with the
\* messages as they are stored.
LogReflectsRows ==
    (\A r \in Requests : req[r].pc = "idle") =>
        \A id \in Stored, n \in DOMAIN log :
            /\ IsLast(n, id, {"sent", "edited"}) => log[n].content = messages[id].content
            /\ IsLast(n, id, {"pinned", "unpinned"}) =>
                   (log[n].type = "pinned" <=> messages[id].pinned)

-------------------------------------------------------------------------------
(* Strengthenings that make the properties provable.                       *)

\* A request that changes a message has found it stored, and only stored
\* messages have a flag set.
ChangesOfRows ==
    /\ \A r \in Requests : req[r].route \in {"edit", "delete", "pin"} => messages[req[r].id].exists
    /\ \A id \in Ids : messages[id].deleted \/ messages[id].pinned => messages[id].exists

\* A request has no other event in mind before its write.
SentUntilWritten == \A r \in Requests : req[r].pc # "publish" => req[r].event = "sent"

\* No message was sent in the future.
RowsOfThePast == \A id \in Ids : messages[id].at <= now

\* The handlers that are about to publish an event of the message, and the
\* events of a type that are published or on their way.
Publishing(id, types) ==
    {r \in Requests : req[r].pc = "publish" /\ req[r].id = id /\ req[r].event \in types}
Count(id, type) == Cardinality(Events(id, {type})) + Cardinality(Publishing(id, {type}))

\* The content of the row is in an event, or on its way into one.
Told(id) ==
    \/ \E n \in Events(id, {"sent", "edited"}) : log[n].content = messages[id].content
    \/ \E r \in Publishing(id, {"sent", "edited"}) : req[r].content = messages[id].content

\* The events, with those on their way, account for the rows in every state.
EventsAccount ==
    \A id \in Ids :
        /\ Count(id, "sent") = IF messages[id].exists THEN 1 ELSE 0
        /\ messages[id].exists => Told(id)
        /\ messages[id].deleted <=> Count(id, "deleted") # 0
        /\ Count(id, "pinned") = Count(id, "unpinned") + (IF messages[id].pinned THEN 1 ELSE 0)

===============================================================================
