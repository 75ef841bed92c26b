------------------------------ MODULE Timeline ------------------------------
(***************************************************************************)
(* The way of a message to the screen: messaging-core inserts and          *)
(* announces it, Kafka keeps the announcements of a chat in one partition, *)
(* realtime-service queues and flushes them to the room of the chat        *)
(* (services/realtime-service/src/index.ts), and the chat store of one     *)
(* client puts them on the list, next to its own optimistic sends and to   *)
(* the history it fetches (client/src/stores/chat-store.ts).               *)
(*                                                                         *)
(* The client is that of user Me, with one open chat.  Everybody else is   *)
(* one user, Other, who is also an admin: "senders may delete their own    *)
(* messages; group/channel admins may delete any".                         *)
(***************************************************************************)
EXTENDS Naturals, Sequences, FiniteSets

CONSTANTS
    Me, Other,          \* the two users
    Messages,           \* the messages that may be sent
    Author,             \* message -> its author
    Text,               \* message -> its text
    Deletable,          \* the messages that may be deleted
    MaxFaults,          \* bounds how often realtime-service restarts, a client loses
                        \* its socket, or a message is deleted, taken together
    Crashes,            \* whether realtime-service restarts
    RECONNECTION_ATTEMPTS, \* how often socket.io tries to reconnect before it gives up
    Limit               \* how many messages the client asks for

Users == {Me, Other}

\* The history requests of the client: on opening the chat, and on each reconnect.
Loads == 0..MaxFaults

ASSUME ConstantsAssumption ==
    /\ Me # Other
    /\ Author \in [Messages -> Users]
    /\ DOMAIN Text = Messages
    /\ Deletable \subseteq Messages
    /\ MaxFaults \in Nat /\ Crashes \in BOOLEAN
    /\ RECONNECTION_ATTEMPTS \in Nat \ {0} /\ Limit \in Nat \ {0}

VARIABLES
    history,        \* the rows of messages, in the order of created_at
    stage,          \* message -> how far its request has come on the server
    deletion,       \* message -> how far its deletion has come, and whether its row was
                    \* announced before
    partition,      \* the events of the chat that are not yet consumed
    uncommitted,    \* the events consumed since the offset was last committed
    emitQueue,      \* the batch of realtime-service
    inRoom,         \* whether the client's socket is in the room of the chat
    joining,        \* whether its presence:join is on the way
    wire,           \* what was emitted to the client and not yet handled
    connected,      \* whether the client has a socket
    attempts,       \* how many attempts socket.io has left to reconnect
    list,           \* the rows on the screen
    awaiting,       \* the own messages whose POST the client has no answer to
    pendingMessages,\* the ids whose echo the client is going to drop
    load,           \* the history requests
    gone,           \* history: the messages whose message:deleted the client has handled,
                    \* their own POST, if any, being answered
    again,          \* history: the messages whose announcement was consumed twice
    overlapped,     \* history: the messages fetched while their announcement was on its way
    dropped,        \* history: the own messages whose row a fetched list replaced too early
    faults          \* how many of MaxFaults there were

server == <<history, stage, deletion>>
kafka  == <<partition, uncommitted>>
room   == <<inRoom, joining, connected, attempts>>
screen == <<list, awaiting, pendingMessages>>
ghosts == <<gone, again, overlapped, dropped, faults>>
vars   == <<server, kafka, emitQueue, room, wire, screen, load, ghosts>>

Event == [kind : {"new", "deleted"}, id : Messages]
Row   == [id : Messages, status : {"sending", "sent", "failed"}]

Mine == {m \in Messages : Author[m] = Me}
Stored == {m \in Messages : stage[m] \in {"inserted", "published"}}
Deleted == {m \in Messages : deletion[m].state # "none"}
Ids(events) == {events[i].id : i \in {j \in DOMAIN events : events[j].kind = "new"}}

\* The elements of s that are not in S, in their order.
Without(s, S) ==
    LET kept == {i \in DOMAIN s : s[i] \notin S}
    IN  [k \in 1..Cardinality(kept) |->
            s[CHOOSE i \in kept : Cardinality({j \in kept : j < i}) = k - 1]]

\* A row keeps its temporary id until it is "sent".
OnScreen(m) == \E i \in DOMAIN list : list[i].id = m
ShownSent(m) == \E i \in DOMAIN list : list[i] = [id |-> m, status |-> "sent"]

\* The announcement of m is on its way to the client.
Ahead(m) == m \in Ids(partition) \cup Ids(emitQueue) \cup Ids(wire)

\* ORDER BY created_at DESC LIMIT, reversed: the newest Limit of the rows.
Newest(rows) ==
    SubSeq(rows, IF Len(rows) > Limit THEN Len(rows) - Limit + 1 ELSE 1, Len(rows))

\* What GET /messages answers now.
Page == Newest(Without(history, Deleted))
InPage(m) == \E i \in DOMAIN Page : Page[i] = m

\* socket.io has stopped trying: only a reload of the page helps.
GaveUp == ~connected /\ attempts = 0

-------------------------------------------------------------------------------
\* setActiveChat has just run: the history is asked for, and the room.
Init ==
    /\ history = <<>>
    /\ stage = [m \in Messages |-> "unsent"]
    /\ deletion = [m \in Messages |-> [state |-> "none", announced |-> FALSE]]
    /\ partition = <<>> /\ uncommitted = <<>>
    /\ emitQueue = <<>>
    /\ inRoom = FALSE /\ joining = TRUE /\ connected = TRUE
    /\ attempts = RECONNECTION_ATTEMPTS
    /\ wire = <<>>
    /\ list = <<>> /\ awaiting = {} /\ pendingMessages = {}
    /\ load = [l \in Loads |-> [state |-> IF l = 0 THEN "asked" ELSE "unused", rows |-> <<>>]]
    /\ gone = {} /\ again = {} /\ overlapped = {} /\ dropped = {}
    /\ faults = 0

-------------------------------------------------------------------------------
(* messaging-core.                                                         *)

\* POST /messages, by this client or by another one of Other.
Insert(m) ==
    /\ stage[m] = "posted" \/ (stage[m] = "unsent" /\ Author[m] = Other)
    /\ stage' = [stage EXCEPT ![m] = "inserted"]
    /\ history' = Append(history, m)
    /\ UNCHANGED <<deletion, kafka, emitQueue, room, wire, screen, load, ghosts>>

\* Mutant of Emit: keyed by its own id, an event overtakes others.
EmitById(event) ==
    \E i \in 0..Len(partition) :
        partition' = SubSeq(partition, 1, i) \o <<event>> \o SubSeq(partition, i + 1, Len(partition))

\* "Use chatId as partition key for message events": the payload of all of them has it.
Emit(event) == partition' = Append(partition, event)

Publish(m) ==
    /\ stage[m] = "inserted"
    /\ stage' = [stage EXCEPT ![m] = "published"]
    /\ Emit([kind |-> "new", id |-> m])
    /\ UNCHANGED <<history, deletion, uncommitted, emitQueue, room, wire, screen, load, ghosts>>

\* DELETE /messages/:id by Other, from another client: the UPDATE of the row.
DeleteOther(m) ==
    /\ m \in Deletable \cap Stored
    /\ deletion[m].state = "none"
    /\ faults < MaxFaults /\ faults' = faults + 1
    /\ deletion' = [deletion EXCEPT ![m] = [state |-> "row", announced |-> stage[m] = "published"]]
    /\ UNCHANGED <<history, stage, kafka, emitQueue, room, wire, screen, load, gone, again,
                   overlapped, dropped>>

PublishDeletion(m) ==
    /\ deletion[m].state = "row"
    /\ deletion' = [deletion EXCEPT ![m].state = "published"]
    /\ Emit([kind |-> "deleted", id |-> m])
    /\ UNCHANGED <<history, stage, uncommitted, emitQueue, room, wire, screen, load, ghosts>>

-------------------------------------------------------------------------------
(* realtime-service.                                                       *)

\* The handlers of msgConsumer: queueEmit.  The offsets are committed now and
\* then, and nothing waits for the batch; what is not committed matters as long
\* as there may be a restart.
Consume ==
    /\ partition # <<>>
    /\ emitQueue' = Append(emitQueue, Head(partition))
    /\ partition' = Tail(partition)
    /\ \E committed \in {TRUE, ~(Crashes /\ faults < MaxFaults)} :
          uncommitted' = IF committed THEN <<>> ELSE Append(uncommitted, Head(partition))
    /\ UNCHANGED <<server, room, wire, screen, load, ghosts>>

FlushEmitQueue ==
    /\ emitQueue # <<>>
    /\ wire' = IF inRoom THEN wire \o emitQueue ELSE wire
    /\ emitQueue' = <<>>
    /\ UNCHANGED <<server, kafka, room, screen, load, ghosts>>

\* presence:join, past the check of membership.
Join ==
    /\ joining
    /\ inRoom' = TRUE /\ joining' = FALSE
    /\ UNCHANGED <<server, kafka, emitQueue, connected, attempts, wire, screen, load, ghosts>>

\* Mutant of Crash: the new process is taken to have the rooms of the old one.
CrashKeepingRooms ==
    /\ Crashes
    /\ faults < MaxFaults /\ faults' = faults + 1
    /\ again' = again \cup Ids(uncommitted)
    /\ partition' = uncommitted \o partition /\ uncommitted' = <<>>
    /\ emitQueue' = <<>> /\ wire' = <<>>
    /\ joining' = FALSE /\ connected' = FALSE
    /\ UNCHANGED <<server, inRoom, attempts, screen, load, gone, overlapped, dropped>>

\* The process stops, gracefully or not: the batch and the sockets are lost, and
\* what was not committed is consumed again.
Crash ==
    /\ Crashes
    /\ faults < MaxFaults /\ faults' = faults + 1
    /\ again' = again \cup Ids(uncommitted)
    /\ partition' = uncommitted \o partition /\ uncommitted' = <<>>
    /\ emitQueue' = <<>> /\ wire' = <<>>
    /\ inRoom' = FALSE /\ joining' = FALSE /\ connected' = FALSE
    /\ UNCHANGED <<server, attempts, screen, load, gone, overlapped, dropped>>

-------------------------------------------------------------------------------
(* The client: socket and history.                                         *)

Disconnect ==
    /\ connected
    /\ faults < MaxFaults /\ faults' = faults + 1
    /\ connected' = FALSE /\ inRoom' = FALSE /\ joining' = FALSE
    /\ wire' = <<>>
    /\ UNCHANGED <<server, kafka, emitQueue, attempts, screen, load, gone, again, overlapped,
                   dropped>>

\* The next history request.
Ask == \E l \in Loads :
    /\ load[l].state = "unused"
    /\ \A k \in 0..(l - 1) : load[k].state # "unused"
    /\ load' = [load EXCEPT ![l].state = "asked"]

\* Mutant of Connect: loadMessages without force does nothing for a list that
\* has messages.
ConnectWithoutForce ==
    /\ ~connected /\ attempts > 0
    /\ IF list = <<>> THEN Ask ELSE load' = load
    /\ connected' = TRUE /\ joining' = TRUE
    /\ attempts' = RECONNECTION_ATTEMPTS
    /\ UNCHANGED <<server, kafka, emitQueue, inRoom, wire, screen, ghosts>>

\* An attempt of socket.io succeeds, and the counter starts anew.  "Re-sync after
\* a reconnect: rejoin rooms, refresh the chat list and force-refetch the active
\* chat".
Connect ==
    /\ ~connected /\ attempts > 0
    /\ Ask
    /\ connected' = TRUE /\ joining' = TRUE
    /\ attempts' = RECONNECTION_ATTEMPTS
    /\ UNCHANGED <<server, kafka, emitQueue, inRoom, wire, screen, ghosts>>

\* An attempt finds no server; after the last one socket.io gives up.
ConnectFails ==
    /\ ~connected /\ attempts > 0
    /\ attempts' = attempts - 1
    /\ UNCHANGED <<server, kafka, emitQueue, inRoom, joining, connected, wire, screen, load,
                   ghosts>>

\* socketSecurity refuses the handshake, whose token is the one of connectSocket
\* and may have expired since: socket.io does not try again after a refusal.
Refused ==
    /\ ~connected /\ attempts > 0
    /\ attempts' = 0
    /\ UNCHANGED <<server, kafka, emitQueue, inRoom, joining, connected, wire, screen, load,
                   ghosts>>

\* GET /messages?limit=50, without a cursor: the newest rows only.
Serve(l) ==
    /\ load[l].state = "asked"
    /\ load' = [load EXCEPT ![l] = [state |-> "served", rows |-> Page]]
    /\ UNCHANGED <<server, kafka, emitQueue, room, wire, screen, ghosts>>

\* The answer replaces the list.
Apply(l) ==
    LET rows    == load[l].rows
        fetched == {rows[i] : i \in DOMAIN rows}
    IN  /\ load[l].state = "served"
        /\ load' = [load EXCEPT ![l].state = "done"]
        /\ list' = [i \in DOMAIN rows |-> [id |-> rows[i], status |-> "sent"]]
        /\ overlapped' = overlapped
              \cup {m \in fetched : Ahead(m) \/ stage[m] = "inserted"}
        /\ dropped' = dropped \cup {m \in Mine \ fetched : OnScreen(m)}
        /\ UNCHANGED <<server, kafka, emitQueue, room, wire, awaiting, pendingMessages, gone,
                       again, faults>>

LoadFails(l) ==
    /\ load[l].state = "asked"
    /\ load' = [load EXCEPT ![l].state = "failed"]
    /\ UNCHANGED <<server, kafka, emitQueue, room, wire, screen, ghosts>>

-------------------------------------------------------------------------------
(* The client: sending and receiving.                                      *)

SetStatus(m, status) ==
    list' = [i \in DOMAIN list |->
                IF list[i] = [id |-> m, status |-> "sending"]
                THEN [id |-> m, status |-> status] ELSE list[i]]

\* sendMessage: the optimistic row, and the POST.
SendMessage(m) ==
    /\ stage[m] = "unsent" /\ m \in Mine
    /\ stage' = [stage EXCEPT ![m] = "posted"]
    /\ list' = Append(list, [id |-> m, status |-> "sending"])
    /\ awaiting' = awaiting \cup {m}
    /\ UNCHANGED <<history, deletion, kafka, emitQueue, room, wire, pendingMessages, load,
                   ghosts>>

\* Mutant of SendAnswered: the id is not remembered.
SendAnsweredOnly(m) ==
    /\ m \in awaiting /\ stage[m] = "published"
    /\ awaiting' = awaiting \ {m}
    /\ SetStatus(m, "sent")
    /\ UNCHANGED <<server, kafka, emitQueue, room, wire, pendingMessages, load, ghosts>>

\* The route answers when it has published; the echo may be here first.
SendAnswered(m) ==
    /\ m \in awaiting /\ stage[m] = "published"
    /\ awaiting' = awaiting \ {m}
    /\ pendingMessages' = pendingMessages \cup {m}
    /\ SetStatus(m, "sent")
    /\ UNCHANGED <<server, kafka, emitQueue, room, wire, load, ghosts>>

\* No answer came, whatever became of the request.
SendFailed(m) ==
    /\ m \in awaiting
    /\ awaiting' = awaiting \ {m}
    /\ SetStatus(m, "failed")
    /\ stage' \in {stage, IF stage[m] = "posted" THEN [stage EXCEPT ![m] = "lost"] ELSE stage}
    /\ UNCHANGED <<history, deletion, kafka, emitQueue, room, wire, pendingMessages, load,
                   ghosts>>

\* deleteMessage of an own message: the row goes at once, then the request.
DeleteMessage(m) ==
    /\ m \in Deletable \cap Mine
    /\ ShownSent(m)
    /\ list' = Without(list, {[id |-> m, status |-> "sent"]})
    /\ faults < MaxFaults /\ faults' = faults + 1
    /\ IF deletion[m].state = "none"
       THEN deletion' = [deletion EXCEPT ![m] =
                            [state |-> "row", announced |-> stage[m] = "published"]]
       ELSE deletion' = deletion
    /\ UNCHANGED <<history, stage, kafka, emitQueue, room, wire, awaiting, pendingMessages,
                   load, gone, again, overlapped, dropped>>

\* "Skip echo of an own message that is still optimistic": told by its text.
PendingDuplicate(m) ==
    \E i \in DOMAIN list : list[i].status = "sending" /\ Text[list[i].id] = Text[m]

\* Mutant of ReceiveNew: the text alone makes a message a duplicate.
ReceiveNewByText(m) ==
    CASE m \in pendingMessages ->
            /\ pendingMessages' = pendingMessages \ {m}
            /\ list' = list
      [] m \notin pendingMessages /\ PendingDuplicate(m) ->
            UNCHANGED <<pendingMessages, list>>
      [] OTHER ->
            /\ pendingMessages' = pendingMessages
            /\ list' = Append(list, [id |-> m, status |-> "sent"])

\* message:new.
ReceiveNew(m) ==
    CASE m \in pendingMessages ->
            /\ pendingMessages' = pendingMessages \ {m}
            /\ list' = list
      [] m \notin pendingMessages /\ m \in Mine /\ PendingDuplicate(m) ->
            UNCHANGED <<pendingMessages, list>>
      [] OTHER ->
            /\ pendingMessages' = pendingMessages
            /\ list' = Append(list, [id |-> m, status |-> "sent"])

\* message:deleted.
ReceiveDeleted(m) ==
    list' = Without(list, {[id |-> m, status |-> "sent"]})

Receive ==
    /\ wire # <<>>
    /\ wire' = Tail(wire)
    /\ IF Head(wire).kind = "new"
       THEN /\ ReceiveNew(Head(wire).id)
            /\ gone' = gone
       ELSE /\ ReceiveDeleted(Head(wire).id)
            /\ gone' = gone \cup ({Head(wire).id} \ awaiting)
            /\ pendingMessages' = pendingMessages
    /\ UNCHANGED <<server, kafka, emitQueue, room, awaiting, load, again, overlapped, dropped, faults>>

-------------------------------------------------------------------------------
Next ==
    \/ \E m \in Messages :
          \/ Insert(m) \/ Publish(m)
          \/ DeleteOther(m) \/ PublishDeletion(m)
          \/ SendMessage(m) \/ SendAnswered(m) \/ SendFailed(m) \/ DeleteMessage(m)
    \/ Consume \/ FlushEmitQueue \/ Join \/ Crash
    \/ Disconnect \/ Connect \/ ConnectFails \/ Refused
    \/ \E l \in Loads : Serve(l) \/ Apply(l) \/ LoadFails(l)
    \/ Receive

\* The consumer loop, the timer of the batch and the two event loops go on.  An
\* attempt of socket.io to reconnect and a history request come to an end, each
\* with success or without; nobody has to send.
Fairness ==
    /\ WF_vars(Consume) /\ WF_vars(FlushEmitQueue) /\ WF_vars(Join)
    /\ WF_vars(Receive)
    /\ WF_vars(Connect \/ ConnectFails \/ Refused)
    /\ \A l \in Loads : WF_vars(Serve(l) \/ LoadFails(l)) /\ WF_vars(Apply(l))

Spec == Init /\ [][Next]_vars /\ Fairness

-------------------------------------------------------------------------------
(* Properties.                                                             *)

\* Every variable has its type.
TypeOK ==
    /\ history \in Seq(Messages)
    /\ stage \in [Messages -> {"unsent", "posted", "lost", "inserted", "published"}]
    /\ deletion \in [Messages -> [state : {"none", "row", "published"},
                                  announced : BOOLEAN]]
    /\ partition \in Seq(Event) /\ uncommitted \in Seq(Event)
    /\ emitQueue \in Seq(Event) /\ wire \in Seq(Event)
    /\ inRoom \in BOOLEAN /\ joining \in BOOLEAN /\ connected \in BOOLEAN
    /\ (inRoom \/ joining \/ wire # <<>>) => connected
    /\ attempts \in 0..RECONNECTION_ATTEMPTS
    /\ list \in Seq(Row)
    /\ awaiting \subseteq Mine /\ pendingMessages \subseteq Mine
    /\ \A l \in Loads : /\ load[l].state \in {"unused", "asked", "served", "done", "failed"}
                        /\ load[l].rows \in Seq(Messages)
    /\ gone \cup again \cup overlapped \cup dropped \subseteq Messages
    /\ faults \in 0..MaxFaults

\* "Deduplicate own messages that were optimistically added" (message:new): in
\* whatever order the echo and the answer of the POST arrive, a message has one
\* row, unless the POST failed on the client, the announcement was consumed
\* twice, or a history answer brought the message before its announcement.
ShownOnce ==
    \A m \in Messages \ (again \cup overlapped) :
        Cardinality({i \in DOMAIN list : list[i].id = m /\ list[i].status # "failed"}) <= 1

\* A message that is deleted after it was announced is announced and deleted in
\* that order (message:deleted after message:new, "per-chat ordering"), whoever
\* deletes it: once the deletion is handled the message does not come back, except from
\* a history answer that was read before, from events consumed twice, or from the
\* answer to its own POST when the deletion was faster.
DeletedStaysGone ==
    \A m \in gone \ again :
        (/\ deletion[m].announced
         /\ \A l \in Loads : m \notin {load[l].rows[i] : i \in DOMAIN load[l].rows})
        => ~ShownSent(m)

\* Batches are flushed to the room within BATCH_INTERVAL_MS: an announcement on
\* its way reaches the screen of a client that stays in the room, unless a
\* fetched list has replaced the own row it belongs to.
AnnouncedIsShown ==
    \A m \in Messages :
        (Ahead(m) /\ inRoom) ~> (OnScreen(m) \/ m \in Deleted \/ ~inRoom \/ m \in dropped)

\* "force-refetch the active chat so messages sent while offline appear"
\* (chat-store connect handler): a message stored while the client has no socket
\* comes on the screen, unless the client gives up connecting, the request fails,
\* or so many messages were stored after it that it is not on the page asked for.
OfflineMessagesAppear ==
    \A m \in Messages :
        (m \in Stored /\ ~connected)
          ~> \/ OnScreen(m) \/ m \in Deleted
             \/ GaveUp
             \/ \E l \in Loads : load[l].state = "failed"
             \/ ~InPage(m)
===============================================================================
