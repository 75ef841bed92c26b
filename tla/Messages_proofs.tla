---------------------------- MODULE Messages_proofs ----------------------------
(***************************************************************************)
(* Proofs about Messages, for any users, requests, messages and bounds.    *)
(***************************************************************************)
EXTENDS Messages, FiniteSetTheorems, TLAPS

-------------------------------------------------------------------------------
(* Types.                                                                  *)

LEMMA AnyValues == AnyUser \in Users /\ AnyText \in Texts /\ AnyId \in Ids
  BY ConstantsAssumption DEF AnyUser, AnyText, AnyId

LEMMA IdleType == Idle \in Request /\ Idle.pc = "idle"
  BY AnyValues DEF Idle, Request, Statements, AllRoutes, EventTypes

\* A request whose control alone changes stays well formed.
LEMMA GotoType ==
  ASSUME req \in [Requests -> Request], NEW r \in Requests, NEW s \in Statements, Goto(r, s)
  PROVE  /\ req' = [req EXCEPT ![r] = [req[r] EXCEPT !.pc = s]]
         /\ req' \in [Requests -> Request]
  BY DEF Goto, Request

LEMMA FinishType ==
  ASSUME req \in [Requests -> Request], NEW r \in Requests, Finish(r)
  PROVE  /\ req' = [req EXCEPT ![r] = Idle]
         /\ req' \in [Requests -> Request]
  BY IdleType DEF Finish

LEMMA StartType ==
  ASSUME TypeOK, NEW r \in Requests, Start(r)
  PROVE  TypeOK'
<1>1. ASSUME NEW q \in Request, req' = [req EXCEPT ![r] = q],
             UNCHANGED <<rows, log, answers, now>>
      PROVE  TypeOK'
  BY <1>1 DEF TypeOK, rows
<1>2. ASSUME NEW actor \in Users, NEW content \in Texts, NEW key \in Keys \cup {NoKey},
             StartSend(r, actor, key, content)
      PROVE  TypeOK'
  <2>1. [Idle EXCEPT !.pc = "requireMember", !.actor = actor,
                     !.key = key, !.content = content] \in Request
    BY IdleType DEF Request, Statements
  <2> QED BY <1>1, <1>2, <2>1 DEF StartSend
<1>3. ASSUME NEW actor \in Users, NEW content \in Texts, StartForward(r, actor, content)
      PROVE  TypeOK'
  <2>1. [Idle EXCEPT !.pc = "requireMember", !.route = "forward",
                     !.actor = actor, !.content = content] \in Request
    BY IdleType DEF Request, Statements, AllRoutes
  <2> QED BY <1>1, <1>3, <2>1 DEF StartForward
<1>4. ASSUME NEW actor \in Users, NEW content \in Texts, NEW id \in Ids,
             StartEdit(r, actor, id, content)
      PROVE  TypeOK'
  <2>1. [Idle EXCEPT !.pc = "update", !.route = "edit",
                     !.actor = actor, !.id = id, !.content = content] \in Request
    BY IdleType DEF Request, Statements, AllRoutes
  <2> QED BY <1>1, <1>4, <2>1 DEF StartEdit
<1>5. ASSUME NEW actor \in Users, NEW id \in Ids, NEW route \in {"delete", "pin"},
             StartChange(r, route, actor, id)
      PROVE  TypeOK'
  <2>1. [Idle EXCEPT !.pc = "readMessage", !.route = route,
                     !.actor = actor, !.id = id] \in Request
    BY IdleType DEF Request, Statements, AllRoutes
  <2> QED BY <1>1, <1>5, <2>1 DEF StartChange
<1> QED BY <1>2, <1>3, <1>4, <1>5 DEF Start

\* A step of r that leaves it at the publishing of what it wrote.
LEMMA PublishNextType ==
  ASSUME req \in [Requests -> Request], NEW r \in Requests, NEW id \in Ids, NEW e \in EventTypes
  PROVE  /\ [req[r] EXCEPT !.id = id, !.pc = "publish"] \in Request
         /\ [req[r] EXCEPT !.pc = "publish", !.event = e] \in Request
  BY DEF Request, Statements

\* The writes of one message.
LEMMA ContentType ==
  ASSUME messages \in [Ids -> Row], NEW id \in Ids, NEW t \in Texts
  PROVE  [messages EXCEPT ![id].content = t] \in [Ids -> Row]
  BY DEF Row

LEMMA FlagTypes ==
  ASSUME messages \in [Ids -> Row], NEW id \in Ids, NEW b \in BOOLEAN
  PROVE  /\ [messages EXCEPT ![id].deleted = b] \in [Ids -> Row]
         /\ [messages EXCEPT ![id].pinned = b] \in [Ids -> Row]
  BY DEF Row

LEMMA StepType ==
  ASSUME TypeOK, NEW r \in Requests, Step(r)
  PROVE  TypeOK'
<1> USE DEF TypeOK, rows
<1>0. req[r] \in Request /\ req[r].id \in Ids /\ req[r].content \in Texts
  BY DEF Request
<1>1. CASE RequireMember(r) \/ RequireAdmin(r) \/ ReadMe(r) \/ ReadLast(r) \/ ReadMessage(r)
           \/ InsertNothing(r)
  BY <1>1, GotoType, FinishType
  DEF RequireMember, RequireAdmin, ReadMe, ReadLast, ReadMessage, InsertNothing, AfterMember,
      Statements
<1>2. ASSUME NEW id \in Ids, Insert(r, id) PROVE TypeOK'
  <2>1. [exists |-> TRUE, sender |-> req[r].actor, key |-> req[r].key,
         content |-> req[r].content, deleted |-> FALSE, pinned |-> FALSE, at |-> now] \in Row
    BY <1>0 DEF Request, Row
  <2>2. messages' \in [Ids -> Row]
    BY <1>2, <2>1 DEF Insert
  <2>3. req' \in [Requests -> Request]
    BY <1>2, PublishNextType DEF Insert, EventTypes
  <2> QED BY <1>2, <2>2, <2>3 DEF Insert
<1>3. ASSUME NEW id \in Ids, ReadExisting(r, id) PROVE TypeOK'
  <2>1. <<req[r].actor, req[r].key, id>> \in Users \X (Keys \cup {NoKey}) \X Ids
    BY <1>0 DEF Request
  <2> QED BY <1>3, <2>1, FinishType DEF ReadExisting
<1>4. CASE UpdateContent(r)
  <2>1. req' \in [Requests -> Request]
    BY <1>0, <1>4, FinishType, PublishNextType DEF UpdateContent, EventTypes
  <2>3. \/ messages' = [messages EXCEPT ![req[r].id].content = req[r].content]
        \/ messages' = messages
    BY <1>4 DEF UpdateContent
  <2>2. messages' \in [Ids -> Row]
    BY <1>0, <2>3, ContentType
  <2> QED BY <1>4, <2>1, <2>2 DEF UpdateContent
<1>5. CASE UpdateDeleted(r)
  <2>1. req' \in [Requests -> Request]
    BY <1>0, <1>5, PublishNextType DEF UpdateDeleted, EventTypes
  <2>2. messages' \in [Ids -> Row]
    BY <1>0, <1>5, FlagTypes DEF UpdateDeleted
  <2> QED BY <1>5, <2>1, <2>2 DEF UpdateDeleted
<1>6. CASE TogglePinned(r)
  <2>1. req' \in [Requests -> Request]
    BY <1>0, <1>6, PublishNextType DEF TogglePinned, EventTypes
  <2>2. messages' \in [Ids -> Row]
    BY <1>0, <1>6, FlagTypes DEF TogglePinned
  <2> QED BY <1>6, <2>1, <2>2 DEF TogglePinned
<1>7. CASE Publish(r)
  <2>1. [type |-> req[r].event, id |-> req[r].id, content |-> req[r].content] \in Event
    BY <1>0 DEF Request, Event
  <2>2. <<req[r].actor, req[r].key, req[r].id>> \in Users \X (Keys \cup {NoKey}) \X Ids
    BY <1>0 DEF Request
  <2>3. log' \in Seq(Event)
    BY <1>7, <2>1 DEF Publish
  <2>4. answers' \subseteq Users \X (Keys \cup {NoKey}) \X Ids
    BY <1>7, <2>2 DEF Publish
  <2> QED BY <1>7, <2>3, <2>4, FinishType DEF Publish
<1> QED BY <1>1, <1>2, <1>3, <1>4, <1>5, <1>6, <1>7 DEF Step

LEMMA NextType == TypeOK /\ [Next]_vars => TypeOK'
<1> SUFFICES ASSUME TypeOK, [Next]_vars PROVE TypeOK'
  OBVIOUS
<1>1. ASSUME NEW r \in Requests, Start(r) \/ Step(r) PROVE TypeOK'
  BY <1>1, StartType, StepType
<1>2. ASSUME NEW r \in Requests, Abort(r) PROVE TypeOK'
  BY <1>2, FinishType DEF TypeOK, Abort, rows
<1>3. ASSUME NEW u \in Users, NEW role \in Roles \cup {"none"}, ChangeMember(u, role)
      PROVE  TypeOK'
  BY <1>3 DEF TypeOK, ChangeMember
<1>4. ASSUME NEW u \in Users, RestrictMember(u) PROVE TypeOK'
  BY <1>4 DEF TypeOK, RestrictMember
<1>5. CASE Tick
  BY <1>5 DEF TypeOK, Tick, rows
<1>6. CASE UNCHANGED vars
  BY <1>6 DEF TypeOK, vars
<1> QED BY <1>1, <1>2, <1>3, <1>4, <1>5, <1>6 DEF Next, Rest

LEMMA InitType == Init => TypeOK
<1>1. NoRow \in Row
  BY AnyValues DEF NoRow, Row
<1> QED BY <1>1, IdleType, ConstantsAssumption DEF Init, TypeOK

\* The variables keep their types, whatever the requests do.
THEOREM TypeCorrect == Spec => []TypeOK
  BY InitType, NextType, PTL DEF Spec

-------------------------------------------------------------------------------
(* Sending: what the handlers between their INSERT and their publish owe.  *)

Sending(r) == req[r].pc = "publish" /\ req[r].event = "sent"

Announced(i) == \E n \in DOMAIN log : log[n].type = "sent" /\ log[n].id = i

\* A handler that is about to announce a message stored it for its own sender
\* and key, nobody announced it before, and nobody else is going to.
SendersOwnMessage ==
    \A r \in Requests : Sending(r) =>
        LET id == req[r].id
        IN  /\ messages[id].exists
            /\ messages[id].sender = req[r].actor
            /\ messages[id].key = req[r].key
            /\ ~Announced(id)
            /\ \A s \in Requests : Sending(s) /\ req[s].id = id => s = r

AnnouncedIsStored == \A i \in Ids : Announced(i) => messages[i].exists

AnswersAreRows ==
    \A a \in answers : /\ messages[a[3]].exists
                       /\ messages[a[3]].sender = a[1]
                       /\ messages[a[3]].key = a[2]

\* The unique index on (chat_id, sender_id, client_message_id).
OneMessagePerKey ==
    \A i, j \in Ids :
        /\ messages[i].exists /\ messages[j].exists
        /\ messages[i].sender = messages[j].sender
        /\ messages[i].key = messages[j].key /\ messages[i].key # NoKey
        => i = j

SendInv == TypeOK /\ SendersOwnMessage /\ AnnouncedIsStored /\ AnswersAreRows /\ OneMessagePerKey

\* The statement neither stores nor replaces message i.
SameMessage(i) ==
    /\ messages'[i].exists = messages[i].exists
    /\ messages'[i].sender = messages[i].sender
    /\ messages'[i].key = messages[i].key

SameAnnouncements(i) ==
    {n \in DOMAIN log' : log'[n].type = "sent" /\ log'[n].id = i} = Announcements(i)

\* A step that neither stores nor announces nor answers a message.
Quiet ==
    /\ UNCHANGED answers
    /\ \A r \in Requests : Sending(r)' => Sending(r) /\ req'[r] = req[r]
    /\ \A i \in Ids : SameMessage(i) /\ SameAnnouncements(i)

\* The announcing of a message.
PublishSent(r) == Publish(r) /\ req[r].event = "sent"

LEMMA OtherRequests ==
  ASSUME TypeOK, NEW r \in Requests, NEW q, req' = [req EXCEPT ![r] = q],
         ~(q.pc = "publish" /\ q.event = "sent")
  PROVE  \A s \in Requests : Sending(s)' => Sending(s) /\ req'[s] = req[s]
  BY DEF TypeOK, Sending

LEMMA QuietMove ==
  ASSUME TypeOK, NEW r \in Requests, NEW q, req' = [req EXCEPT ![r] = q],
         ~(q.pc = "publish" /\ q.event = "sent"),
         UNCHANGED <<messages, log, answers>>
  PROVE  Quiet
  BY OtherRequests DEF Quiet, SameMessage, SameAnnouncements, Announcements

LEMMA QuietGoto ==
  ASSUME TypeOK, NEW r \in Requests, NEW s \in Statements \ {"publish"}, Goto(r, s) \/ Finish(r),
         UNCHANGED <<messages, log, answers>>
  PROVE  Quiet
<1>1. CASE Goto(r, s)
  <2> DEFINE q == [req[r] EXCEPT !.pc = s]
  <2>1. q.pc = s
    BY DEF TypeOK, Request
  <2>2. req' = [req EXCEPT ![r] = q]
    BY <1>1 DEF Goto
  <2> HIDE DEF q
  <2> QED BY <2>1, <2>2, QuietMove
<1>2. CASE Finish(r)
  BY <1>2, IdleType, QuietMove DEF Finish
<1> QED BY <1>1, <1>2

\* A request that arrives is not about to announce anything.
LEMMA StartQuiet ==
  ASSUME TypeOK, NEW r \in Requests, Start(r)
  PROVE  Quiet
<1>1. ASSUME NEW actor \in Users, NEW content \in Texts, NEW key \in Keys \cup {NoKey},
             StartSend(r, actor, key, content)
      PROVE  Quiet
  BY <1>1, IdleType, QuietMove DEF StartSend, rows, Request
<1>2. ASSUME NEW actor \in Users, NEW content \in Texts, StartForward(r, actor, content)
      PROVE  Quiet
  BY <1>2, IdleType, QuietMove DEF StartForward, rows, Request
<1>3. ASSUME NEW actor \in Users, NEW content \in Texts, NEW id \in Ids,
             StartEdit(r, actor, id, content)
      PROVE  Quiet
  BY <1>3, IdleType, QuietMove DEF StartEdit, rows, Request
<1>4. ASSUME NEW actor \in Users, NEW id \in Ids, NEW route \in {"delete", "pin"},
             StartChange(r, route, actor, id)
      PROVE  Quiet
  BY <1>4, IdleType, QuietMove DEF StartChange, rows, Request
<1> QED BY <1>1, <1>2, <1>3, <1>4 DEF Start

\* An update of a stored message announces a change of it, not the message.
LEMMA UpdateQuiet ==
  ASSUME TypeOK, NEW r \in Requests, UpdateContent(r) \/ UpdateDeleted(r) \/ TogglePinned(r)
  PROVE  Quiet
<1>1. \A i \in Ids : SameMessage(i)
  <2>1. CASE UpdateContent(r)
    BY <2>1 DEF UpdateContent, TypeOK, Row, SameMessage
  <2>2. CASE UpdateDeleted(r)
    BY <2>2 DEF UpdateDeleted, TypeOK, Row, SameMessage
  <2>3. CASE TogglePinned(r)
    BY <2>3 DEF TogglePinned, TypeOK, Row, SameMessage
  <2> QED BY <2>1, <2>2, <2>3
<1>2. \A i \in Ids : SameAnnouncements(i)
  BY DEF UpdateContent, UpdateDeleted, TogglePinned, SameAnnouncements, Announcements
<1>3. \A s \in Requests : Sending(s)' => Sending(s) /\ req'[s] = req[s]
  <2>1. ASSUME NEW e \in {"edited", "deleted", "pinned", "unpinned"},
               req' = [req EXCEPT ![r] = [req[r] EXCEPT !.pc = "publish", !.event = e]]
        PROVE  \A s \in Requests : Sending(s)' => Sending(s) /\ req'[s] = req[s]
    <3> DEFINE q == [req[r] EXCEPT !.pc = "publish", !.event = e]
    <3>1. q.event = e
      BY DEF TypeOK, Request
    <3> HIDE DEF q
    <3> QED BY <2>1, <3>1, OtherRequests DEF q
  <2>2. ASSUME Finish(r)
        PROVE  \A s \in Requests : Sending(s)' => Sending(s) /\ req'[s] = req[s]
    BY <2>2, IdleType, OtherRequests DEF Finish
  <2> QED BY <2>1, <2>2 DEF UpdateContent, UpdateDeleted, TogglePinned
<1> QED BY <1>1, <1>2, <1>3 DEF Quiet, UpdateContent, UpdateDeleted, TogglePinned

\* The event of a change leaves the announcements as they are.
LEMMA PublishQuiet ==
  ASSUME TypeOK, NEW r \in Requests, Publish(r), req[r].event # "sent"
  PROVE  Quiet
<1>1. \A i \in Ids : SameAnnouncements(i)
  BY DEF Publish, SameAnnouncements, Announcements, TypeOK, Event
<1>2. \A s \in Requests : Sending(s)' => Sending(s) /\ req'[s] = req[s]
  BY IdleType, OtherRequests DEF Publish, Finish
<1> QED BY <1>1, <1>2 DEF Quiet, Publish, SameMessage, rows

LEMMA StepCases ==
  ASSUME TypeOK, [Next]_vars
  PROVE  \/ Quiet
         \/ \E r \in Requests, id \in Ids : Insert(r, id) \/ ReadExisting(r, id)
         \/ \E r \in Requests : PublishSent(r)
<1>1. ASSUME NEW r \in Requests, Start(r) PROVE Quiet
  BY <1>1, StartQuiet
<1>2. ASSUME NEW r \in Requests,
             RequireMember(r) \/ RequireAdmin(r) \/ ReadMe(r) \/ ReadLast(r) \/ ReadMessage(r)
             \/ InsertNothing(r)
      PROVE  Quiet
  <2>1. /\ UNCHANGED <<messages, log, answers>>
        /\ Finish(r) \/ \E s \in Statements \ {"publish"} : Goto(r, s)
    BY <1>2 DEF RequireMember, RequireAdmin, ReadMe, ReadLast, ReadMessage, InsertNothing,
                AfterMember, Statements, rows
  <2>2. "idle" \in Statements \ {"publish"}
    BY DEF Statements
  <2> QED BY <2>1, <2>2, QuietGoto
<1>3. ASSUME NEW r \in Requests, Abort(r) PROVE Quiet
  BY <1>3, IdleType, QuietMove DEF Abort, Finish, rows
<1>4. CASE (\E u \in Users, role \in Roles \cup {"none"} : ChangeMember(u, role))
           \/ (\E u \in Users : RestrictMember(u)) \/ Tick \/ Rest \/ UNCHANGED vars
  BY <1>4 DEF ChangeMember, RestrictMember, Tick, Rest, vars, rows, Quiet, Sending, SameMessage,
              SameAnnouncements, Announcements
<1>5. ASSUME NEW r \in Requests, UpdateContent(r) \/ UpdateDeleted(r) \/ TogglePinned(r)
      PROVE  Quiet
  BY <1>5, UpdateQuiet
<1>6. ASSUME NEW r \in Requests, Publish(r) PROVE Quiet \/ PublishSent(r)
  BY <1>6, PublishQuiet DEF PublishSent
<1> QED BY <1>1, <1>2, <1>3, <1>4, <1>5, <1>6 DEF Next, Step

-------------------------------------------------------------------------------
(* The invariant of sending.                                               *)

LEMMA SameAnnounced ==
  ASSUME NEW i \in Ids, SameAnnouncements(i)
  PROVE  Announced(i)' <=> Announced(i)
  BY DEF SameAnnouncements, Announcements, Announced

LEMMA QuietInv ==
  ASSUME SendInv, TypeOK', Quiet
  PROVE  SendInv'
<1>0. \A i \in Ids : SameMessage(i) /\ (Announced(i)' <=> Announced(i))
  BY SameAnnounced DEF Quiet
<1>1. SendersOwnMessage'
  BY <1>0 DEF SendInv, Quiet, SendersOwnMessage, Sending, TypeOK, Request, SameMessage, Announced
<1>2. AnnouncedIsStored'
  BY <1>0 DEF SendInv, AnnouncedIsStored, SameMessage
<1>3. AnswersAreRows'
  BY <1>0 DEF SendInv, Quiet, AnswersAreRows, TypeOK, SameMessage
<1>4. OneMessagePerKey'
  BY <1>0 DEF SendInv, OneMessagePerKey, SameMessage
<1> QED BY <1>1, <1>2, <1>3, <1>4 DEF SendInv

\* What an INSERT leaves behind.
LEMMA InsertEffect ==
  ASSUME TypeOK, NEW r \in Requests, NEW id \in Ids, Insert(r, id)
  PROVE  /\ ~messages[id].exists
         /\ messages'[id].exists
         /\ messages'[id].sender = req[r].actor
         /\ messages'[id].key = req[r].key
         /\ \A i \in Ids \ {id} : messages'[i] = messages[i]
         /\ log' = log /\ answers' = answers
         /\ req'[r].id = id /\ req'[r].actor = req[r].actor /\ req'[r].key = req[r].key
         /\ \A s \in Requests \ {r} : req'[s] = req[s]
<1>1. req'[r] = [req[r] EXCEPT !.id = id, !.pc = "publish"]
  BY DEF Insert, TypeOK
<1>2. req'[r].id = id /\ req'[r].actor = req[r].actor /\ req'[r].key = req[r].key
  BY <1>1 DEF TypeOK, Request
<1> QED BY <1>2 DEF Insert, TypeOK

LEMMA InsertInv ==
  ASSUME SendInv, TypeOK', NEW r \in Requests, NEW id \in Ids, Insert(r, id)
  PROVE  SendInv'
<1>0. TypeOK
  BY DEF SendInv
<1>1. SendersOwnMessage'
  <2>1. ~Announced(id) /\ \A s \in Requests : Sending(s) => req[s].id # id
    BY <1>0, InsertEffect DEF SendInv, SendersOwnMessage, AnnouncedIsStored
  <2>2. \A s \in Requests \ {r} : Sending(s) => req[s].id \in Ids \ {id}
    BY <1>0, <2>1 DEF TypeOK, Request
  <2> QED BY <1>0, <2>1, <2>2, InsertEffect DEF SendInv, SendersOwnMessage, Sending, Announced
<1>2. AnnouncedIsStored'
  BY <1>0, InsertEffect DEF SendInv, AnnouncedIsStored, Announced
<1>3. AnswersAreRows'
  <2>1. \A a \in answers : a[3] \in Ids \ {id}
    BY <1>0, InsertEffect DEF SendInv, AnswersAreRows, TypeOK
  <2> QED BY <1>0, <2>1, InsertEffect DEF SendInv, AnswersAreRows
<1>4. OneMessagePerKey'
  <2>1. \A i \in Ids : /\ messages[i].exists
                       /\ messages[i].sender = req[r].actor
                       /\ messages[i].key = req[r].key
                       => req[r].key = NoKey
    BY DEF Insert, Conflicts, StoredAs, Stored
  <2> QED BY <1>0, <2>1, InsertEffect DEF SendInv, OneMessagePerKey
<1> QED BY <1>1, <1>2, <1>3, <1>4 DEF SendInv

\* The answer of a duplicate is the row that the index has for the key.
LEMMA ReadExistingInv ==
  ASSUME SendInv, TypeOK', NEW r \in Requests, NEW id \in Ids, ReadExisting(r, id)
  PROVE  SendInv'
<1>1. messages' = messages /\ log' = log
  BY DEF ReadExisting, rows
<1>2. \A s \in Requests : Sending(s)' => Sending(s) /\ req'[s] = req[s]
  BY IdleType, OtherRequests DEF ReadExisting, Finish, SendInv
<1>3. SendersOwnMessage'
  BY <1>1, <1>2 DEF SendInv, SendersOwnMessage, Sending, Announced
<1>4. AnnouncedIsStored' /\ OneMessagePerKey'
  BY <1>1 DEF SendInv, AnnouncedIsStored, OneMessagePerKey, Announced
<1>5. AnswersAreRows'
  BY <1>1 DEF ReadExisting, StoredAs, Stored, SendInv, AnswersAreRows
<1> QED BY <1>3, <1>4, <1>5 DEF SendInv

\* What the publish of a message leaves behind.
LEMMA PublishEffect ==
  ASSUME TypeOK, NEW r \in Requests, PublishSent(r)
  PROVE  /\ messages' = messages
         /\ DOMAIN log' = DOMAIN log \cup {Len(log) + 1} /\ Len(log) + 1 \notin DOMAIN log
         /\ \A n \in DOMAIN log : log'[n] = log[n]
         /\ log'[Len(log) + 1].type = "sent" /\ log'[Len(log) + 1].id = req[r].id
<1>1. log \in Seq(Event) /\ messages' = messages
  BY DEF TypeOK, PublishSent, Publish, rows
<1>2. PICK e : log' = Append(log, e) /\ e.type = "sent" /\ e.id = req[r].id
  BY DEF PublishSent, Publish
<1> QED BY <1>1, <1>2

LEMMA PublishSentInv ==
  ASSUME SendInv, TypeOK', NEW r \in Requests, PublishSent(r)
  PROVE  SendInv'
<1> DEFINE id == req[r].id
<1>0. TypeOK /\ Sending(r) /\ id \in Ids
  BY DEF SendInv, PublishSent, Publish, Sending, TypeOK, Request
<1>1. /\ messages' = messages
      /\ \A i \in Ids \ {id} : Announced(i)' <=> Announced(i)
  BY <1>0, PublishEffect DEF Announced
<1>2. \A s \in Requests : Sending(s)' => Sending(s) /\ req'[s] = req[s] /\ s # r
  BY <1>0, IdleType, OtherRequests DEF PublishSent, Publish, Finish, Sending, TypeOK
<1>3. \A s \in Requests \ {r} : Sending(s) => req[s].id \in Ids \ {id}
  BY <1>0 DEF SendInv, SendersOwnMessage, TypeOK, Request
<1>4. SendersOwnMessage'
  <2>1. SUFFICES ASSUME NEW s \in Requests, Sending(s)'
                 PROVE  /\ messages[req'[s].id].exists
                        /\ messages[req'[s].id].sender = req'[s].actor
                        /\ messages[req'[s].id].key = req'[s].key
                        /\ ~Announced(req[s].id)'
                        /\ \A t \in Requests : Sending(t)' /\ req'[t].id = req'[s].id => t = s
    BY <1>1 DEF SendersOwnMessage
  <2>2. Sending(s) /\ req'[s] = req[s] /\ req[s].id \in Ids \ {id}
    BY <1>2, <1>3, <2>1
  <2>3. ~Announced(req[s].id)
    BY <2>2 DEF SendInv, SendersOwnMessage
  <2>4. ~Announced(req[s].id)'
    BY <1>1, <2>2, <2>3 DEF Announced
  <2> QED BY <1>2, <2>2, <2>4 DEF SendInv, SendersOwnMessage
<1>5. AnnouncedIsStored'
  BY <1>0, <1>1 DEF SendInv, AnnouncedIsStored, SendersOwnMessage
<1>6. AnswersAreRows'
  BY <1>0, <1>1 DEF SendInv, AnswersAreRows, SendersOwnMessage, PublishSent, Publish
<1>7. OneMessagePerKey'
  BY <1>1 DEF SendInv, OneMessagePerKey
<1> QED BY <1>4, <1>5, <1>6, <1>7 DEF SendInv

LEMMA NextInv == SendInv /\ [Next]_vars => SendInv'
<1> SUFFICES ASSUME SendInv, [Next]_vars PROVE SendInv'
  OBVIOUS
<1>1. TypeOK /\ TypeOK'
  BY NextType DEF SendInv
<1> QED BY <1>1, StepCases, QuietInv, InsertInv, ReadExistingInv, PublishSentInv

LEMMA InitInv == Init => SendInv
<1> SUFFICES ASSUME Init PROVE SendInv
  OBVIOUS
<1>1. \A i \in Ids : ~messages[i].exists /\ ~Announced(i)
  BY DEF Init, NoRow, Announced
<1>2. \A r \in Requests : ~Sending(r)
  BY IdleType DEF Init, Sending
<1> QED BY <1>1, <1>2, InitType
        DEF SendInv, SendersOwnMessage, AnnouncedIsStored, AnswersAreRows, OneMessagePerKey, Init

\* The invariant of sending: what a handler is about to announce is its own, stored
\* and not yet announced, and the rows keep the unique index.
THEOREM SendingInvariant == Spec => []SendInv
  BY InitInv, NextInv, PTL DEF Spec

\* However the sends under one key race, are repeated or stop half-way, every
\* answer names the same message.
THEOREM AnswersAlwaysAgree == Spec => []AnswersAgree
<1>1. SendInv => AnswersAgree
  BY DEF SendInv, TypeOK, AnswersAreRows, OneMessagePerKey, AnswersAgree
<1> QED BY <1>1, SendingInvariant, PTL

-------------------------------------------------------------------------------
(* The service implements SendOnce.                                        *)

LEMMA QuietStutters ==
  ASSUME TypeOK, Quiet
  PROVE  UNCHANGED Once!vars
<1>1. Accepted' = Accepted
  BY DEF Quiet, SameMessage, Accepted, Stored
<1>2. TimesAnnounced' = TimesAnnounced
  <2>1. \A i \in Ids : Announcements(i)' = Announcements(i)
    BY DEF Quiet, SameAnnouncements, Announcements
  <2> QED BY <2>1 DEF TimesAnnounced
<1> QED BY <1>1, <1>2 DEF Quiet, Once!vars

\* A stored message is accepted.
LEMMA StoredIsAccepted ==
  ASSUME NEW id \in Ids, messages[id].exists
  PROVE  <<messages[id].sender, messages[id].key, id>> \in Accepted
  BY DEF Accepted, Stored

LEMMA InsertAccepts ==
  ASSUME TypeOK, NEW r \in Requests, NEW id \in Ids, Insert(r, id)
  PROVE  Once!Accept(req[r].actor, req[r].key, id)
<1>1. \A a \in Accepted : a[3] # id
  BY InsertEffect DEF Accepted, Stored
<1>2. req[r].key # NoKey => \A a \in Accepted : a[1] # req[r].actor \/ a[2] # req[r].key
  BY DEF Insert, Conflicts, StoredAs, Accepted, Stored
<1>3. Accepted' = Accepted \cup {<<req[r].actor, req[r].key, id>>}
  <2>1. Stored' = Stored \cup {id} /\ id \notin Stored
    BY InsertEffect DEF Stored
  <2> QED BY <2>1, InsertEffect DEF Accepted, Stored
<1>4. TimesAnnounced' = TimesAnnounced
  <2>1. log' = log
    BY InsertEffect
  <2> QED BY <2>1 DEF TimesAnnounced, Announcements
<1> QED BY <1>1, <1>2, <1>3, <1>4, InsertEffect DEF Once!Accept

LEMMA ReadExistingAnswers ==
  ASSUME NEW r \in Requests, NEW id \in Ids, ReadExisting(r, id)
  PROVE  Once!Answer(req[r].actor, req[r].key, id)
<1>1. <<req[r].actor, req[r].key, id>> \in Accepted
  BY StoredIsAccepted DEF ReadExisting, StoredAs, Stored
<1>2. Accepted' = Accepted /\ TimesAnnounced' = TimesAnnounced
  BY DEF ReadExisting, rows, Accepted, Stored, TimesAnnounced, Announcements
<1> QED BY <1>1, <1>2 DEF ReadExisting, Once!Answer

LEMMA PublishAnnounces ==
  ASSUME SendInv, NEW r \in Requests, PublishSent(r)
  PROVE  Once!Announce(req[r].actor, req[r].key, req[r].id)
<1> DEFINE id == req[r].id
<1>0. /\ TypeOK /\ Sending(r) /\ id \in Ids
      /\ messages[id].exists /\ messages[id].sender = req[r].actor
      /\ messages[id].key = req[r].key /\ ~Announced(id)
  BY DEF SendInv, SendersOwnMessage, PublishSent, Publish, Sending, TypeOK, Request
<1>1. <<req[r].actor, req[r].key, id>> \in Accepted
  BY <1>0, StoredIsAccepted
<1>2. Accepted' = Accepted
  BY DEF PublishSent, Publish, rows, Accepted, Stored
<1>3. /\ Announcements(id) = {}
      /\ {n \in DOMAIN log' : log'[n].type = "sent" /\ log'[n].id = id} = {Len(log) + 1}
  BY <1>0, PublishEffect DEF Announcements, Announced
<1>4. \A i \in Ids \ {id} : SameAnnouncements(i)
  BY <1>0, PublishEffect DEF SameAnnouncements, Announcements
<1>5. TimesAnnounced[id] = 0
  BY <1>0, <1>3, FS_EmptySet DEF TimesAnnounced
<1>6. TimesAnnounced' = [TimesAnnounced EXCEPT ![id] = 1]
  <2>1. Cardinality({n \in DOMAIN log' : log'[n].type = "sent" /\ log'[n].id = id}) = 1
    BY <1>3, FS_Singleton
  <2>2. \A i \in Ids \ {id} :
           Cardinality({n \in DOMAIN log' : log'[n].type = "sent" /\ log'[n].id = i})
           = Cardinality(Announcements(i))
    BY <1>4 DEF SameAnnouncements
  <2> QED BY <1>0, <2>1, <2>2 DEF TimesAnnounced, Announcements
<1> QED BY <1>1, <1>2, <1>5, <1>6 DEF PublishSent, Publish, Once!Announce

\* Whatever requests do, the chat behaves as SendOnce says: each accepted send
\* is one message, announced at most once, and every answer names it.
THEOREM SendOnceImplemented == Spec => ImplementsSendOnce
<1>1. Init => Once!Init
  <2> SUFFICES ASSUME Init PROVE Once!Init
    OBVIOUS
  <2>1. Accepted = {}
    BY DEF Init, NoRow, Accepted, Stored
  <2>2. \A i \in Ids : Cardinality(Announcements(i)) = 0
    <3>1. \A i \in Ids : Announcements(i) = {}
      BY DEF Init, Announcements
    <3> QED BY <3>1, FS_EmptySet
  <2> QED BY <2>1, <2>2 DEF Init, Once!Init, TimesAnnounced
<1>2. SendInv /\ [Next]_vars => [Once!Next]_(Once!vars)
  <2> SUFFICES ASSUME SendInv, [Next]_vars PROVE [Once!Next]_(Once!vars)
    OBVIOUS
  <2>0. TypeOK
    BY DEF SendInv
  <2>1. CASE Quiet
    BY <2>0, <2>1, QuietStutters
  <2>2. ASSUME NEW r \in Requests, NEW id \in Ids, Insert(r, id) \/ ReadExisting(r, id)
        PROVE  Once!Next
    <3>1. req[r].actor \in Users /\ req[r].key \in Keys \cup {NoKey}
      BY <2>0 DEF TypeOK, Request
    <3> QED BY <2>0, <2>2, <3>1, InsertAccepts, ReadExistingAnswers DEF Once!Next
  <2>3. ASSUME NEW r \in Requests, PublishSent(r)
        PROVE  Once!Next
    <3>1. req[r].actor \in Users /\ req[r].key \in Keys \cup {NoKey} /\ req[r].id \in Ids
      BY <2>0 DEF TypeOK, Request
    <3> QED BY <2>3, <3>1, PublishAnnounces DEF Once!Next
  <2> QED BY <2>0, <2>1, <2>2, <2>3, StepCases
<1> QED BY <1>1, <1>2, SendingInvariant, PTL DEF Spec, ImplementsSendOnce, Once!Spec

-------------------------------------------------------------------------------
(* What one step of a request may do to the requests.                      *)

LEMMA GotoFields ==
  ASSUME TypeOK, NEW r \in Requests, NEW s, Goto(r, s)
  PROVE  /\ \A p \in Requests \ {r} : req'[p] = req[p]
         /\ req'[r].pc = s /\ req'[r].route = req[r].route /\ req'[r].actor = req[r].actor
         /\ req'[r].id = req[r].id /\ req'[r].event = req[r].event
         /\ req'[r].content = req[r].content
  BY DEF TypeOK, Goto, Request

LEMMA FinishFields ==
  ASSUME TypeOK, NEW r \in Requests, Finish(r)
  PROVE  /\ \A p \in Requests \ {r} : req'[p] = req[p]
         /\ req'[r] = Idle
  BY DEF TypeOK, Finish

\* The writes leave a request at its publish, and say what of.
LEMMA WriteFields ==
  ASSUME TypeOK, NEW r \in Requests,
         (\E id \in Ids : Insert(r, id)) \/ UpdateContent(r) \/ UpdateDeleted(r) \/ TogglePinned(r),
         ~Finish(r)
  PROVE  /\ \A p \in Requests \ {r} : req'[p] = req[p]
         /\ req'[r].pc = "publish" /\ req'[r].route = req[r].route
         /\ req'[r].actor = req[r].actor /\ req'[r].content = req[r].content
         /\ \A id \in Ids : Insert(r, id) => req'[r].id = id /\ req'[r].event = req[r].event
         /\ UpdateContent(r) => req'[r].id = req[r].id /\ req'[r].event = "edited"
         /\ UpdateDeleted(r) => req'[r].id = req[r].id /\ req'[r].event = "deleted"
         /\ TogglePinned(r)  => /\ req'[r].id = req[r].id
                                /\ req'[r].event = IF messages[req[r].id].pinned
                                                   THEN "unpinned" ELSE "pinned"
<1>0. req \in [Requests -> Request] /\ req[r] \in Request
  BY DEF TypeOK
<1>1. ASSUME NEW id, req' = [req EXCEPT ![r] = [req[r] EXCEPT !.id = id, !.pc = "publish"]]
      PROVE  /\ \A p \in Requests \ {r} : req'[p] = req[p]
             /\ req'[r].pc = "publish" /\ req'[r].route = req[r].route
             /\ req'[r].actor = req[r].actor /\ req'[r].content = req[r].content
             /\ req'[r].id = id /\ req'[r].event = req[r].event
  BY <1>0, <1>1 DEF Request
<1>2. ASSUME NEW e, req' = [req EXCEPT ![r] = [req[r] EXCEPT !.pc = "publish", !.event = e]]
      PROVE  /\ \A p \in Requests \ {r} : req'[p] = req[p]
             /\ req'[r].pc = "publish" /\ req'[r].route = req[r].route
             /\ req'[r].actor = req[r].actor /\ req'[r].content = req[r].content
             /\ req'[r].id = req[r].id /\ req'[r].event = e
  BY <1>0, <1>2 DEF Request
<1>3. ASSUME NEW id \in Ids, Insert(r, id)
      PROVE  /\ req' = [req EXCEPT ![r] = [req[r] EXCEPT !.id = id, !.pc = "publish"]]
             /\ req[r].pc = "insert"
  BY <1>3 DEF Insert
<1>4. ASSUME UpdateContent(r)
      PROVE  /\ req' = [req EXCEPT ![r] = [req[r] EXCEPT !.pc = "publish", !.event = "edited"]]
             /\ req[r].pc = "update" /\ req[r].route = "edit"
  BY <1>4 DEF UpdateContent
<1>5. ASSUME UpdateDeleted(r)
      PROVE  /\ req' = [req EXCEPT ![r] = [req[r] EXCEPT !.pc = "publish", !.event = "deleted"]]
             /\ req[r].pc = "update" /\ req[r].route = "delete"
  BY <1>5 DEF UpdateDeleted
<1>6. ASSUME TogglePinned(r)
      PROVE  /\ req' = [req EXCEPT ![r] =
                           [req[r] EXCEPT !.pc = "publish",
                                          !.event = IF messages[req[r].id].pinned
                                                    THEN "unpinned" ELSE "pinned"]]
             /\ req[r].pc = "update" /\ req[r].route = "pin"
  BY <1>0, <1>6 DEF TogglePinned, TypeOK, Request, Row
<1>7. CASE \E id \in Ids : Insert(r, id)
  BY <1>1, <1>3, <1>4, <1>5, <1>6, <1>7
<1>8. CASE UpdateContent(r)
  BY <1>2, <1>3, <1>4, <1>5, <1>6, <1>8
<1>9. CASE UpdateDeleted(r)
  BY <1>2, <1>3, <1>4, <1>5, <1>6, <1>9
<1>10. CASE TogglePinned(r)
  BY <1>2, <1>3, <1>4, <1>5, <1>6, <1>10
<1> QED BY <1>7, <1>8, <1>9, <1>10

\* A request starts at the first statement of its route, which is no write.
LEMMA StartFields ==
  ASSUME TypeOK, NEW r \in Requests, Start(r)
  PROVE  /\ \A p \in Requests \ {r} : req'[p] = req[p]
         /\ req[r].pc = "idle"
         /\ req'[r].pc \in {"requireMember", "update", "readMessage"}
         /\ req'[r].route \in Routes
         /\ req'[r].route \in {"edit", "delete", "pin"} => messages[req'[r].id].exists
         /\ req'[r].event = "sent"
         /\ UNCHANGED <<messages, log, chat_members, muted>>
<1> DEFINE Started == /\ \A p \in Requests \ {r} : req'[p] = req[p]
                      /\ req[r].pc = "idle"
                      /\ req'[r].pc \in {"requireMember", "update", "readMessage"}
                      /\ req'[r].route \in Routes
                      /\ req'[r].route \in {"edit", "delete", "pin"} => messages[req'[r].id].exists
                      /\ req'[r].event = "sent"
                      /\ UNCHANGED <<messages, log, chat_members, muted>>
<1>1. ASSUME NEW actor \in Users, NEW content \in Texts, NEW key \in Keys \cup {NoKey},
             StartSend(r, actor, key, content)
      PROVE  Started
  <2> DEFINE q == [Idle EXCEPT !.pc = "requireMember", !.actor = actor,
                               !.key = key, !.content = content]
  <2>1. q.pc = "requireMember" /\ q.route = "send" /\ q.event = "sent"
    BY DEF Idle
  <2>2. req' = [req EXCEPT ![r] = q] /\ "send" \in Routes
    BY <1>1 DEF StartSend
  <2> HIDE DEF q
  <2> QED BY <1>1, <2>1, <2>2 DEF StartSend, TypeOK, rows
<1>2. ASSUME NEW actor \in Users, NEW content \in Texts, StartForward(r, actor, content)
      PROVE  Started
  <2> DEFINE q == [Idle EXCEPT !.pc = "requireMember", !.route = "forward",
                               !.actor = actor, !.content = content]
  <2>1. q.pc = "requireMember" /\ q.route = "forward" /\ q.event = "sent"
    BY DEF Idle
  <2>2. req' = [req EXCEPT ![r] = q] /\ "forward" \in Routes
    BY <1>2 DEF StartForward
  <2> HIDE DEF q
  <2> QED BY <1>2, <2>1, <2>2 DEF StartForward, TypeOK, rows
<1>3. ASSUME NEW actor \in Users, NEW content \in Texts, NEW id \in Ids,
             StartEdit(r, actor, id, content)
      PROVE  Started
  <2> DEFINE q == [Idle EXCEPT !.pc = "update", !.route = "edit",
                               !.actor = actor, !.id = id, !.content = content]
  <2>1. q.pc = "update" /\ q.route = "edit" /\ q.id = id /\ q.event = "sent"
    BY DEF Idle
  <2>2. req' = [req EXCEPT ![r] = q] /\ "edit" \in Routes /\ messages[id].exists
    BY <1>3 DEF StartEdit
  <2> HIDE DEF q
  <2> QED BY <1>3, <2>1, <2>2 DEF StartEdit, TypeOK, rows
<1>4. ASSUME NEW actor \in Users, NEW id \in Ids, NEW route \in {"delete", "pin"},
             StartChange(r, route, actor, id)
      PROVE  Started
  <2> DEFINE q == [Idle EXCEPT !.pc = "readMessage", !.route = route,
                               !.actor = actor, !.id = id]
  <2>1. q.pc = "readMessage" /\ q.route = route /\ q.id = id /\ q.event = "sent"
    BY DEF Idle
  <2>2. req' = [req EXCEPT ![r] = q] /\ route \in Routes /\ messages[id].exists
    BY <1>4 DEF StartChange
  <2> HIDE DEF q
  <2> QED BY <1>4, <2>1, <2>2 DEF StartChange, TypeOK, rows
<1> HIDE DEF Started
<1>5. Started
  BY <1>1, <1>2, <1>3, <1>4 DEF Start
<1> QED BY <1>5 DEF Started

\* A step of a request ends it, moves it to a statement that is no publish, or
\* is a write.
LEMMA StepMoves ==
  ASSUME TypeOK, NEW r \in Requests, Step(r)
  PROVE  \/ Finish(r)
         \/ (\E s \in Statements \ {"publish"} : Goto(r, s)) /\ UNCHANGED <<messages, log>>
         \/ (\E id \in Ids : Insert(r, id)) \/ UpdateContent(r) \/ UpdateDeleted(r) \/ TogglePinned(r)
  BY DEF Step, RequireMember, RequireAdmin, ReadMe, ReadLast, ReadMessage, InsertNothing,
         ReadExisting, Publish, AfterMember, Statements, rows

\* No request changes another one, and each keeps its route and its actor.
LEMMA OthersKept ==
  ASSUME TypeOK, NEW r \in Requests, Start(r) \/ Step(r) \/ Abort(r)
  PROVE  \A p \in Requests \ {r} : req'[p] = req[p]
  BY StartFields, StepMoves, GotoFields, FinishFields, WriteFields DEF Abort

LEMMA StepKeeps ==
  ASSUME TypeOK, NEW r \in Requests, Step(r) \/ Abort(r)
  PROVE  \/ req'[r] = Idle
         \/ req'[r].route = req[r].route /\ req'[r].actor = req[r].actor
  BY StepMoves, GotoFields, FinishFields, WriteFields DEF Abort

-------------------------------------------------------------------------------
(* What happens to the rows of messages.                                   *)

LEMMA RowMoves ==
  ASSUME TypeOK, [Next]_vars
  PROVE  \/ UNCHANGED messages
         \/ \E r \in Requests : \/ \E id \in Ids : Insert(r, id)
                                \/ UpdateContent(r) \/ UpdateDeleted(r) \/ TogglePinned(r)
<1>1. ASSUME NEW r \in Requests, Start(r) PROVE UNCHANGED messages
  BY <1>1, StartFields
<1>2. ASSUME NEW r \in Requests, Step(r)
      PROVE  \/ UNCHANGED messages
             \/ \E id \in Ids : Insert(r, id)
             \/ UpdateContent(r) \/ UpdateDeleted(r) \/ TogglePinned(r)
  BY <1>2 DEF Step, RequireMember, RequireAdmin, ReadMe, ReadLast, ReadMessage, InsertNothing,
              ReadExisting, Publish, rows
<1>3. CASE \/ \E r \in Requests : Abort(r)
           \/ \E u \in Users, role \in Roles \cup {"none"} : ChangeMember(u, role)
           \/ \E u \in Users : RestrictMember(u)
           \/ Tick \/ Rest \/ UNCHANGED vars
  BY <1>3 DEF Abort, ChangeMember, RestrictMember, Tick, Rest, vars, rows
<1> QED BY <1>1, <1>2, <1>3 DEF Next

\* The clock and the requests: only Tick moves the one, only requests the other.
LEMMA ClockMoves ==
  ASSUME TypeOK, [Next]_vars
  PROVE  now' = now \/ (Tick /\ UNCHANGED <<messages, req>>)
<1>1. ASSUME NEW r \in Requests, Start(r) PROVE now' = now
  BY <1>1 DEF Start, StartSend, StartForward, StartEdit, StartChange
<1>2. ASSUME NEW r \in Requests, Step(r) \/ Abort(r) PROVE now' = now
  BY <1>2 DEF Step, RequireMember, RequireAdmin, ReadMe, ReadLast, ReadMessage, InsertNothing,
              Insert, ReadExisting, UpdateContent, UpdateDeleted, TogglePinned, Publish, Abort
<1>3. CASE \/ \E u \in Users, role \in Roles \cup {"none"} : ChangeMember(u, role)
           \/ \E u \in Users : RestrictMember(u)
           \/ Tick \/ Rest \/ UNCHANGED vars
  BY <1>3 DEF ChangeMember, RestrictMember, Tick, Rest, vars, rows
<1> QED BY <1>1, <1>2, <1>3 DEF Next

LEMMA RequestMoves ==
  ASSUME TypeOK, [Next]_vars
  PROVE  UNCHANGED req \/ \E r \in Requests : Start(r) \/ Step(r) \/ Abort(r)
  BY DEF Next, ChangeMember, RestrictMember, Tick, Rest, vars

\* What each write does to a row.
LEMMA InsertRow ==
  ASSUME TypeOK, NEW r \in Requests, NEW id \in Ids, Insert(r, id)
  PROVE  /\ \A i \in Ids \ {id} : messages'[i] = messages[i]
         /\ ~messages[id].exists /\ messages'[id].exists
         /\ messages'[id].sender = req[r].actor /\ messages'[id].content = req[r].content
         /\ ~messages'[id].deleted /\ ~messages'[id].pinned /\ messages'[id].at = now
  BY DEF Insert, TypeOK

LEMMA UpdateRow ==
  ASSUME TypeOK, NEW r \in Requests, UpdateContent(r) \/ UpdateDeleted(r) \/ TogglePinned(r)
  PROVE  /\ req[r].id \in Ids /\ req[r].route \in {"edit", "delete", "pin"}
         /\ \A i \in Ids \ {req[r].id} : messages'[i] = messages[i]
         /\ \A i \in Ids : /\ messages'[i].exists = messages[i].exists
                           /\ messages'[i].sender = messages[i].sender
                           /\ messages'[i].at = messages[i].at
         /\ LET old == messages[req[r].id]
                new == messages'[req[r].id]
            IN  /\ UpdateContent(r) => \/ messages' = messages /\ Finish(r)
                                       \/ /\ ~old.deleted /\ ~Finish(r)
                                          /\ new.content = req[r].content
                                          /\ new.deleted = old.deleted /\ new.pinned = old.pinned
                /\ UpdateDeleted(r) => /\ new.deleted /\ new.content = old.content
                                       /\ new.pinned = old.pinned
                /\ TogglePinned(r)  => /\ new.pinned = ~old.pinned /\ new.content = old.content
                                       /\ new.deleted = old.deleted
<1>0. req[r].id \in Ids /\ messages \in [Ids -> Row] /\ req[r].content \in Texts
  BY DEF TypeOK, Request
<1>1. CASE UpdateContent(r)
  <2>1. req[r].route = "edit" /\ ~UpdateDeleted(r) /\ ~TogglePinned(r) /\ req[r].pc = "update"
    BY <1>1 DEF UpdateContent, UpdateDeleted, TogglePinned
  <2>2. CASE messages[req[r].id].sender = req[r].actor /\ ~messages[req[r].id].deleted
    <3>1. ~Finish(r)
      <4>1. req' = [req EXCEPT ![r] = [@ EXCEPT !.pc = "publish", !.event = "edited"]]
        BY <1>1, <2>2 DEF UpdateContent
      <4>2. req'[r].pc = "publish"
        BY <4>1 DEF TypeOK, Request
      <4> QED BY <4>2, FinishFields, IdleType
    <3>2. messages' = [messages EXCEPT ![req[r].id].content = req[r].content]
      BY <1>1, <2>2 DEF UpdateContent
    <3> QED BY <1>0, <2>1, <2>2, <3>1, <3>2 DEF Row
  <2>3. CASE ~(messages[req[r].id].sender = req[r].actor /\ ~messages[req[r].id].deleted)
    BY <1>0, <1>1, <2>1, <2>3 DEF UpdateContent
  <2> QED BY <2>2, <2>3
<1>2. CASE UpdateDeleted(r)
  <2>1. req[r].route = "delete" /\ ~UpdateContent(r) /\ ~TogglePinned(r)
    BY <1>2 DEF UpdateContent, UpdateDeleted, TogglePinned
  <2>2. messages' = [messages EXCEPT ![req[r].id].deleted = TRUE]
    BY <1>2 DEF UpdateDeleted
  <2> QED BY <1>0, <2>1, <2>2 DEF Row
<1>3. CASE TogglePinned(r)
  <2>1. req[r].route = "pin" /\ ~UpdateContent(r) /\ ~UpdateDeleted(r)
    BY <1>3 DEF UpdateContent, UpdateDeleted, TogglePinned
  <2>2. messages' = [messages EXCEPT ![req[r].id].pinned = ~messages[req[r].id].pinned]
    BY <1>3 DEF TogglePinned
  <2> QED BY <1>0, <2>1, <2>2 DEF Row
<1> QED BY <1>1, <1>2, <1>3

-------------------------------------------------------------------------------
(* Deleting is final.                                                      *)

\* A stored message stays stored.
LEMMA StaysStored ==
  ASSUME TypeOK, [Next]_vars, NEW i \in Ids, messages[i].exists
  PROVE  messages'[i].exists
  BY RowMoves, InsertRow, UpdateRow

LEMMA ChangesNext == TypeOK /\ TypeOK' /\ ChangesOfRows /\ [Next]_vars => ChangesOfRows'
<1> SUFFICES ASSUME TypeOK, TypeOK', ChangesOfRows, [Next]_vars PROVE ChangesOfRows'
  OBVIOUS
<1>1. ASSUME NEW r \in Requests, req'[r].route \in {"edit", "delete", "pin"}
      PROVE  messages'[req'[r].id].exists
  <2>1. req[r].id \in Ids /\ req'[r].id \in Ids
    BY DEF TypeOK, Request
  <2>2. CASE req'[r] = req[r]
    BY <1>1, <2>1, <2>2, StaysStored DEF ChangesOfRows
  <2>3. CASE req'[r] # req[r]
    <3>1. Start(r) \/ Step(r) \/ Abort(r)
      BY <2>3, RequestMoves, OthersKept
    <3>2. CASE Start(r)
      BY <1>1, <2>1, <3>2, StartFields, StaysStored
    <3>3. req'[r] # Idle
      BY <1>1 DEF Idle
    <3>4. CASE Step(r) /\ messages[req[r].id].exists /\ req'[r].id = req[r].id
      BY <2>1, <3>4, StaysStored
    <3>5. CASE Step(r) /\ \E id \in Ids : Insert(r, id)
      <4>1. PICK id \in Ids : Insert(r, id)
        BY <3>5
      <4>2. ~Finish(r)
        BY <3>3, FinishFields
      <4> QED BY <4>1, <4>2, InsertRow, WriteFields
    <3>6. CASE Step(r) /\ ~\E id \in Ids : Insert(r, id)
      <4>1. req'[r].route = req[r].route /\ req'[r].id = req[r].id
        BY <3>3, <3>6, StepMoves, FinishFields, GotoFields, WriteFields
      <4> QED BY <1>1, <3>4, <3>6, <4>1 DEF ChangesOfRows
    <3> QED BY <3>1, <3>2, <3>3, <3>5, <3>6, FinishFields DEF Abort
  <2> QED BY <2>2, <2>3
<1>2. ASSUME NEW id \in Ids, messages'[id].deleted \/ messages'[id].pinned
      PROVE  messages'[id].exists
  <2>1. CASE messages[id].exists
    BY <2>1, StaysStored
  <2>2. CASE ~messages[id].exists
    <3>1. ~messages[id].deleted /\ ~messages[id].pinned
      BY <2>2 DEF ChangesOfRows
    <3>2. \A r \in Requests : UpdateContent(r) \/ UpdateDeleted(r) \/ TogglePinned(r)
                               => req[r].id # id
      BY <2>2, UpdateRow DEF ChangesOfRows
    <3> QED BY <1>2, <3>1, <3>2, RowMoves, InsertRow, UpdateRow
  <2> QED BY <2>1, <2>2
<1> QED BY <1>1, <1>2 DEF ChangesOfRows

LEMMA ChangesInvariant == Spec => []ChangesOfRows
<1>1. Init => ChangesOfRows
  BY DEF Init, ChangesOfRows, Idle, NoRow
<1> QED BY <1>1, ChangesNext, TypeCorrect, PTL DEF Spec

\* A deleted message stays deleted, with the content it had, whatever edits and
\* pins race with the delete.
THEOREM DeletingIsFinal == Spec => DeletedIsFinal
<1> DEFINE Final == \A id \in Ids : messages[id].deleted
                      => messages'[id].deleted /\ messages'[id].content = messages[id].content
<1>1. TypeOK /\ ChangesOfRows /\ [Next]_vars => Final
  <2> SUFFICES ASSUME TypeOK, ChangesOfRows, [Next]_vars, NEW id \in Ids, messages[id].deleted
               PROVE  messages'[id].deleted /\ messages'[id].content = messages[id].content
    OBVIOUS
  <2>1. ASSUME NEW r \in Requests, NEW i \in Ids, Insert(r, i)
        PROVE  messages'[id] = messages[id]
    BY <2>1, InsertRow DEF ChangesOfRows
  <2>2. ASSUME NEW r \in Requests, UpdateContent(r) \/ UpdateDeleted(r) \/ TogglePinned(r)
        PROVE  messages'[id].deleted /\ messages'[id].content = messages[id].content
    <3>1. CASE req[r].id # id
      BY <2>2, <3>1, UpdateRow
    <3>2. CASE req[r].id = id
      BY <2>2, <3>2, UpdateRow
    <3> QED BY <3>1, <3>2
  <2> QED BY <2>1, <2>2, RowMoves
<1>2. TypeOK /\ ChangesOfRows /\ [Next]_vars => [Final]_vars
  BY <1>1
<1> QED BY <1>2, TypeCorrect, ChangesInvariant, PTL DEF Spec, DeletedIsFinal

-------------------------------------------------------------------------------
(* Muting and slow mode.  A message of a user comes from a request that    *)
(* has passed the check in question, and none passes it while it holds.    *)

\* One request turns into one message: the sum of both does not grow.
LEMMA SumHolds ==
  ASSUME NEW S, NEW T, NEW P, NEW Q, IsFiniteSet(S), IsFiniteSet(P),
         \/ T = S /\ Q \subseteq P
         \/ \E i, r : T = S \cup {i} /\ r \in P /\ Q \subseteq P \ {r}
  PROVE  Cardinality(T) + Cardinality(Q) <= Cardinality(S) + Cardinality(P)
<1>0. /\ Cardinality(S) \in Nat /\ Cardinality(P) \in Nat
  BY FS_CardinalityType
<1>1. CASE T = S /\ Q \subseteq P
  <2>1. Cardinality(Q) \in Nat /\ Cardinality(Q) <= Cardinality(P)
    BY <1>1, FS_Subset, FS_CardinalityType
  <2> QED BY <1>0, <1>1, <2>1
<1>2. CASE \E i, r : T = S \cup {i} /\ r \in P /\ Q \subseteq P \ {r}
  <2>1. PICK i, r : T = S \cup {i} /\ r \in P /\ Q \subseteq P \ {r}
    BY <1>2
  <2>2. Cardinality(T) = IF i \in S THEN Cardinality(S) ELSE Cardinality(S) + 1
    BY <2>1, FS_AddElement
  <2>3. IsFiniteSet(P \ {r}) /\ Cardinality(P \ {r}) = Cardinality(P) - 1
    BY <2>1, FS_RemoveElement
  <2>4. Cardinality(Q) \in Nat /\ Cardinality(Q) <= Cardinality(P \ {r})
    BY <2>1, <2>3, FS_Subset, FS_CardinalityType
  <2> QED BY <1>0, <2>2, <2>3, <2>4
<1> QED BY <1>1, <1>2

\* The messages of a user change only by an INSERT of their own.
LEMMA SentMoves ==
  ASSUME TypeOK, [Next]_vars, NEW u
  PROVE  \/ SentBy(u)' = SentBy(u)
         \/ \E r \in Requests, id \in Ids : /\ Insert(r, id) /\ req[r].actor = u
                                            /\ SentBy(u)' = SentBy(u) \cup {id}
<1>1. CASE UNCHANGED messages
  BY <1>1 DEF SentBy, Stored
<1>2. ASSUME NEW r \in Requests, UpdateContent(r) \/ UpdateDeleted(r) \/ TogglePinned(r)
      PROVE  SentBy(u)' = SentBy(u)
  BY <1>2, UpdateRow DEF SentBy, Stored
<1>3. ASSUME NEW r \in Requests, NEW id \in Ids, Insert(r, id)
      PROVE  IF req[r].actor = u THEN SentBy(u)' = SentBy(u) \cup {id} ELSE SentBy(u)' = SentBy(u)
  BY <1>3, InsertRow DEF SentBy, Stored
<1> QED BY <1>1, <1>2, <1>3, RowMoves

\* While a user is silenced no request of theirs passes a check that admits it.
LEMMA AdmittedMoves ==
  ASSUME TypeOK, NEW u \in Users, NEW r \in Requests, Start(r) \/ Step(r) \/ Abort(r),
         req[r].route # "forward", Silenced(u),
         chat_members'[u] = chat_members[u], u \in muted' <=> u \in muted
  PROVE  /\ Admitted(u)' \subseteq Admitted(u)
         /\ \A id \in Ids : Insert(r, id) => r \notin Admitted(u)'
<1>1. \A p \in Requests \ {r} : p \in Admitted(u)' <=> p \in Admitted(u)
  <2>1. Restricted(u)' <=> Restricted(u)
    BY DEF Restricted
  <2> QED BY <2>1, OthersKept DEF Admitted
<1>2. ASSUME r \in Admitted(u)', r \notin Admitted(u) PROVE FALSE
  <2>1. /\ req'[r].actor = u /\ req'[r].pc \in {"readLast", "insert", "readMe"}
        /\ req'[r].pc = "readMe" => ~Restricted(u)
    BY <1>2 DEF Admitted, Restricted
  <2>2. ~Finish(r) /\ req'[r] # Idle
    BY <2>1, FinishFields, IdleType
  <2>3. ~Start(r)
    BY <2>1, StartFields
  <2>4. Step(r) /\ req[r].actor = u
    BY <2>1, <2>2, <2>3, StepKeeps DEF Abort
  <2>5. PICK s \in {"readLast", "insert", "readMe"} : Goto(r, s)
    BY <2>1, <2>2, <2>4, StepMoves, GotoFields, WriteFields
  <2>6. \A t : Goto(r, t) => t = s
    BY <2>5, GotoFields
  <2>7. req[r].pc \notin {"readLast", "insert"} /\ (req[r].pc = "readMe" => Restricted(u))
    BY <1>2, <2>4 DEF Admitted
  <2>8. CASE RequireMember(r)
    <3>1. s = AfterMember(req[r].route) /\ chat_members[u] # "none"
      BY <2>2, <2>4, <2>6, <2>8 DEF RequireMember
    <3>2. s = "readMe" /\ ChatType # "channel"
      BY <2>5, <3>1 DEF AfterMember
    <3>3. req'[r].pc = "readMe"
      BY <2>5, <3>2, GotoFields
    <3> QED BY <2>1, <3>1, <3>2, <3>3 DEF Silenced
  <2>9. CASE RequireAdmin(r)
    BY <2>2, <2>4, <2>9 DEF RequireAdmin, Silenced, Restricted
  <2>10. CASE ReadMe(r)
    BY <2>2, <2>4, <2>7, <2>10 DEF ReadMe, Restricted
  <2>11. CASE ReadMessage(r) \/ InsertNothing(r)
    BY <2>2, <2>5, <2>6, <2>11 DEF ReadMessage, InsertNothing
  <2>12. CASE ReadLast(r) \/ \E id \in Ids : Insert(r, id)
    BY <2>7, <2>12 DEF ReadLast, Insert
  <2>13. CASE UpdateContent(r) \/ UpdateDeleted(r) \/ TogglePinned(r)
    BY <2>1, <2>2, <2>13, WriteFields
  <2>14. CASE Publish(r) \/ \E id \in Ids : ReadExisting(r, id)
    BY <2>2, <2>14 DEF Publish, ReadExisting
  <2> QED BY <2>4, <2>8, <2>9, <2>10, <2>11, <2>12, <2>13, <2>14 DEF Step
<1>3. Admitted(u)' \subseteq Admitted(u)
  <2>1. \A p \in Admitted(u)' : p \in Requests
    BY DEF Admitted
  <2> QED BY <1>1, <1>2, <2>1
<1>4. ASSUME NEW id \in Ids, Insert(r, id) PROVE r \notin Admitted(u)'
  <2>1. ~Finish(r)
    <3>1. req' = [req EXCEPT ![r] = [@ EXCEPT !.id = id, !.pc = "publish"]]
      BY <1>4 DEF Insert
    <3>2. req'[r].pc = "publish"
      BY <3>1 DEF TypeOK, Request
    <3> QED BY <3>2, FinishFields, IdleType
  <2>2. req'[r].pc = "publish"
    BY <1>4, <2>1, WriteFields
  <2> QED BY <2>2 DEF Admitted
<1> QED BY <1>3, <1>4

\* Without the forward route, no request is a forward.
LEMMA NothingForwarded ==
  ASSUME "forward" \notin Routes
  PROVE  Spec => [](\A r \in Requests : req[r].route # "forward")
<1> DEFINE I == \A r \in Requests : req[r].route # "forward"
<1>1. Init => I
  BY DEF Init, Idle
<1>2. TypeOK /\ I /\ [Next]_vars => I'
  <2> SUFFICES ASSUME TypeOK, I, [Next]_vars, NEW r \in Requests PROVE req'[r].route # "forward"
    OBVIOUS
  <2>1. CASE req'[r] = req[r]
    BY <2>1
  <2>2. CASE req'[r] # req[r]
    <3>1. Start(r) \/ Step(r) \/ Abort(r)
      BY <2>2, RequestMoves, OthersKept
    <3>2. Idle.route # "forward"
      BY DEF Idle
    <3> QED BY <3>1, <3>2, StartFields, StepKeeps
  <2> QED BY <2>1, <2>2
<1> QED BY <1>1, <1>2, TypeCorrect, PTL DEF Spec

\* Without forwards, a user who may not post stores only what was admitted before
\* they were silenced.
THEOREM SilenceHolds ==
  ASSUME "forward" \notin Routes
  PROVE  Spec => SilencedStaySilent
<1> DEFINE Held == \A u \in Users :
                     /\ Silenced(u)
                     /\ chat_members'[u] = chat_members[u] /\ (u \in muted' <=> u \in muted)
                     => Cardinality(SentBy(u))' + Cardinality(Admitted(u))'
                          <= Cardinality(SentBy(u)) + Cardinality(Admitted(u))
           None == \A r \in Requests : req[r].route # "forward"
<1>1. TypeOK /\ None /\ [Next]_vars => Held
  <2> SUFFICES ASSUME TypeOK, None, [Next]_vars, NEW u \in Users, Silenced(u),
                      chat_members'[u] = chat_members[u], u \in muted' <=> u \in muted
               PROVE  Cardinality(SentBy(u)') + Cardinality(Admitted(u)')
                        <= Cardinality(SentBy(u)) + Cardinality(Admitted(u))
    OBVIOUS
  <2>1. IsFiniteSet(SentBy(u)) /\ IsFiniteSet(Admitted(u))
    <3>1. SentBy(u) \in SUBSET Ids /\ Admitted(u) \in SUBSET Requests
      BY DEF SentBy, Stored, Admitted
    <3> QED BY <3>1, ConstantsAssumption, FS_Subset
  <2>2. Admitted(u)' \subseteq Admitted(u)
    <3>1. CASE UNCHANGED req
      BY <3>1 DEF Admitted, Restricted
    <3> QED BY <3>1, RequestMoves, AdmittedMoves
  <2>3. ASSUME NEW r \in Requests, NEW id \in Ids, Insert(r, id), req[r].actor = u,
               SentBy(u)' = SentBy(u) \cup {id}
        PROVE  r \in Admitted(u) /\ Admitted(u)' \subseteq Admitted(u) \ {r}
    <3>1. r \notin Admitted(u)'
      <4>1. Step(r)
        BY <2>3 DEF Step
      <4> QED BY <2>3, <4>1, AdmittedMoves
    <3>2. r \in Admitted(u)
      BY <2>3 DEF Insert, Admitted
    <3> QED BY <2>2, <3>1, <3>2
  <2>4. \/ SentBy(u)' = SentBy(u) /\ Admitted(u)' \subseteq Admitted(u)
        \/ \E i, r : /\ SentBy(u)' = SentBy(u) \cup {i}
                     /\ r \in Admitted(u) /\ Admitted(u)' \subseteq Admitted(u) \ {r}
    BY <2>2, <2>3, SentMoves
  <2> QED BY <2>1, <2>4, SumHolds
<1>2. TypeOK /\ None /\ [Next]_vars => [Held]_vars
  BY <1>1
<1>3. Spec => []None
  BY NothingForwarded
<1> QED BY <1>2, <1>3, TypeCorrect, PTL DEF Spec, SilencedStaySilent

\* The rows never carry a time of the future.
LEMMA PastInvariant == Spec => []RowsOfThePast
<1>1. Init => RowsOfThePast
  BY DEF Init, RowsOfThePast, NoRow
<1>2. TypeOK /\ RowsOfThePast /\ [Next]_vars => RowsOfThePast'
  <2> SUFFICES ASSUME TypeOK, RowsOfThePast, [Next]_vars, NEW i \in Ids
               PROVE  messages'[i].at <= now'
    BY DEF RowsOfThePast
  <2>1. now \in Nat /\ messages[i].at \in Nat /\ messages[i].at <= now
    BY DEF TypeOK, Row, RowsOfThePast
  <2>2. now' = now \/ (now' = now + 1 /\ messages' = messages)
    BY ClockMoves DEF Tick
  <2>3. ASSUME now' = now PROVE messages'[i].at <= now
    <3>1. \A r \in Requests, id \in Ids :
             Insert(r, id) => messages'[i].at = messages[i].at \/ messages'[i].at = now
      BY InsertRow
    <3> QED BY <2>1, <2>3, <3>1, RowMoves, UpdateRow
  <2> QED BY <2>1, <2>2, <2>3
<1> QED BY <1>1, <1>2, TypeCorrect, PTL DEF Spec

\* While a user has to wait, no request of theirs passes the slow-mode check.
LEMMA PassedMoves ==
  ASSUME TypeOK, RowsOfThePast, NEW u \in Users, NEW r \in Requests,
         Start(r) \/ Step(r) \/ Abort(r), req[r].route # "forward", MustWait(u)
  PROVE  /\ PassedSlow(u)' \subseteq PassedSlow(u)
         /\ \A id \in Ids : Insert(r, id) => r \notin PassedSlow(u)'
<1>1. \A p \in Requests \ {r} : p \in PassedSlow(u)' <=> p \in PassedSlow(u)
  BY OthersKept DEF PassedSlow
<1>2. ASSUME r \in PassedSlow(u)' PROVE FALSE
  <2>1. req'[r].actor = u /\ req'[r].pc = "insert"
    BY <1>2 DEF PassedSlow
  <2>2. ~Finish(r) /\ req'[r] # Idle
    BY <2>1, FinishFields, IdleType
  <2>3. Step(r) /\ req[r].actor = u
    BY <2>1, <2>2, StartFields, StepKeeps DEF Abort
  <2>4. Goto(r, "insert")
    BY <2>1, <2>2, <2>3, StepMoves, GotoFields, WriteFields
  <2>5. \A t : Goto(r, t) => t = "insert"
    BY <2>4, GotoFields
  <2>6. PICK i \in SentBy(u) : now < messages[i].at + SlowMode
    BY DEF MustWait
  <2>7. SlowMode > 0
    <3>1. i \in Ids
      BY DEF SentBy, Stored
    <3>2. messages[i].at \in Nat /\ now \in Nat /\ SlowMode \in Nat /\ messages[i].at <= now
      BY <3>1, ConstantsAssumption DEF TypeOK, Row, RowsOfThePast
    <3> QED BY <2>6, <3>2
  <2>8. CASE RequireMember(r)
    BY <2>2, <2>5, <2>8 DEF RequireMember, AfterMember
  <2>9. CASE RequireAdmin(r)
    BY <2>2, <2>3, <2>9, <2>5 DEF RequireAdmin
  <2>10. CASE ReadMe(r)
    BY <2>2, <2>3, <2>5, <2>7, <2>10 DEF ReadMe, MustWait
  <2>11. CASE ReadMessage(r) \/ InsertNothing(r)
    BY <2>2, <2>5, <2>11 DEF ReadMessage, InsertNothing
  <2>12. CASE ReadLast(r)
    BY <2>2, <2>3, <2>6, <2>12 DEF ReadLast
  <2>13. CASE (\E id \in Ids : Insert(r, id)) \/ UpdateContent(r) \/ UpdateDeleted(r) \/ TogglePinned(r)
    BY <2>1, <2>2, <2>13, WriteFields
  <2>14. CASE Publish(r) \/ \E id \in Ids : ReadExisting(r, id)
    BY <2>2, <2>14 DEF Publish, ReadExisting
  <2> QED BY <2>3, <2>8, <2>9, <2>10, <2>11, <2>12, <2>13, <2>14 DEF Step
<1>3. \A p \in PassedSlow(u)' : p \in Requests
  BY DEF PassedSlow
<1> QED BY <1>1, <1>2, <1>3

\* Without forwards, a user who has to wait stores only what had passed the check
\* before the message they wait for was there.
THEOREM SlowModeIsKept ==
  ASSUME "forward" \notin Routes
  PROVE  Spec => SlowModeHolds
<1> DEFINE Held == \A u \in Users :
                     MustWait(u) /\ MustWait(u)'
                     => Cardinality(SentBy(u))' + Cardinality(PassedSlow(u))'
                          <= Cardinality(SentBy(u)) + Cardinality(PassedSlow(u))
           None == \A r \in Requests : req[r].route # "forward"
<1>1. TypeOK /\ RowsOfThePast /\ None /\ [Next]_vars => Held
  <2> SUFFICES ASSUME TypeOK, RowsOfThePast, None, [Next]_vars, NEW u \in Users, MustWait(u)
               PROVE  Cardinality(SentBy(u)') + Cardinality(PassedSlow(u)')
                        <= Cardinality(SentBy(u)) + Cardinality(PassedSlow(u))
    OBVIOUS
  <2>1. IsFiniteSet(SentBy(u)) /\ IsFiniteSet(PassedSlow(u))
    <3>1. SentBy(u) \in SUBSET Ids /\ PassedSlow(u) \in SUBSET Requests
      BY DEF SentBy, Stored, PassedSlow
    <3> QED BY <3>1, ConstantsAssumption, FS_Subset
  <2>2. PassedSlow(u)' \subseteq PassedSlow(u)
    <3>1. CASE UNCHANGED req
      BY <3>1 DEF PassedSlow
    <3> QED BY <3>1, RequestMoves, PassedMoves
  <2>3. ASSUME NEW r \in Requests, NEW id \in Ids, Insert(r, id), req[r].actor = u,
               SentBy(u)' = SentBy(u) \cup {id}
        PROVE  r \in PassedSlow(u) /\ PassedSlow(u)' \subseteq PassedSlow(u) \ {r}
    <3>1. r \notin PassedSlow(u)'
      <4>1. Step(r)
        BY <2>3 DEF Step
      <4> QED BY <2>3, <4>1, PassedMoves
    <3>2. r \in PassedSlow(u)
      BY <2>3 DEF Insert, PassedSlow
    <3> QED BY <2>2, <3>1, <3>2
  <2>4. \/ SentBy(u)' = SentBy(u) /\ PassedSlow(u)' \subseteq PassedSlow(u)
        \/ \E i, r : /\ SentBy(u)' = SentBy(u) \cup {i}
                     /\ r \in PassedSlow(u) /\ PassedSlow(u)' \subseteq PassedSlow(u) \ {r}
    BY <2>2, <2>3, SentMoves
  <2> QED BY <2>1, <2>4, SumHolds
<1>2. TypeOK /\ RowsOfThePast /\ None /\ [Next]_vars => [Held]_vars
  BY <1>1
<1>3. Spec => []None
  BY NothingForwarded
<1> QED BY <1>2, <1>3, TypeCorrect, PastInvariant, PTL DEF Spec, SlowModeHolds

-------------------------------------------------------------------------------
(* The log accounts for the rows.  An event is counted from the write that *)
(* owes it on, so a publish moves it and only a write adds one.            *)

LEMMA EventsFinite ==
  ASSUME TypeOK, NEW id, NEW types
  PROVE  /\ IsFiniteSet(Events(id, types)) /\ IsFiniteSet(Publishing(id, types))
         /\ Cardinality(Events(id, types)) \in Nat /\ Cardinality(Publishing(id, types)) \in Nat
<1>1. IsFiniteSet(1..Len(log))
  <2>1. Len(log) \in Int
    BY DEF TypeOK
  <2> QED BY <2>1, FS_Interval
<1>2. Events(id, types) \in SUBSET (1..Len(log)) /\ Publishing(id, types) \in SUBSET Requests
  BY DEF Events, Publishing, TypeOK
<1> QED BY <1>1, <1>2, ConstantsAssumption, FS_Subset, FS_CardinalityType

\* A step without a write or a publish leaves every count as it is.
LEMMA CountStays ==
  ASSUME NEW r \in Requests, \A p \in Requests \ {r} : req'[p] = req[p], UNCHANGED log,
         req[r].pc # "publish", req'[r].pc # "publish", NEW id, NEW types
  PROVE  /\ Publishing(id, types)' = Publishing(id, types)
         /\ Events(id, types)' = Events(id, types)
<1>1. \A p \in Requests : p \in Publishing(id, types)' <=> p \in Publishing(id, types)
  BY DEF Publishing
<1>2. \A p : p \in Publishing(id, types) \cup Publishing(id, types)' => p \in Requests
  BY DEF Publishing
<1> QED BY <1>1, <1>2 DEF Events

\* A write owes one more event, of its own message and type.
LEMMA CountGrows ==
  ASSUME TypeOK, NEW r \in Requests, \A p \in Requests \ {r} : req'[p] = req[p], UNCHANGED log,
         req[r].pc # "publish", req'[r].pc = "publish", NEW id, NEW type
  PROVE  Count(id, type)' = IF req'[r].id = id /\ req'[r].event = type
                            THEN Count(id, type) + 1 ELSE Count(id, type)
<1>0. Events(id, {type})' = Events(id, {type}) /\ r \notin Publishing(id, {type})
  BY DEF Events, Publishing
<1>1. CASE req'[r].id = id /\ req'[r].event = type
  <2>1. Publishing(id, {type})' = Publishing(id, {type}) \cup {r}
    BY <1>1 DEF Publishing
  <2>2. Cardinality(Publishing(id, {type})') = Cardinality(Publishing(id, {type})) + 1
    BY <1>0, <2>1, EventsFinite, FS_AddElement
  <2> QED BY <1>0, <1>1, <2>2, EventsFinite DEF Count
<1>2. CASE ~(req'[r].id = id /\ req'[r].event = type)
  <2>1. Publishing(id, {type})' = Publishing(id, {type})
    BY <1>2 DEF Publishing
  <2> QED BY <1>0, <1>2, <2>1 DEF Count
<1> QED BY <1>1, <1>2

\* What a publish appends.
LEMMA PublishAppends ==
  ASSUME TypeOK, NEW r \in Requests, Publish(r)
  PROVE  /\ req[r].id \in Ids /\ req[r].pc = "publish" /\ UNCHANGED messages
         /\ \A p \in Requests \ {r} : req'[p] = req[p]
         /\ req'[r].pc # "publish"
         /\ DOMAIN log' = DOMAIN log \cup {Len(log) + 1} /\ Len(log) + 1 \notin DOMAIN log
         /\ \A n \in DOMAIN log : log'[n] = log[n]
         /\ log'[Len(log) + 1].type = req[r].event /\ log'[Len(log) + 1].id = req[r].id
         /\ log'[Len(log) + 1].content = req[r].content
<1>1. log \in Seq(Event) /\ req[r].id \in Ids /\ UNCHANGED messages /\ req[r].pc = "publish"
  BY DEF TypeOK, Request, Publish, rows
<1>2. Finish(r)
  BY DEF Publish
<1>3. req'[r].pc # "publish" /\ \A p \in Requests \ {r} : req'[p] = req[p]
  BY <1>2, FinishFields, IdleType
<1>4. PICK e : /\ log' = Append(log, e) /\ e.type = req[r].event /\ e.id = req[r].id
               /\ e.content = req[r].content
  BY DEF Publish
<1> QED BY <1>1, <1>3, <1>4

\* A publish moves its event from owed to published.
LEMMA CountMoves ==
  ASSUME TypeOK, NEW r \in Requests, Publish(r), NEW id, NEW type
  PROVE  Count(id, type)' = Count(id, type)
<1> DEFINE n == Len(log) + 1
<1>1. CASE req[r].id = id /\ req[r].event = type
  <2>1. Events(id, {type})' = Events(id, {type}) \cup {n} /\ n \notin Events(id, {type})
    BY <1>1, PublishAppends DEF Events
  <2>2. Publishing(id, {type})' = Publishing(id, {type}) \ {r} /\ r \in Publishing(id, {type})
    BY <1>1, PublishAppends DEF Publishing
  <2>3. Cardinality(Events(id, {type})') = Cardinality(Events(id, {type})) + 1
    BY <2>1, EventsFinite, FS_AddElement
  <2>4. Cardinality(Publishing(id, {type})') = Cardinality(Publishing(id, {type})) - 1
    BY <2>2, EventsFinite, FS_RemoveElement
  <2> QED BY <2>3, <2>4, EventsFinite DEF Count
<1>2. CASE ~(req[r].id = id /\ req[r].event = type)
  <2>1. Events(id, {type})' = Events(id, {type})
    BY <1>2, PublishAppends DEF Events
  <2>2. Publishing(id, {type})' = Publishing(id, {type})
    BY <1>2, PublishAppends DEF Publishing
  <2> QED BY <2>1, <2>2 DEF Count
<1> QED BY <1>1, <1>2

\* Which step is which, for the counts.
LEMMA CountCases ==
  ASSUME TypeOK, ~MayAbort, [Next]_vars
  PROVE  \/ \E r \in Requests : Publish(r)
         \/ \E r \in Requests : \/ \E id \in Ids : Insert(r, id)
                                \/ UpdateContent(r) \/ UpdateDeleted(r) \/ TogglePinned(r)
         \/ /\ UNCHANGED <<messages, log>>
            /\ \/ UNCHANGED req
               \/ \E r \in Requests : /\ \A p \in Requests \ {r} : req'[p] = req[p]
                                      /\ req[r].pc # "publish" /\ req'[r].pc # "publish"
<1>1. ASSUME NEW r \in Requests, Start(r)
      PROVE  /\ UNCHANGED <<messages, log>>
             /\ \A p \in Requests \ {r} : req'[p] = req[p]
             /\ req[r].pc # "publish" /\ req'[r].pc # "publish"
  BY <1>1, StartFields
<1>2. ASSUME NEW r \in Requests, Step(r), ~Publish(r),
             ~\/ \E id \in Ids : Insert(r, id)
              \/ UpdateContent(r) \/ UpdateDeleted(r) \/ TogglePinned(r)
      PROVE  /\ UNCHANGED <<messages, log>>
             /\ \A p \in Requests \ {r} : req'[p] = req[p]
             /\ req[r].pc # "publish" /\ req'[r].pc # "publish"
  <2>1. UNCHANGED <<messages, log>> /\ req[r].pc # "publish"
    BY <1>2 DEF Step, RequireMember, RequireAdmin, ReadMe, ReadLast, ReadMessage, InsertNothing,
                ReadExisting, rows
  <2>2. Finish(r) \/ \E s \in Statements \ {"publish"} : Goto(r, s)
    BY <1>2, StepMoves
  <2>3. /\ \A p \in Requests \ {r} : req'[p] = req[p]
        /\ req'[r].pc # "publish"
    BY <2>2, FinishFields, GotoFields, IdleType
  <2> QED BY <2>1, <2>3
<1>3. CASE \/ \E u \in Users, role \in Roles \cup {"none"} : ChangeMember(u, role)
           \/ \E u \in Users : RestrictMember(u)
           \/ Tick \/ Rest \/ UNCHANGED vars
  BY <1>3 DEF ChangeMember, RestrictMember, Tick, Rest, vars, rows
<1> QED BY <1>1, <1>2, <1>3 DEF Next, Abort

LEMMA AccountNext ==
  ASSUME ~MayAbort
  PROVE  /\ TypeOK /\ TypeOK' /\ ChangesOfRows /\ SentUntilWritten /\ EventsAccount
         /\ [Next]_vars
         => EventsAccount'
<1> SUFFICES ASSUME TypeOK, TypeOK', ChangesOfRows, SentUntilWritten, EventsAccount,
                    [Next]_vars,
                    NEW id \in Ids
             PROVE  /\ Count(id, "sent")' = IF messages'[id].exists THEN 1 ELSE 0
                    /\ messages'[id].exists => Told(id)'
                    /\ messages'[id].deleted <=> Count(id, "deleted")' # 0
                    /\ Count(id, "pinned")'
                         = Count(id, "unpinned")' + (IF messages'[id].pinned THEN 1 ELSE 0)
  BY DEF EventsAccount
<1>0. /\ \A type : Count(id, type) \in Nat
      /\ messages[id] \in Row /\ messages'[id] \in Row
  BY EventsFinite DEF Count, TypeOK
<1>1. ASSUME NEW r \in Requests, Publish(r)
      PROVE  /\ Count(id, "sent")' = IF messages'[id].exists THEN 1 ELSE 0
             /\ messages'[id].exists => Told(id)'
             /\ messages'[id].deleted <=> Count(id, "deleted")' # 0
             /\ Count(id, "pinned")'
                  = Count(id, "unpinned")' + (IF messages'[id].pinned THEN 1 ELSE 0)
  <2>1. UNCHANGED messages
    BY <1>1, PublishAppends
  <2>2. Told(id) => Told(id)'
    <3>1. ASSUME NEW n \in Events(id, {"sent", "edited"}), log[n].content = messages[id].content
          PROVE  Told(id)'
      <4>1. n \in Events(id, {"sent", "edited"})' /\ log'[n] = log[n]
        BY <1>1, <3>1, PublishAppends DEF Events
      <4> QED BY <2>1, <3>1, <4>1 DEF Told
    <3>2. ASSUME NEW p \in Publishing(id, {"sent", "edited"}), req[p].content = messages[id].content
          PROVE  Told(id)'
      <4>1. CASE p # r
        <5>1. p \in Publishing(id, {"sent", "edited"})' /\ req'[p] = req[p]
          BY <1>1, <4>1, PublishAppends DEF Publishing
        <5> QED BY <2>1, <3>2, <5>1 DEF Told
      <4>2. CASE p = r
        <5>1. Len(log) + 1 \in Events(id, {"sent", "edited"})'
          BY <1>1, <4>2, PublishAppends DEF Events, Publishing
        <5>2. log'[Len(log) + 1].content = messages'[id].content
          BY <1>1, <2>1, <3>2, <4>2, PublishAppends
        <5> QED BY <5>1, <5>2 DEF Told
      <4> QED BY <4>1, <4>2
    <3> QED BY <3>1, <3>2 DEF Told
  <2> QED BY <1>1, <2>1, <2>2, CountMoves DEF EventsAccount
<1>2. CASE /\ UNCHANGED <<messages, log>>
           /\ \/ UNCHANGED req
              \/ \E r \in Requests : /\ \A p \in Requests \ {r} : req'[p] = req[p]
                                     /\ req[r].pc # "publish" /\ req'[r].pc # "publish"
  <2>1. \A types : /\ Publishing(id, types)' = Publishing(id, types)
                   /\ Events(id, types)' = Events(id, types)
    <3>1. CASE UNCHANGED req
      BY <1>2, <3>1 DEF Publishing, Events
    <3> QED BY <1>2, <3>1, CountStays
  <2>2. \A type : Count(id, type)' = Count(id, type)
    BY <2>1 DEF Count
  <2>3. \A p \in Publishing(id, {"sent", "edited"}) : req'[p] = req[p]
    BY <1>2 DEF Publishing
  <2>4. Told(id)' <=> Told(id)
    BY <1>2, <2>1, <2>3 DEF Told
  <2> QED BY <1>2, <2>2, <2>4 DEF EventsAccount
<1>3. ASSUME NEW r \in Requests,
             \/ \E i \in Ids : Insert(r, i)
             \/ UpdateContent(r) \/ UpdateDeleted(r) \/ TogglePinned(r),
             ~Finish(r)
      PROVE  /\ UNCHANGED log /\ req[r].pc # "publish"
             /\ \A type : Count(id, type)' = IF req'[r].id = id /\ req'[r].event = type
                                             THEN Count(id, type) + 1 ELSE Count(id, type)
             /\ \A p \in Publishing(id, {"sent", "edited"}) :
                   p \in Publishing(id, {"sent", "edited"})' /\ req'[p] = req[p]
  <2>1. UNCHANGED log /\ req[r].pc # "publish"
    BY <1>3 DEF Insert, UpdateContent, UpdateDeleted, TogglePinned
  <2>2. req'[r].pc = "publish" /\ \A p \in Requests \ {r} : req'[p] = req[p]
    BY <1>3, WriteFields
  <2>3. \A type : Count(id, type)' = IF req'[r].id = id /\ req'[r].event = type
                                     THEN Count(id, type) + 1 ELSE Count(id, type)
    BY <2>1, <2>2, CountGrows
  <2> QED BY <2>1, <2>2, <2>3 DEF Publishing
\* A write that leaves the row's content leaves what tells it.
<1>4. ASSUME NEW r \in Requests,
             \/ \E i \in Ids : Insert(r, i)
             \/ UpdateContent(r) \/ UpdateDeleted(r) \/ TogglePinned(r),
             ~Finish(r), messages'[id].content = messages[id].content, Told(id)
      PROVE  Told(id)'
  <2>1. UNCHANGED log /\ \A p \in Publishing(id, {"sent", "edited"}) :
                            p \in Publishing(id, {"sent", "edited"})' /\ req'[p] = req[p]
    BY <1>3, <1>4
  <2>2. Events(id, {"sent", "edited"})' = Events(id, {"sent", "edited"})
    BY <2>1 DEF Events
  <2> QED BY <1>4, <2>1, <2>2 DEF Told
<1>5. ASSUME NEW r \in Requests, NEW i \in Ids, Insert(r, i)
      PROVE  /\ Count(id, "sent")' = IF messages'[id].exists THEN 1 ELSE 0
             /\ messages'[id].exists => Told(id)'
             /\ messages'[id].deleted <=> Count(id, "deleted")' # 0
             /\ Count(id, "pinned")'
                  = Count(id, "unpinned")' + (IF messages'[id].pinned THEN 1 ELSE 0)
  <2>0. ~Finish(r)
    <3>1. req' = [req EXCEPT ![r] = [@ EXCEPT !.id = i, !.pc = "publish"]]
      BY <1>5 DEF Insert
    <3>2. req'[r].pc = "publish"
      BY <3>1 DEF TypeOK, Request
    <3> QED BY <3>2, FinishFields, IdleType
  <2>1. req'[r].id = i /\ req'[r].event = req[r].event /\ req'[r].content = req[r].content
        /\ req'[r].pc = "publish"
    BY <1>5, <2>0, WriteFields
  <2>2. req'[r].event = "sent"
    BY <1>5, <2>1 DEF Insert, SentUntilWritten
  <2>3. \A type : Count(id, type)' = IF i = id /\ "sent" = type
                                     THEN Count(id, type) + 1 ELSE Count(id, type)
    BY <1>3, <1>5, <2>0, <2>1, <2>2
  <2>4. /\ Count(id, "sent")' = IF i = id THEN Count(id, "sent") + 1 ELSE Count(id, "sent")
        /\ Count(id, "deleted")' = Count(id, "deleted")
        /\ Count(id, "pinned")' = Count(id, "pinned")
        /\ Count(id, "unpinned")' = Count(id, "unpinned")
    BY <2>3
  <2>5. CASE i = id
    <3>1. r \in Publishing(id, {"sent", "edited"})'
      BY <2>1, <2>2, <2>5 DEF Publishing
    <3>2. Told(id)'
      BY <1>5, <2>1, <2>5, <3>1, InsertRow DEF Told
    <3>3. ~messages[id].exists /\ ~messages[id].deleted /\ ~messages[id].pinned
      BY <1>5, <2>5, InsertRow DEF ChangesOfRows
    <3> QED BY <1>0, <1>5, <2>4, <2>5, <3>2, <3>3, InsertRow DEF EventsAccount
  <2>6. CASE i # id
    <3>1. messages'[id] = messages[id]
      BY <1>5, <2>6, InsertRow
    <3>2. Told(id) => Told(id)'
      BY <1>4, <1>5, <2>0, <3>1
    <3> QED BY <2>4, <2>6, <3>1, <3>2 DEF EventsAccount
  <2> QED BY <2>5, <2>6
<1>6. ASSUME NEW r \in Requests, UpdateContent(r) \/ UpdateDeleted(r) \/ TogglePinned(r)
      PROVE  /\ Count(id, "sent")' = IF messages'[id].exists THEN 1 ELSE 0
             /\ messages'[id].exists => Told(id)'
             /\ messages'[id].deleted <=> Count(id, "deleted")' # 0
             /\ Count(id, "pinned")'
                  = Count(id, "unpinned")' + (IF messages'[id].pinned THEN 1 ELSE 0)
  <2>1. CASE Finish(r)
    <3>1. ~UpdateDeleted(r) /\ ~TogglePinned(r)
      <4>1. req'[r].pc # "publish" /\ req'[r] = Idle
        BY <2>1, FinishFields, IdleType
      <4>2. ASSUME NEW e, req' = [req EXCEPT ![r] = [req[r] EXCEPT !.pc = "publish", !.event = e]]
            PROVE  FALSE
        <5>1. req'[r].pc = "publish"
          BY <4>2 DEF TypeOK, Request
        <5> QED BY <4>1, <5>1
      <4> QED BY <4>2 DEF UpdateDeleted, TogglePinned
    <3>2. UNCHANGED messages /\ req[r].pc = "update" /\ UNCHANGED log
      BY <1>6, <2>1, <3>1, UpdateRow DEF UpdateContent
    <3> QED BY <1>2, <2>1, <3>2, FinishFields, IdleType
  <2>2. CASE ~Finish(r)
    <3>1. req'[r].event # "sent" /\ req'[r].id = req[r].id /\ req'[r].pc = "publish"
          /\ req'[r].content = req[r].content
      BY <1>6, <2>2, WriteFields
    <3>2. \A type : Count(id, type)' = IF req[r].id = id /\ req'[r].event = type
                                       THEN Count(id, type) + 1 ELSE Count(id, type)
      BY <1>3, <1>6, <2>2, <3>1
    <3>3. messages'[id].exists = messages[id].exists /\ Count(id, "sent")' = Count(id, "sent")
      BY <1>6, <3>1, <3>2, UpdateRow
    <3>4. CASE req[r].id # id
      <4>1. messages'[id] = messages[id]
        BY <1>6, <3>4, UpdateRow
      <4>2. Told(id) => Told(id)'
        BY <1>4, <1>6, <2>2, <4>1
      <4> QED BY <3>2, <3>4, <4>1, <4>2 DEF EventsAccount
    <3>5. CASE req[r].id = id /\ UpdateContent(r)
      <4>1. /\ messages'[id].content = req[r].content /\ messages'[id].deleted = messages[id].deleted
            /\ messages'[id].pinned = messages[id].pinned /\ req'[r].event = "edited"
        BY <2>2, <3>5, UpdateRow, WriteFields
      <4>2. r \in Publishing(id, {"sent", "edited"})'
        BY <3>1, <3>5, <4>1 DEF Publishing
      <4>3. Told(id)'
        BY <3>1, <4>1, <4>2 DEF Told
      <4>4. /\ Count(id, "deleted")' = Count(id, "deleted")
            /\ Count(id, "pinned")' = Count(id, "pinned")
            /\ Count(id, "unpinned")' = Count(id, "unpinned")
        BY <3>2, <4>1
      <4> QED BY <3>3, <4>1, <4>3, <4>4 DEF EventsAccount
    <3>6. CASE req[r].id = id /\ UpdateDeleted(r)
      <4>1. /\ messages'[id].content = messages[id].content /\ messages'[id].deleted
            /\ messages'[id].pinned = messages[id].pinned /\ req'[r].event = "deleted"
        BY <2>2, <3>6, UpdateRow, WriteFields
      <4>2. Told(id) => Told(id)'
        BY <1>4, <2>2, <3>6, <4>1
      <4>3. /\ Count(id, "deleted")' = Count(id, "deleted") + 1
            /\ Count(id, "pinned")' = Count(id, "pinned")
            /\ Count(id, "unpinned")' = Count(id, "unpinned")
        BY <3>2, <3>6, <4>1
      <4>4. Count(id, "deleted")' # 0
        BY <1>0, <4>3
      <4> QED BY <3>3, <4>1, <4>2, <4>3, <4>4 DEF EventsAccount
    <3>7. CASE req[r].id = id /\ TogglePinned(r)
      <4>1. /\ messages'[id].content = messages[id].content
            /\ messages'[id].deleted = messages[id].deleted
            /\ messages'[id].pinned = ~messages[id].pinned
            /\ req'[r].event = IF messages[id].pinned THEN "unpinned" ELSE "pinned"
        BY <2>2, <3>7, UpdateRow, WriteFields
      <4>2. Told(id) => Told(id)'
        BY <1>4, <2>2, <3>7, <4>1
      <4>3. /\ Count(id, "deleted")' = Count(id, "deleted")
            /\ Count(id, "pinned")' = IF messages[id].pinned
                                      THEN Count(id, "pinned") ELSE Count(id, "pinned") + 1
            /\ Count(id, "unpinned")' = IF messages[id].pinned
                                        THEN Count(id, "unpinned") + 1 ELSE Count(id, "unpinned")
        BY <3>2, <3>7, <4>1
      <4>4. Count(id, "pinned")' = Count(id, "unpinned")' + (IF messages'[id].pinned THEN 1 ELSE 0)
        <5>0. /\ Count(id, "pinned")
                   = Count(id, "unpinned") + (IF messages[id].pinned THEN 1 ELSE 0)
              /\ messages'[id].pinned = ~messages[id].pinned
          BY <4>1 DEF EventsAccount
        <5> HIDE DEF Count
        <5>1. CASE messages[id].pinned
          <6>1. ~messages'[id].pinned
            BY <5>0, <5>1
          <6>2. /\ Count(id, "pinned") = Count(id, "unpinned") + 1
                /\ Count(id, "pinned")' = Count(id, "pinned")
                /\ Count(id, "unpinned")' = Count(id, "unpinned") + 1
            BY <4>3, <5>0, <5>1
          <6>3. Count(id, "pinned")' = Count(id, "unpinned")' + 0
            BY <1>0, <6>2
          <6> QED BY <6>1, <6>3
        <5>2. CASE ~messages[id].pinned
          <6>1. messages'[id].pinned
            BY <5>0, <5>2
          <6>2. /\ Count(id, "pinned") = Count(id, "unpinned") + 0
                /\ Count(id, "pinned")' = Count(id, "pinned") + 1
                /\ Count(id, "unpinned")' = Count(id, "unpinned")
            BY <4>3, <5>0, <5>2
          <6>3. Count(id, "pinned")' = Count(id, "unpinned")' + 1
            BY <1>0, <6>2
          <6> QED BY <6>1, <6>3
        <5> QED BY <5>1, <5>2
      <4> QED BY <3>3, <4>1, <4>2, <4>3, <4>4 DEF EventsAccount
    <3> QED BY <1>6, <3>4, <3>5, <3>6, <3>7
  <2> QED BY <2>1, <2>2
<1> QED
  BY <1>1, <1>2, <1>5, <1>6, CountCases

LEMMA SentUntilWrittenNext ==
  TypeOK /\ SentUntilWritten /\ [Next]_vars => SentUntilWritten'
<1> SUFFICES ASSUME TypeOK, SentUntilWritten, [Next]_vars, NEW r \in Requests,
                    req'[r].pc # "publish"
             PROVE  req'[r].event = "sent"
  BY DEF SentUntilWritten
<1>1. CASE req'[r] = req[r]
  BY <1>1 DEF SentUntilWritten
<1>2. CASE req'[r] # req[r]
  <2>1. Start(r) \/ Step(r) \/ Abort(r)
    BY <1>2, RequestMoves, OthersKept
  <2>2. CASE Start(r)
    BY <2>2, StartFields
  <2>3. Idle.event = "sent"
    BY DEF Idle
  <2>4. CASE Step(r)
    <3>1. CASE Finish(r)
      BY <2>3, <3>1, FinishFields
    <3>2. ASSUME NEW s \in Statements \ {"publish"}, Goto(r, s), req[r].pc # "publish"
          PROVE  req'[r].event = "sent"
      BY <3>2, GotoFields DEF SentUntilWritten
    <3>3. CASE Publish(r)
      BY <3>1, <3>3 DEF Publish
    <3>4. req[r].pc = "publish" => Publish(r)
      BY <2>4 DEF Step, RequireMember, RequireAdmin, ReadMe, ReadLast, ReadMessage, Insert,
                  InsertNothing, ReadExisting, UpdateContent, UpdateDeleted, TogglePinned
    <3> QED BY <2>4, <3>1, <3>2, <3>3, <3>4, StepMoves, WriteFields
  <2> QED BY <2>1, <2>2, <2>3, <2>4, FinishFields DEF Abort
<1> QED BY <1>1, <1>2

\* When handlers run to their end, the events, with those that are on their way,
\* account for the rows in every state.
LEMMA AccountInvariant ==
  ASSUME ~MayAbort
  PROVE  Spec => []EventsAccount
<1>1. Init => EventsAccount /\ SentUntilWritten
  <2> SUFFICES ASSUME Init PROVE EventsAccount /\ SentUntilWritten
    OBVIOUS
  <2>1. \A id, types : Events(id, types) = {} /\ Publishing(id, types) = {}
    BY IdleType DEF Init, Events, Publishing
  <2>2. \A id, type : Count(id, type) = 0
    BY <2>1, FS_EmptySet DEF Count
  <2>3. \A id \in Ids : ~messages[id].exists /\ ~messages[id].deleted /\ ~messages[id].pinned
    BY DEF Init, NoRow
  <2> QED BY <2>2, <2>3 DEF Init, Idle, EventsAccount, SentUntilWritten
<1>2. /\ TypeOK /\ TypeOK' /\ ChangesOfRows /\ (EventsAccount /\ SentUntilWritten)
      /\ [Next]_vars
      => (EventsAccount /\ SentUntilWritten)'
  BY AccountNext, SentUntilWrittenNext
<1> QED BY <1>1, <1>2, TypeCorrect, ChangesInvariant, PTL DEF Spec

\* Handlers that run to their end leave a log that accounts for every row: one
\* announcement, the content, the deletion and the pinning.
THEOREM LogAccounts ==
  ASSUME ~MayAbort
  PROVE  Spec => []LogAccountsForRows
<1>1. TypeOK /\ EventsAccount => LogAccountsForRows
  <2> SUFFICES ASSUME TypeOK, EventsAccount, \A r \in Requests : req[r].pc = "idle",
                      NEW id \in Stored
               PROVE  /\ Cardinality(Events(id, {"sent"})) = 1
                      /\ \E n \in Events(id, {"sent", "edited"}) :
                            log[n].content = messages[id].content
                      /\ messages[id].deleted <=> Events(id, {"deleted"}) # {}
                      /\ Cardinality(Events(id, {"pinned"}))
                           = Cardinality(Events(id, {"unpinned"}))
                             + (IF messages[id].pinned THEN 1 ELSE 0)
    BY DEF LogAccountsForRows
  <2>1. \A types : Publishing(id, types) = {}
    BY DEF Publishing
  <2>2. \A type : Count(id, type) = Cardinality(Events(id, {type}))
    <3>1. Cardinality({}) = 0
      BY FS_EmptySet
    <3> QED BY <2>1, <3>1, EventsFinite DEF Count
  <2>3. id \in Ids /\ messages[id].exists
    BY DEF Stored
  <2>4. Cardinality(Events(id, {"deleted"})) # 0 <=> Events(id, {"deleted"}) # {}
    BY EventsFinite, FS_EmptySet
  <2> QED BY <2>1, <2>2, <2>3, <2>4 DEF EventsAccount, Told
<1> QED BY <1>1, AccountInvariant, TypeCorrect, PTL

===============================================================================
