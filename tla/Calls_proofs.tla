----------------------------- MODULE Calls_proofs -----------------------------
(***************************************************************************)
(* Theorems about Calls: type correctness; a live call is never left       *)
(* without participants; a client rings only for a live call; how far a    *)
(* group call is overfilled; a live call admits no further one; one who is *)
(* not a member enters no call.  They hold for any users, calls, requests, *)
(* changes of membership and stopped handlers.                             *)
(***************************************************************************)
EXTENDS Calls, FiniteSetTheorems, TLAPS

LEMMA IdleType == Idle \in Request
  BY ConstantsAssumption DEF Idle, Request, Statements, Routes, CallStatus, Events

\* A step of one request leaves the others where they are.
LEMMA Move ==
  ASSUME req \in [Requests -> Request], NEW r \in Requests, NEW q \in Request,
         req' = [req EXCEPT ![r] = q]
  PROVE  /\ req' \in [Requests -> Request]
         /\ req'[r] = q
         /\ \A s \in Requests \ {r} : req'[s] = req[s]
  OBVIOUS

LEMMA GotoMove ==
  ASSUME req \in [Requests -> Request], NEW r \in Requests, NEW s \in Statements, Goto(r, s)
  PROVE  /\ req' \in [Requests -> Request]
         /\ req'[r].pc = s /\ req'[r].call = req[r].call /\ req'[r].event = req[r].event
         /\ req'[r].route = req[r].route
         /\ \A t \in Requests \ {r} : req'[t] = req[t]
<1> DEFINE q == [req[r] EXCEPT !.pc = s]
<1>1. q \in Request /\ q.pc = s /\ q.call = req[r].call /\ q.event = req[r].event
      /\ q.route = req[r].route
  BY DEF Request
<1>2. req' = [req EXCEPT ![r] = q]
  BY DEF Goto
<1> HIDE DEF q
<1> QED BY <1>1, <1>2, Move

\* A statement that ends with an event to publish.
LEMMA EventMove ==
  ASSUME req \in [Requests -> Request], NEW r \in Requests, NEW s \in Statements,
         NEW e \in Events, req' = [req EXCEPT ![r] = [req[r] EXCEPT !.pc = s, !.event = e]]
  PROVE  /\ req' \in [Requests -> Request]
         /\ req'[r].pc = s /\ req'[r].call = req[r].call /\ req'[r].event = e
         /\ req'[r].route = req[r].route
         /\ \A t \in Requests \ {r} : req'[t] = req[t]
<1> DEFINE q == [req[r] EXCEPT !.pc = s, !.event = e]
<1>1. q \in Request /\ q.pc = s /\ q.call = req[r].call /\ q.event = e /\ q.route = req[r].route
  BY DEF Request
<1> HIDE DEF q
<1> QED BY <1>1, Move DEF q

\* A leave that ends the call has seen nobody in it, or it is a call of two.
LEMMA CountLeftMove ==
  ASSUME req \in [Requests -> Request], NEW r \in Requests, CountLeft(r)
  PROVE  /\ req' \in [Requests -> Request]
         /\ req'[r].call = req[r].call /\ req'[r].event = "left" /\ req'[r].route = req[r].route
         /\ req'[r].pc \in {"setEnded", "publish"}
         /\ call_participants[req[r].call] = {} => req'[r].pc = "setEnded"
         /\ \A t \in Requests \ {r} : req'[t] = req[t]
<1> DEFINE remaining == Cardinality(call_participants[req[r].call])
           s == IF remaining = 0 \/ (~req[r].isGroup /\ remaining <= 1)
                THEN "setEnded" ELSE "publish"
<1>1. call_participants[req[r].call] = {} => s = "setEnded"
  BY FS_EmptySet
<1>2. s \in {"setEnded", "publish"}
  OBVIOUS
<1>3. req' = [req EXCEPT ![r] = [req[r] EXCEPT !.pc = s, !.event = "left"]]
  BY DEF CountLeft
<1> HIDE DEF s
<1> QED BY <1>1, <1>2, <1>3, EventMove DEF Statements, Events

LEMMA FinishMove ==
  ASSUME req \in [Requests -> Request], NEW r \in Requests, Finish(r)
  PROVE  /\ req' \in [Requests -> Request]
         /\ req'[r].pc = "idle"
         /\ \A s \in Requests \ {r} : req'[s] = req[s]
<1>1. Idle.pc = "idle"
  BY DEF Idle
<1> QED BY <1>1, IdleType, Move DEF Finish

\* InsertCall gives the request its call.
LEMMA InsertMove ==
  ASSUME req \in [Requests -> Request], NEW r \in Requests, NEW c \in CallIds, InsertCall(r, c)
  PROVE  /\ req' \in [Requests -> Request]
         /\ req'[r].pc = "addParticipant" /\ req'[r].call = c
         /\ req'[r].event = req[r].event /\ req'[r].route = req[r].route
         /\ \A s \in Requests \ {r} : req'[s] = req[s]
<1> DEFINE q == [req[r] EXCEPT !.call = c, !.pc = "addParticipant"]
<1>1. q \in Request /\ q.pc = "addParticipant" /\ q.call = c /\ q.event = req[r].event
      /\ q.route = req[r].route
  BY DEF Request, Statements
<1>2. req' = [req EXCEPT ![r] = q]
  BY DEF InsertCall
<1> HIDE DEF q
<1> QED BY <1>1, <1>2, Move

\* A request that arrives is about to be checked.
LEMMA ArrivalMove ==
  ASSUME TypeOK, NEW r \in Requests, NEW actor \in Users, NEW isGroup \in BOOLEAN,
         NEW route \in Routes, NEW call \in CallIds,
         Start(r, actor, isGroup) \/ Act(r, route, actor, call)
  PROVE  /\ req' \in [Requests -> Request]
         /\ req'[r].pc = "requireMember"
         /\ \A s \in Requests \ {r} : req'[s] = req[s]
<1>1. CASE Start(r, actor, isGroup)
  <2> DEFINE q == [Idle EXCEPT !.pc = "requireMember", !.route = "start",
                               !.actor = actor, !.isGroup = isGroup]
  <2>1. q \in Request /\ q.pc = "requireMember"
    BY IdleType DEF Request, Statements, Routes
  <2>2. req' = [req EXCEPT ![r] = q]
    BY <1>1 DEF Start
  <2> HIDE DEF q
  <2> QED BY <2>1, <2>2, Move DEF TypeOK
<1>2. CASE Act(r, route, actor, call)
  <2> DEFINE takesPart == IF actor \in call_participants[call] THEN "participant" ELSE "none"
             seen == IF route = "leave" THEN takesPart ELSE calls[call].status
             group == calls[call].isGroup
  <2>1. seen \in CallStatus \cup {"participant"} /\ group \in BOOLEAN
    BY DEF TypeOK, Call, CallStatus
  <2>2. req' = [req EXCEPT ![r] = [Idle EXCEPT !.pc = "requireMember", !.route = route,
                                     !.actor = actor, !.call = call, !.isGroup = group,
                                     !.seen = seen]]
    BY <1>2 DEF Act
  <2> HIDE DEF seen, group
  <2> DEFINE q == [Idle EXCEPT !.pc = "requireMember", !.route = route, !.actor = actor,
                               !.call = call, !.isGroup = group, !.seen = seen]
  <2>3. q \in Request /\ q.pc = "requireMember"
    BY <2>1, IdleType DEF Request, Statements
  <2> HIDE DEF q
  <2> QED BY <2>2, <2>3, Move DEF TypeOK, q
<1> QED BY <1>1, <1>2

-------------------------------------------------------------------------------
(* A quiet step leaves the rows and the client as they are, and moves one  *)
(* request between statements that no invariant speaks about.              *)

QuietStatements == {"idle", "requireMember", "readActive", "insertCall", "count", "setActive",
                    "removeParticipant", "countDecline", "setDeclined"}

Quiet ==
    /\ UNCHANGED <<calls, call_participants, incomingCall, overtaken, stopped>>
    /\ chat_members' \subseteq Users
    /\ req' \in [Requests -> Request]
    /\ \A s \in Requests : \/ req'[s] = req[s]
                           \/ req[s].pc \in QuietStatements /\ req'[s].pc \in QuietStatements
                           \/ /\ req[s].pc = "count" /\ req'[s].pc = "addParticipant"
                              /\ req'[s].route = req[s].route

LEMMA QuietSteps ==
  ASSUME TypeOK, NEW r \in Requests,
         \/ \E actor \in Users, isGroup \in BOOLEAN : Start(r, actor, isGroup)
         \/ \E route \in Routes, actor \in Users, call \in CallIds : Act(r, route, actor, call)
         \/ RequireChatMember(r) \/ ReadActive(r) \/ Count(r) \/ CountDecline(r)
  PROVE  Quiet
<1> USE DEF QuietStatements, Quiet
<1>1. ASSUME NEW actor \in Users, NEW isGroup \in BOOLEAN, Start(r, actor, isGroup)
      PROVE  Quiet
  <2>1. PICK route \in Routes, call \in CallIds : TRUE
    BY ConstantsAssumption DEF Routes
  <2> QED BY <1>1, <2>1, ArrivalMove DEF Start, db, TypeOK
<1>2. ASSUME NEW route \in Routes, NEW actor \in Users, NEW call \in CallIds,
             Act(r, route, actor, call)
      PROVE  Quiet
  BY <1>2, ArrivalMove DEF Act, db, TypeOK
<1>3. CASE RequireChatMember(r)
  <2>1. AfterMember(req[r]) \in {"readActive", "count", "removeParticipant", "countDecline",
                                 "idle"}
    BY DEF AfterMember
  <2>2. CASE Finish(r)
    BY <1>3, <2>2, FinishMove DEF RequireChatMember, db, TypeOK
  <2>3. CASE Goto(r, AfterMember(req[r]))
    BY <1>3, <2>1, <2>3, GotoMove DEF RequireChatMember, db, TypeOK, Statements
  <2> QED BY <1>3, <2>2, <2>3 DEF RequireChatMember
<1>4. CASE ReadActive(r)
  <2>1. CASE Finish(r)
    BY <1>4, <2>1, FinishMove DEF ReadActive, db, TypeOK
  <2>2. CASE Goto(r, "insertCall")
    BY <1>4, <2>2, GotoMove DEF ReadActive, db, TypeOK, Statements
  <2> QED BY <1>4, <2>1, <2>2 DEF ReadActive
<1>5. CASE Count(r)
  <2>1. CASE Finish(r)
    BY <1>5, <2>1, FinishMove DEF Count, db, TypeOK
  <2>2. ASSUME NEW s \in {"setActive", "addParticipant"}, Goto(r, s) PROVE Quiet
    BY <1>5, <2>2, GotoMove DEF Count, db, TypeOK, Statements
  <2> QED BY <1>5, <2>1, <2>2 DEF Count
<1>6. CASE CountDecline(r)
  <2>1. CASE Finish(r)
    BY <1>6, <2>1, FinishMove DEF CountDecline, db, TypeOK
  <2>2. CASE Goto(r, "setDeclined")
    BY <1>6, <2>2, GotoMove DEF CountDecline, db, TypeOK, Statements
  <2> QED BY <1>6, <2>1, <2>2 DEF CountDecline
<1> QED BY <1>1, <1>2, <1>3, <1>4, <1>5, <1>6

LEMMA MembersQuiet ==
  ASSUME TypeOK, NEW u \in Users, ChangeMember(u)
  PROVE  Quiet
  BY DEF ChangeMember, TypeOK, Quiet

-------------------------------------------------------------------------------
(* Type correctness.                                                       *)

LEMMA QuietType == TypeOK /\ Quiet => TypeOK'
  BY DEF TypeOK, Quiet

LEMMA StepType ==
  ASSUME TypeOK, NEW r \in Requests, Step(r)
  PROVE  TypeOK'
<1>1. CASE RequireChatMember(r) \/ ReadActive(r) \/ Count(r) \/ CountDecline(r)
  BY <1>1, QuietSteps, QuietType
<1>2. CASE CountLeft(r)
  BY <1>2, CountLeftMove DEF CountLeft, TypeOK, db
<1>3. ASSUME NEW c \in CallIds, InsertCall(r, c) PROVE TypeOK'
  <2>1. calls' \in [CallIds -> Call]
    BY <1>3 DEF InsertCall, TypeOK, Call, CallStatus, Request
  <2> QED BY <1>3, <2>1, InsertMove DEF InsertCall, TypeOK
<1>4. CASE SetActive(r)
  <2>1. calls' \in [CallIds -> Call]
    BY <1>4 DEF SetActive, UpdateStatus, TypeOK, Call, CallStatus
  <2> QED BY <1>4, <2>1, GotoMove DEF SetActive, TypeOK, Statements
<1>5. CASE AddParticipant(r)
  <2>1. call_participants' \in [CallIds -> SUBSET Users]
    BY <1>5 DEF AddParticipant, TypeOK, Request
  <2> QED BY <1>5, <2>1, EventMove DEF AddParticipant, TypeOK, Statements, Events
<1>6. CASE RemoveParticipant(r)
  <2>1. call_participants' \in [CallIds -> SUBSET Users]
    BY <1>6 DEF RemoveParticipant, TypeOK, Request
  <2> QED BY <1>6, <2>1, GotoMove DEF RemoveParticipant, TypeOK, Statements
<1>7. CASE SetEnded(r)
  <2>1. calls' \in [CallIds -> Call]
    BY <1>7 DEF SetEnded, UpdateStatus, TypeOK, Call, CallStatus
  <2> QED BY <1>7, <2>1, EventMove DEF SetEnded, TypeOK, Statements, Events
<1>8. CASE SetDeclined(r)
  <2>1. calls' \in [CallIds -> Call]
    BY <1>8 DEF SetDeclined, UpdateStatus, TypeOK, Call, CallStatus
  <2> QED BY <1>8, <2>1, EventMove DEF SetDeclined, TypeOK, Statements, Events
<1>9. CASE Publish(r)
  <2>1. req[r].call \in CallIds
    BY DEF TypeOK, Request
  <2> QED BY <1>9, <2>1, FinishMove DEF Publish, TypeOK, db
<1> QED BY <1>1, <1>2, <1>3, <1>4, <1>5, <1>6, <1>7, <1>8, <1>9 DEF Step

LEMMA AbortType ==
  ASSUME TypeOK, NEW r \in Requests, Abort(r)
  PROVE  TypeOK'
<1>1. req[r].call \in CallIds
  BY DEF TypeOK, Request
<1> QED BY <1>1, FinishMove DEF Abort, TypeOK, db

LEMMA NextType == TypeOK /\ [Next]_vars => TypeOK'
<1> SUFFICES ASSUME TypeOK, [Next]_vars PROVE TypeOK'
  OBVIOUS
<1>1. ASSUME NEW r \in Requests,
             \/ \E actor \in Users, isGroup \in BOOLEAN : Start(r, actor, isGroup)
             \/ \E route \in Routes, actor \in Users, call \in CallIds :
                   Act(r, route, actor, call)
      PROVE  TypeOK'
  BY <1>1, QuietSteps, QuietType
<1>2. ASSUME NEW r \in Requests, Step(r) \/ Abort(r) PROVE TypeOK'
  BY <1>2, StepType, AbortType
<1>3. ASSUME NEW u \in Users, ChangeMember(u) PROVE TypeOK'
  BY <1>3, MembersQuiet, QuietType
<1>4. CASE UNCHANGED vars
  BY <1>4 DEF TypeOK, vars
<1> QED BY <1>1, <1>2, <1>3, <1>4 DEF Next

LEMMA InitType == Init => TypeOK
  BY ConstantsAssumption, IdleType DEF Init, TypeOK, Call, CallStatus

\* Every variable keeps its type, in every behaviour of the calls of a chat.
THEOREM TypeCorrect == Spec => []TypeOK
<1> QED BY InitType, NextType, PTL DEF Spec

-------------------------------------------------------------------------------
(* A live call has participants.                                           *)

\* The handlers that are about to add someone to a call or to end it.
Tended(c) == At(c, {"addParticipant", "countLeft", "setEnded"}) # {}

LEMMA QuietTended ==
  ASSUME TypeOK, Quiet, LiveCallHasParticipants
  PROVE  LiveCallHasParticipants'
  BY DEF Quiet, QuietStatements, LiveCallHasParticipants, At, Live

\* A step that changes one call only, and leaves it with participants or tended
\* by the request that took the step.
LEMMA OneCall ==
  ASSUME TypeOK, LiveCallHasParticipants, NEW r \in Requests, NEW d \in CallIds,
         \A s \in Requests \ {r} : req'[s] = req[s],
         \A c \in CallIds \ {d} : /\ calls'[c] = calls[c]
                                  /\ call_participants'[c] = call_participants[c],
         stopped \subseteq stopped',
         req[r].call = d \/ req[r].pc \in QuietStatements,
         d \in (Live \ stopped)' => \/ call_participants'[d] # {}
                                   \/ /\ req'[r].call = d
                                      /\ req'[r].pc \in {"addParticipant", "countLeft", "setEnded"}
  PROVE  LiveCallHasParticipants'
<1>1. \A c \in (Live \ stopped)' \ {d} : call_participants'[c] # {} \/ Tended(c)'
  BY DEF LiveCallHasParticipants, Live, Tended, At, QuietStatements
<1>2. d \in (Live \ stopped)' => call_participants'[d] # {} \/ Tended(d)'
  BY DEF Tended, At
<1> QED BY <1>1, <1>2 DEF LiveCallHasParticipants, Tended

LEMMA StepTended ==
  ASSUME TypeOK, LiveCallHasParticipants, NEW r \in Requests, Step(r)
  PROVE  LiveCallHasParticipants'
<1>0. req \in [Requests -> Request]
  BY DEF TypeOK
<1> PICK d \in CallIds : d = req[r].call
  BY <1>0 DEF Request
<1> DEFINE OnlyD == \A c \in CallIds \ {d} : /\ calls'[c] = calls[c]
                                             /\ call_participants'[c] = call_participants[c]
<1>1. CASE RequireChatMember(r) \/ ReadActive(r) \/ Count(r) \/ CountDecline(r)
  BY <1>1, QuietSteps, QuietTended
<1>2. CASE CountLeft(r)
  <2>1. OnlyD /\ call_participants' = call_participants /\ stopped' = stopped
    BY <1>2 DEF CountLeft, db
  <2>2. /\ req'[r].call = d
        /\ call_participants[d] = {} => req'[r].pc = "setEnded"
        /\ \A s \in Requests \ {r} : req'[s] = req[s]
    BY <1>0, <1>2, CountLeftMove
  <2> QED BY <2>1, <2>2, OneCall
<1>3. ASSUME NEW c \in CallIds, InsertCall(r, c) PROVE LiveCallHasParticipants'
  <2>1. req[r].pc \in QuietStatements
    BY <1>3 DEF InsertCall, QuietStatements
  <2>2. stopped' = stopped
    BY <1>3 DEF InsertCall
  <2>3. \A e \in CallIds \ {c} : /\ calls'[e] = calls[e]
                                 /\ call_participants'[e] = call_participants[e]
    BY <1>3 DEF InsertCall, TypeOK
  <2> QED BY <1>0, <1>3, <2>1, <2>2, <2>3, InsertMove, OneCall
<1>4. CASE SetActive(r)
  <2>1. OnlyD /\ stopped' = stopped
    BY <1>4 DEF SetActive, UpdateStatus, TypeOK
  <2>2. /\ req'[r].call = d /\ req'[r].pc = "addParticipant"
        /\ \A s \in Requests \ {r} : req'[s] = req[s]
    BY <1>0, <1>4, GotoMove DEF SetActive, Statements
  <2> QED BY <2>1, <2>2, OneCall
<1>5. CASE AddParticipant(r)
  <2>1. OnlyD /\ stopped' = stopped
    BY <1>5 DEF AddParticipant, TypeOK
  <2>2. call_participants'[d] # {}
    BY <1>5 DEF AddParticipant, TypeOK
  <2>3. \A s \in Requests \ {r} : req'[s] = req[s]
    BY <1>0, <1>5 DEF AddParticipant
  <2> QED BY <2>1, <2>2, <2>3, OneCall
<1>6. CASE RemoveParticipant(r)
  <2>1. OnlyD /\ stopped' = stopped
    BY <1>6 DEF RemoveParticipant, TypeOK
  <2>2. /\ req'[r].call = d /\ req'[r].pc = "countLeft"
        /\ \A s \in Requests \ {r} : req'[s] = req[s]
    BY <1>0, <1>6, GotoMove DEF RemoveParticipant, Statements
  <2> QED BY <2>1, <2>2, OneCall
<1>7. CASE SetEnded(r)
  <2>1. OnlyD /\ stopped' = stopped
    BY <1>7 DEF SetEnded, UpdateStatus, TypeOK
  <2>2. d \notin Live'
    BY <1>7 DEF SetEnded, UpdateStatus, TypeOK, Call, Live, LiveStatus
  <2>3. \A s \in Requests \ {r} : req'[s] = req[s]
    BY <1>0, <1>7 DEF SetEnded
  <2> QED BY <2>1, <2>2, <2>3, OneCall
<1>8. CASE SetDeclined(r)
  <2>1. OnlyD /\ stopped' = stopped
    BY <1>8 DEF SetDeclined, UpdateStatus, TypeOK
  <2>2. d \notin Live'
    BY <1>8 DEF SetDeclined, UpdateStatus, TypeOK, Call, Live, LiveStatus
  <2>3. \A s \in Requests \ {r} : req'[s] = req[s]
    BY <1>0, <1>8 DEF SetDeclined
  <2> QED BY <2>1, <2>2, <2>3, OneCall
<1>9. CASE Publish(r)
  BY <1>9, <1>0, FinishMove DEF Publish, db, LiveCallHasParticipants, Live, At
<1> QED BY <1>1, <1>2, <1>3, <1>4, <1>5, <1>6, <1>7, <1>8, <1>9 DEF Step

LEMMA AbortTended ==
  ASSUME TypeOK, LiveCallHasParticipants, NEW r \in Requests, Abort(r)
  PROVE  LiveCallHasParticipants'
  BY FinishMove DEF Abort, Midway, db, TypeOK, LiveCallHasParticipants, Live, At

\* Under every race of starts, joins, leaves and declines a live call has
\* participants, or a handler that is about to add or to end, or one stopped.
THEOREM LiveCallsTended == Spec => []LiveCallHasParticipants
<1>1. Init => LiveCallHasParticipants
  BY DEF Init, LiveCallHasParticipants, Live, LiveStatus
<1>2. TypeOK /\ LiveCallHasParticipants /\ [Next]_vars => LiveCallHasParticipants'
  <2> SUFFICES ASSUME TypeOK, LiveCallHasParticipants, [Next]_vars
               PROVE  LiveCallHasParticipants'
    OBVIOUS
  <2>1. ASSUME NEW r \in Requests,
               \/ \E actor \in Users, isGroup \in BOOLEAN : Start(r, actor, isGroup)
               \/ \E route \in Routes, actor \in Users, call \in CallIds :
                     Act(r, route, actor, call)
        PROVE  LiveCallHasParticipants'
    BY <2>1, QuietSteps, QuietTended
  <2>2. ASSUME NEW r \in Requests, Step(r) \/ Abort(r) PROVE LiveCallHasParticipants'
    BY <2>2, StepTended, AbortTended
  <2>3. ASSUME NEW u \in Users, ChangeMember(u) PROVE LiveCallHasParticipants'
    BY <2>3, MembersQuiet, QuietTended
  <2>4. CASE UNCHANGED vars
    BY <2>4 DEF vars, LiveCallHasParticipants, Live, At
  <2> QED BY <2>1, <2>2, <2>3, <2>4 DEF Next
<1> QED BY <1>1, <1>2, TypeCorrect, PTL DEF Spec

-------------------------------------------------------------------------------
(* A client rings only for a live call.                                    *)

\* A request is at a statement of its route, and only starts announce a start.
StatementsOf(route) ==
    {"idle", "requireMember", "publish"} \cup
    CASE route = "start"  -> {"readActive", "insertCall", "addParticipant"}
      [] route = "join"   -> {"count", "setActive", "addParticipant"}
      [] route = "leave"  -> {"removeParticipant", "countLeft", "setEnded"}
      [] OTHER            -> {"countDecline", "setDeclined"}

ControlOK ==
    \A r \in Requests :
        /\ req[r].pc \in StatementsOf(req[r].route)
        /\ req[r].pc = "publish" /\ req[r].event = "started" => req[r].route = "start"

LEMMA GotoControl ==
  ASSUME TypeOK, ControlOK, NEW r \in Requests, NEW s \in StatementsOf(req[r].route),
         s \in Statements \ {"publish"}, Goto(r, s)
  PROVE  ControlOK'
  BY GotoMove DEF TypeOK, ControlOK

LEMMA FinishControl ==
  ASSUME TypeOK, ControlOK, NEW r \in Requests, Finish(r)
  PROVE  ControlOK'
  BY FinishMove DEF TypeOK, ControlOK, StatementsOf

LEMMA EventControl ==
  ASSUME TypeOK, ControlOK, NEW r \in Requests, NEW s \in {"publish", "setEnded"},
         s \in StatementsOf(req[r].route), NEW e \in Events,
         e = "started" => req[r].route = "start",
         req' = [req EXCEPT ![r] = [req[r] EXCEPT !.pc = s, !.event = e]]
  PROVE  ControlOK'
<1>1. /\ req'[r].pc = s /\ req'[r].event = e /\ req'[r].route = req[r].route
      /\ \A t \in Requests \ {r} : req'[t] = req[t]
  BY EventMove DEF TypeOK, Statements
<1>2. req'[r].pc \in StatementsOf(req'[r].route)
  BY <1>1
<1> QED BY <1>1, <1>2 DEF ControlOK

LEMMA StepControl ==
  ASSUME TypeOK, ControlOK, NEW r \in Requests, Step(r)
  PROVE  ControlOK'
<1>0. req[r].pc \in StatementsOf(req[r].route) /\ req[r].route \in Routes
  BY DEF ControlOK, TypeOK, Request
<1>1. CASE RequireChatMember(r)
  <2>1. AfterMember(req[r]) \in StatementsOf(req[r].route) \cap (Statements \ {"publish"})
    BY <1>0 DEF AfterMember, StatementsOf, Statements, Routes
  <2> QED BY <1>1, <2>1, GotoControl, FinishControl DEF RequireChatMember
<1>2. CASE ReadActive(r)
  <2>1. "insertCall" \in StatementsOf(req[r].route)
    BY <1>0, <1>2 DEF ReadActive, StatementsOf, Routes
  <2> QED BY <1>2, <2>1, GotoControl, FinishControl DEF ReadActive, Statements
<1>3. CASE Count(r)
  <2>1. {"setActive", "addParticipant"} \subseteq StatementsOf(req[r].route)
    BY <1>0, <1>3 DEF Count, StatementsOf, Routes
  <2> QED BY <1>3, <2>1, GotoControl, FinishControl DEF Count, Statements
<1>4. CASE CountDecline(r)
  <2>1. "setDeclined" \in StatementsOf(req[r].route)
    BY <1>0, <1>4 DEF CountDecline, StatementsOf, Routes
  <2> QED BY <1>4, <2>1, GotoControl, FinishControl DEF CountDecline, Statements
<1>5. CASE CountLeft(r)
  <2>1. {"setEnded", "publish"} \subseteq StatementsOf(req[r].route)
    BY <1>0, <1>5 DEF CountLeft, StatementsOf, Routes
  <2>2. PICK s \in {"setEnded", "publish"} :
             req' = [req EXCEPT ![r] = [req[r] EXCEPT !.pc = s, !.event = "left"]]
    BY <1>5 DEF CountLeft
  <2> QED BY <2>1, <2>2, EventControl DEF Events
<1>6. ASSUME NEW c \in CallIds, InsertCall(r, c) PROVE ControlOK'
  <2>1. req[r].route = "start"
    BY <1>0, <1>6 DEF InsertCall, StatementsOf, Routes
  <2>2. /\ req'[r].pc = "addParticipant" /\ req'[r].route = "start"
        /\ \A s \in Requests \ {r} : req'[s] = req[s]
    BY <1>6, <2>1, InsertMove DEF TypeOK
  <2> QED BY <2>2 DEF ControlOK, StatementsOf
<1>7. CASE SetActive(r)
  <2>1. "addParticipant" \in StatementsOf(req[r].route)
    BY <1>0, <1>7 DEF SetActive, StatementsOf, Routes
  <2> QED BY <1>7, <2>1, GotoControl DEF SetActive, Statements
<1>8. CASE AddParticipant(r)
  <2> DEFINE e == IF req[r].route = "start" THEN "started" ELSE "joined"
  <2>1. /\ e \in Events /\ (e = "started" => req[r].route = "start")
        /\ "publish" \in StatementsOf(req[r].route)
    BY DEF Events, StatementsOf
  <2>2. req' = [req EXCEPT ![r] = [req[r] EXCEPT !.pc = "publish", !.event = e]]
    BY <1>8 DEF AddParticipant
  <2> HIDE DEF e
  <2> QED BY <2>1, <2>2, EventControl
<1>9. CASE RemoveParticipant(r)
  <2>1. "countLeft" \in StatementsOf(req[r].route)
    BY <1>0, <1>9 DEF RemoveParticipant, StatementsOf, Routes
  <2> QED BY <1>9, <2>1, GotoControl DEF RemoveParticipant, Statements
<1>10. CASE SetEnded(r) \/ SetDeclined(r)
  <2>1. "publish" \in StatementsOf(req[r].route)
    BY DEF StatementsOf
  <2> QED BY <1>10, <2>1, EventControl DEF SetEnded, SetDeclined, Events
<1>11. CASE Publish(r)
  BY <1>11, FinishControl DEF Publish
<1> QED BY <1>1, <1>2, <1>3, <1>4, <1>5, <1>6, <1>7, <1>8, <1>9, <1>10, <1>11 DEF Step

LEMMA NextControl == TypeOK /\ ControlOK /\ [Next]_vars => ControlOK'
<1> SUFFICES ASSUME TypeOK, ControlOK, [Next]_vars PROVE ControlOK'
  OBVIOUS
<1>1. ASSUME NEW r \in Requests, NEW actor \in Users, NEW isGroup \in BOOLEAN,
             Start(r, actor, isGroup)
      PROVE  ControlOK'
  <2>1. PICK route \in Routes, call \in CallIds : TRUE
    BY ConstantsAssumption DEF Routes
  <2> QED BY <1>1, <2>1, ArrivalMove DEF ControlOK, StatementsOf
<1>2. ASSUME NEW r \in Requests, NEW route \in Routes, NEW actor \in Users, NEW call \in CallIds,
             Act(r, route, actor, call)
      PROVE  ControlOK'
  BY <1>2, ArrivalMove DEF ControlOK, StatementsOf
<1>3. ASSUME NEW r \in Requests, Step(r) \/ Abort(r) PROVE ControlOK'
  BY <1>3, StepControl, FinishControl DEF Abort
<1>4. ASSUME NEW u \in Users, ChangeMember(u) PROVE ControlOK'
  BY <1>4 DEF ChangeMember, ControlOK
<1>5. CASE UNCHANGED vars
  BY <1>5 DEF vars, ControlOK
<1> QED BY <1>1, <1>2, <1>3, <1>4, <1>5 DEF Next

\* A call that rings, or is about to, is live, or a handler is about to publish
\* its end, or it is one of the exceptions.
EndPending(c) == \E r \in At(c, {"publish"}) : req[r].event = "ended"
Waiting(c)    == incomingCall = c \/ Unstarted(c)
Accounted(c)  == c \in Live \cup overtaken \cup stopped \/ EndPending(c)
RingOK        == \A c \in Started : Waiting(c) => Accounted(c)

\* What a step has to keep for a call whose row it does not touch.
LEMMA SameCall ==
  ASSUME NEW c \in CallIds, calls'[c] = calls[c],
         c \in Started /\ Waiting(c) => Accounted(c),
         NEW r \in Requests, \A s \in Requests \ {r} : req'[s] = req[s],
         overtaken \subseteq overtaken', stopped \subseteq stopped',
         incomingCall' = c => Waiting(c),
         req'[r].route = "start" /\ req'[r].call = c /\ req'[r].pc \in {"addParticipant", "publish"}
           => Waiting(c),
         req[r].call = c /\ req[r].pc = "publish" /\ req[r].event = "ended"
           => ~Waiting(c)' \/ c \in (overtaken \cup stopped)'
  PROVE  calls'[c].status # "none" /\ Waiting(c)' => Accounted(c)'
<1> SUFFICES ASSUME calls'[c].status # "none", Waiting(c)' PROVE Accounted(c)'
  OBVIOUS
<1>1. Waiting(c)
  BY DEF Waiting, Unstarted
<1>2. Accounted(c)
  BY <1>1 DEF Started
<1>3. CASE c \in Live \cup overtaken \cup stopped
  BY <1>3 DEF Live, Accounted
<1>4. CASE EndPending(c)
  BY <1>4 DEF EndPending, At, Accounted
<1> QED BY <1>2, <1>3, <1>4 DEF Accounted

LEMMA QuietRing ==
  ASSUME TypeOK, ControlOK, Quiet, RingOK
  PROVE  RingOK'
<1>1. \A c \in CallIds : Waiting(c)' => Waiting(c)
  BY DEF Quiet, QuietStatements, ControlOK, StatementsOf, Waiting, Unstarted
<1>2. \A c \in CallIds : Accounted(c) => Accounted(c)'
  BY DEF Quiet, QuietStatements, Accounted, Live, EndPending, At
<1> QED BY <1>1, <1>2 DEF Quiet, RingOK, Started

LEMMA PublishRing ==
  ASSUME TypeOK, ControlOK, RingOK, NEW r \in Requests, Publish(r)
  PROVE  RingOK'
<1>0. req \in [Requests -> Request]
  BY DEF TypeOK
<1> PICK d \in CallIds : d = req[r].call
  BY <1>0 DEF Request
<1>1. /\ req'[r].pc = "idle" /\ \A s \in Requests \ {r} : req'[s] = req[s]
      /\ req[r].pc = "publish" /\ calls' = calls /\ stopped' = stopped
      /\ overtaken \subseteq overtaken'
  BY <1>0, FinishMove DEF Publish, db
<1>2. ASSUME NEW c \in CallIds, incomingCall' = c PROVE Waiting(c)
  <2>1. CASE req[r].event = "started" /\ c = d
    BY <1>1, <2>1 DEF ControlOK, Waiting, Unstarted
  <2>2. CASE incomingCall' = incomingCall
    BY <1>2, <2>2 DEF Waiting
  <2> QED BY <1>2, <2>1, <2>2, ConstantsAssumption DEF Publish
<1>3. ASSUME req[r].event = "ended" PROVE ~Waiting(d)' \/ d \in overtaken'
  <2>1. incomingCall' # d
    BY <1>3, ConstantsAssumption DEF Publish
  <2>2. Unstarted(d)' => Unstarted(d)
    BY <1>1 DEF Unstarted
  <2> QED BY <1>3, <2>1, <2>2 DEF Publish, Waiting
<1>4. \A c \in CallIds : c \in Started' /\ Waiting(c)' => Accounted(c)'
  <2> TAKE c \in CallIds
  <2>1. calls'[c].status # "none" /\ Waiting(c)' => Accounted(c)'
    BY <1>1, <1>2, <1>3, SameCall DEF RingOK
  <2> QED BY <2>1 DEF Started
<1> QED BY <1>4 DEF RingOK, Started

\* A step of r within its handler that publishes nothing.
LEMMA WriteRing ==
  ASSUME TypeOK, RingOK, NEW r \in Requests, NEW d \in CallIds,
         \A s \in Requests \ {r} : req'[s] = req[s],
         req'[r].route = req[r].route, req'[r].call = d,
         req[r].pc # "publish",
         req'[r].route = "start" /\ req'[r].pc \in {"addParticipant", "publish"}
           => d \in Live' \/ (Unstarted(d) /\ calls'[d] = calls[d]),
         \A c \in CallIds \ {d} : calls'[c] = calls[c],
         UNCHANGED <<incomingCall, overtaken, stopped>>,
         \/ calls'[d] = calls[d]
         \/ d \in Live'
         \/ req'[r].pc = "publish" /\ req'[r].event = "ended"
  PROVE  RingOK'
<1>1. CASE d \in Live'
  <2>1. Accounted(d)'
    BY <1>1 DEF Accounted
  <2>2. ASSUME NEW c \in CallIds \ {d}
        PROVE  calls'[c].status # "none" /\ Waiting(c)' => Accounted(c)'
    BY SameCall DEF RingOK, Waiting
  <2> QED BY <2>1, <2>2 DEF RingOK, Started
<1>2. CASE req'[r].pc = "publish" /\ req'[r].event = "ended"
  <2>1. Accounted(d)'
    BY <1>2 DEF Accounted, EndPending, At
  <2>2. ASSUME NEW c \in CallIds \ {d}
        PROVE  calls'[c].status # "none" /\ Waiting(c)' => Accounted(c)'
    BY SameCall DEF RingOK, Waiting
  <2> QED BY <2>1, <2>2 DEF RingOK, Started
<1>3. CASE calls'[d] = calls[d] /\ d \notin Live'
  <2>1. ASSUME NEW c \in CallIds
        PROVE  calls'[c].status # "none" /\ Waiting(c)' => Accounted(c)'
    <3>1. req'[r].route = "start" /\ req'[r].call = c
            /\ req'[r].pc \in {"addParticipant", "publish"} => Waiting(c)
      BY <1>3 DEF Waiting
    <3> QED BY <1>3, <3>1, SameCall DEF RingOK, Waiting
  <2> QED BY <2>1 DEF RingOK, Started
<1> QED BY <1>1, <1>2, <1>3

LEMMA StepRing ==
  ASSUME TypeOK, ControlOK, RingOK, NEW r \in Requests, Step(r)
  PROVE  RingOK'
<1>0. req \in [Requests -> Request]
  BY DEF TypeOK
<1> PICK d \in CallIds : d = req[r].call
  BY <1>0 DEF Request
<1>1. CASE RequireChatMember(r) \/ ReadActive(r) \/ Count(r) \/ CountDecline(r)
  BY <1>1, QuietSteps, QuietRing
<1>2. CASE CountLeft(r)
  <2>1. req[r].route # "start"
    BY <1>2 DEF CountLeft, ControlOK, StatementsOf
  <2> QED BY <1>0, <1>2, <2>1, CountLeftMove, WriteRing DEF CountLeft, db
<1>3. ASSUME NEW c \in CallIds, InsertCall(r, c) PROVE RingOK'
  <2>1. c \in Live' /\ \A e \in CallIds \ {c} : calls'[e] = calls[e]
    BY <1>3 DEF InsertCall, TypeOK, Live, LiveStatus
  <2>2. /\ req'[r].route = req[r].route /\ req'[r].call = c /\ req'[r].pc = "addParticipant"
        /\ \A s \in Requests \ {r} : req'[s] = req[s]
    BY <1>0, <1>3, InsertMove
  <2>3. req[r].pc # "publish" /\ UNCHANGED <<incomingCall, overtaken, stopped>>
    BY <1>3 DEF InsertCall
  <2> QED BY <2>1, <2>2, <2>3, WriteRing
<1>4. CASE SetActive(r)
  <2>1. d \in Live' /\ \A e \in CallIds \ {d} : calls'[e] = calls[e]
    BY <1>4 DEF SetActive, UpdateStatus, TypeOK, Call, Live, LiveStatus
  <2> QED BY <1>0, <1>4, <2>1, GotoMove, WriteRing DEF SetActive, Statements
<1>5. CASE AddParticipant(r)
  <2>1. req[r].route = "start" => Unstarted(d)
    BY <1>5 DEF AddParticipant, Unstarted
  <2>2. /\ req'[r].route = req[r].route /\ req'[r].call = d
        /\ \A s \in Requests \ {r} : req'[s] = req[s]
    <3> DEFINE e == IF req[r].route = "start" THEN "started" ELSE "joined"
    <3>1. req' = [req EXCEPT ![r] = [req[r] EXCEPT !.pc = "publish", !.event = e]]
      BY <1>5 DEF AddParticipant
    <3> QED BY <1>0, <3>1, EventMove DEF Statements, Events
  <2> QED BY <1>5, <2>1, <2>2, WriteRing DEF AddParticipant
<1>6. CASE RemoveParticipant(r)
  BY <1>0, <1>6, GotoMove, WriteRing DEF RemoveParticipant, Statements
<1>7. CASE SetEnded(r) \/ SetDeclined(r)
  <2>1. \A e \in CallIds \ {d} : calls'[e] = calls[e]
    BY <1>7 DEF SetEnded, SetDeclined, UpdateStatus, TypeOK
  <2>2. req[r].route # "start"
    BY <1>7 DEF SetEnded, SetDeclined, ControlOK, StatementsOf
  <2>3. /\ req'[r].pc = "publish" /\ req'[r].event = "ended"
        /\ req'[r].route = req[r].route /\ req'[r].call = d
        /\ \A s \in Requests \ {r} : req'[s] = req[s]
    BY <1>0, <1>7, EventMove DEF SetEnded, SetDeclined, Statements, Events
  <2> QED BY <1>7, <2>1, <2>2, <2>3, WriteRing DEF SetEnded, SetDeclined
<1>8. CASE Publish(r)
  BY <1>8, PublishRing
<1> QED BY <1>1, <1>2, <1>3, <1>4, <1>5, <1>6, <1>7, <1>8 DEF Step

LEMMA AbortRing ==
  ASSUME TypeOK, RingOK, NEW r \in Requests, Abort(r)
  PROVE  RingOK'
<1>1. /\ req'[r].pc = "idle" /\ \A s \in Requests \ {r} : req'[s] = req[s]
      /\ UNCHANGED <<calls, incomingCall, overtaken>> /\ stopped \subseteq stopped'
  BY FinishMove DEF Abort, TypeOK, db
<1>2. req[r].pc = "publish" /\ req[r].event = "ended" => req[r].call \in stopped'
  BY DEF Abort, Midway
<1>3. ASSUME NEW c \in CallIds
      PROVE  calls'[c].status # "none" /\ Waiting(c)' => Accounted(c)'
  BY <1>1, <1>2, SameCall DEF RingOK, Waiting
<1> QED BY <1>3 DEF RingOK, Started

\* A client that gets every event rings only for a live call or for one whose
\* end is about to be published, unless a CALL_ENDED overtook its CALL_STARTED
\* or a handler stopped half-way.
THEOREM RingsForLiveCalls == Spec => []RingsForLiveCall
<1>1. Init => ControlOK /\ RingOK
  BY DEF Init, Idle, ControlOK, StatementsOf, RingOK, Started
<1>2. TypeOK /\ ControlOK /\ RingOK /\ [Next]_vars => RingOK'
  <2> SUFFICES ASSUME TypeOK, ControlOK, RingOK, [Next]_vars PROVE RingOK'
    OBVIOUS
  <2>1. ASSUME NEW r \in Requests,
               \/ \E actor \in Users, isGroup \in BOOLEAN : Start(r, actor, isGroup)
               \/ \E route \in Routes, actor \in Users, call \in CallIds :
                     Act(r, route, actor, call)
        PROVE  RingOK'
    BY <2>1, QuietSteps, QuietRing
  <2>2. ASSUME NEW r \in Requests, Step(r) \/ Abort(r) PROVE RingOK'
    BY <2>2, StepRing, AbortRing
  <2>3. ASSUME NEW u \in Users, ChangeMember(u) PROVE RingOK'
    BY <2>3, MembersQuiet, QuietRing
  <2>4. CASE UNCHANGED vars
    BY <2>4 DEF vars, RingOK, Started, Waiting, Unstarted, Accounted, Live, EndPending, At
  <2> QED BY <2>1, <2>2, <2>3, <2>4 DEF Next
<1>3. RingOK => RingsForLiveCall
  BY DEF RingOK, RingsForLiveCall, Waiting, Accounted, EndPending
<1> QED BY <1>1, <1>2, <1>3, TypeCorrect, NextControl, PTL DEF Spec

-------------------------------------------------------------------------------
(* What a step does to the request that takes it, and to what the request  *)
(* has read.                                                               *)

SameReads(r) == /\ req'[r].actor = req[r].actor /\ req'[r].route = req[r].route
                /\ req'[r].isGroup = req[r].isGroup /\ req'[r].seen = req[r].seen

LEMMA IdleData == Idle.pc = "idle" /\ Idle.route = "start"
  BY DEF Idle

LEMMA GotoData ==
  ASSUME TypeOK, NEW r \in Requests, NEW s \in Statements, Goto(r, s)
  PROVE  SameReads(r) /\ req'[r].call = req[r].call /\ req'[r].pc = s
         /\ \A t \in Requests \ {r} : req'[t] = req[t]
<1> DEFINE q == [req[r] EXCEPT !.pc = s]
<1>1. /\ q.actor = req[r].actor /\ q.route = req[r].route /\ q.isGroup = req[r].isGroup
      /\ q.seen = req[r].seen /\ q.call = req[r].call /\ q.pc = s
  BY DEF TypeOK, Request
<1>2. req' = [req EXCEPT ![r] = q]
  BY DEF Goto
<1> HIDE DEF q
<1> QED BY <1>1, <1>2 DEF TypeOK, SameReads

LEMMA EventData ==
  ASSUME TypeOK, NEW r \in Requests, NEW s \in Statements, NEW e \in Events,
         req' = [req EXCEPT ![r] = [req[r] EXCEPT !.pc = s, !.event = e]]
  PROVE  SameReads(r) /\ req'[r].call = req[r].call /\ req'[r].pc = s
         /\ \A t \in Requests \ {r} : req'[t] = req[t]
<1> DEFINE q == [req[r] EXCEPT !.pc = s, !.event = e]
<1>1. /\ q.actor = req[r].actor /\ q.route = req[r].route /\ q.isGroup = req[r].isGroup
      /\ q.seen = req[r].seen /\ q.call = req[r].call /\ q.pc = s
  BY DEF TypeOK, Request
<1>2. req' = [req EXCEPT ![r] = q]
  OBVIOUS
<1> HIDE DEF q
<1> QED BY <1>1, <1>2 DEF TypeOK, SameReads

LEMMA InsertData ==
  ASSUME TypeOK, NEW r \in Requests, NEW c \in CallIds, InsertCall(r, c)
  PROVE  SameReads(r) /\ req'[r].call = c /\ req'[r].pc = "addParticipant"
         /\ \A t \in Requests \ {r} : req'[t] = req[t]
<1> DEFINE q == [req[r] EXCEPT !.call = c, !.pc = "addParticipant"]
<1>1. /\ q.actor = req[r].actor /\ q.route = req[r].route /\ q.isGroup = req[r].isGroup
      /\ q.seen = req[r].seen /\ q.call = c /\ q.pc = "addParticipant"
  BY DEF TypeOK, Request
<1>2. req' = [req EXCEPT ![r] = q]
  BY DEF InsertCall
<1> HIDE DEF q
<1> QED BY <1>1, <1>2 DEF TypeOK, SameReads

LEMMA FinishData ==
  ASSUME TypeOK, NEW r \in Requests, Finish(r)
  PROVE  req'[r].pc = "idle" /\ \A t \in Requests \ {r} : req'[t] = req[t]
  BY IdleData DEF Finish, TypeOK

\* A route that arrives at a call has read it.
LEMMA ArrivalData ==
  ASSUME TypeOK, NEW r \in Requests
  PROVE  /\ \A actor \in Users, isGroup \in BOOLEAN : Start(r, actor, isGroup)
              => /\ req'[r].pc = "requireMember" /\ req'[r].route = "start"
                 /\ \A t \in Requests \ {r} : req'[t] = req[t]
         /\ \A route \in Routes, actor \in Users, call \in CallIds :
              Act(r, route, actor, call)
              => /\ req'[r].pc = "requireMember" /\ req'[r].route # "start"
                 /\ req'[r].call = call /\ call \in Started
                 /\ req'[r].isGroup = calls[call].isGroup
                 /\ req'[r].route = "join" => req'[r].seen = calls[call].status
                 /\ \A t \in Requests \ {r} : req'[t] = req[t]
<1>1. ASSUME NEW actor \in Users, NEW isGroup \in BOOLEAN, Start(r, actor, isGroup)
      PROVE  /\ req'[r].pc = "requireMember" /\ req'[r].route = "start"
             /\ \A t \in Requests \ {r} : req'[t] = req[t]
  <2> DEFINE q == [Idle EXCEPT !.pc = "requireMember", !.route = "start",
                               !.actor = actor, !.isGroup = isGroup]
  <2>1. q.pc = "requireMember" /\ q.route = "start"
    BY IdleType DEF Request
  <2>2. req' = [req EXCEPT ![r] = q]
    BY <1>1 DEF Start
  <2> HIDE DEF q
  <2> QED BY <2>1, <2>2 DEF TypeOK
<1>2. ASSUME NEW route \in Routes, NEW actor \in Users, NEW call \in CallIds,
             Act(r, route, actor, call)
      PROVE  /\ req'[r].pc = "requireMember" /\ req'[r].route # "start"
             /\ req'[r].call = call /\ call \in Started
             /\ req'[r].isGroup = calls[call].isGroup
             /\ req'[r].route = "join" => req'[r].seen = calls[call].status
             /\ \A t \in Requests \ {r} : req'[t] = req[t]
  <2> DEFINE takesPart == IF actor \in call_participants[call] THEN "participant" ELSE "none"
             seen == IF route = "leave" THEN takesPart ELSE calls[call].status
             group == calls[call].isGroup
  <2>1. route = "join" => seen = calls[call].status
    OBVIOUS
  <2>2. req' = [req EXCEPT ![r] = [Idle EXCEPT !.pc = "requireMember", !.route = route,
                                     !.actor = actor, !.call = call, !.isGroup = group,
                                     !.seen = seen]]
    BY <1>2 DEF Act
  <2> HIDE DEF seen
  <2> DEFINE q == [Idle EXCEPT !.pc = "requireMember", !.route = route, !.actor = actor,
                               !.call = call, !.isGroup = group, !.seen = seen]
  <2>3. q.pc = "requireMember" /\ q.route = route /\ q.call = call /\ q.isGroup = group
        /\ q.seen = seen
    BY IdleType DEF Request
  <2>4. req' = [req EXCEPT ![r] = q]
    BY <2>2
  <2> HIDE DEF q, group
  <2>5. /\ req'[r].pc = "requireMember" /\ req'[r].route = route /\ req'[r].call = call
        /\ req'[r].isGroup = group /\ req'[r].seen = seen
        /\ \A t \in Requests \ {r} : req'[t] = req[t]
    BY <2>3, <2>4 DEF TypeOK
  <2>6. route # "start" /\ call \in Started
    BY <1>2 DEF Act
  <2> QED BY <2>1, <2>5, <2>6 DEF group
<1> QED BY <1>1, <1>2

\* The statements that may follow a statement of a handler.
Following(statement) ==
    CASE statement = "requireMember" -> {"readActive", "count", "removeParticipant",
                                         "countDecline"}
      [] statement = "readActive"    -> {"insertCall"}
      [] statement = "count"         -> {"setActive", "addParticipant"}
      [] statement = "insertCall"    -> {"addParticipant"}
      [] statement = "setActive"     -> {"addParticipant"}
      [] statement = "countLeft"     -> {"setEnded", "publish"}
      [] statement = "countDecline"  -> {"setDeclined"}
      [] statement = "removeParticipant" -> {"countLeft"}
      [] OTHER                       -> {"publish"}

\* A statement ends its handler, or leads to one that follows it, with what the
\* handler has read; only the INSERT gives the request another call.
LEMMA StepData ==
  ASSUME TypeOK, NEW r \in Requests, Step(r)
  PROVE  /\ \A t \in Requests \ {r} : req'[t] = req[t]
         /\ \/ req'[r].pc = "idle"
            \/ /\ SameReads(r)
               /\ req'[r].pc \in Following(req[r].pc)
               /\ \/ req'[r].call = req[r].call
                  \/ \E c \in CallIds : InsertCall(r, c) /\ req'[r].call = c
<1> USE DEF Following, Statements
<1>1. CASE RequireChatMember(r)
  <2>1. AfterMember(req[r]) \in {"readActive", "count", "removeParticipant", "countDecline",
                                 "idle"}
    BY DEF AfterMember
  <2>2. ASSUME NEW s \in {"readActive", "count", "removeParticipant", "countDecline"}, Goto(r, s)
        PROVE  /\ SameReads(r) /\ req'[r].pc = s /\ req'[r].call = req[r].call
               /\ \A t \in Requests \ {r} : req'[t] = req[t]
    BY <2>2, GotoData
  <2> QED BY <1>1, <2>1, <2>2, FinishData DEF RequireChatMember
<1>2. CASE ReadActive(r)
  BY <1>2, GotoData, FinishData DEF ReadActive
<1>3. CASE Count(r)
  <2>1. ASSUME NEW s \in {"setActive", "addParticipant"}, Goto(r, s)
        PROVE  /\ SameReads(r) /\ req'[r].pc = s /\ req'[r].call = req[r].call
               /\ \A t \in Requests \ {r} : req'[t] = req[t]
    BY <2>1, GotoData
  <2> QED BY <1>3, <2>1, FinishData DEF Count
<1>4. CASE CountLeft(r)
  <2>1. PICK s \in {"setEnded", "publish"} :
             req' = [req EXCEPT ![r] = [req[r] EXCEPT !.pc = s, !.event = "left"]]
    BY <1>4 DEF CountLeft
  <2> QED BY <1>4, <2>1, EventData DEF CountLeft, Events
<1>5. CASE CountDecline(r)
  BY <1>5, GotoData, FinishData DEF CountDecline
<1>6. ASSUME NEW c \in CallIds, InsertCall(r, c)
      PROVE  /\ SameReads(r) /\ req'[r].pc \in Following(req[r].pc)
             /\ InsertCall(r, c) /\ req'[r].call = c
             /\ \A t \in Requests \ {r} : req'[t] = req[t]
  <2>1. req[r].pc = "insertCall"
    BY <1>6 DEF InsertCall
  <2> QED BY <1>6, <2>1, InsertData
<1>7. CASE SetActive(r)
  BY <1>7, GotoData DEF SetActive
<1>8. CASE AddParticipant(r)
  <2>1. PICK e \in Events :
             req' = [req EXCEPT ![r] = [req[r] EXCEPT !.pc = "publish", !.event = e]]
    BY <1>8 DEF AddParticipant, Events
  <2> QED BY <1>8, <2>1, EventData DEF AddParticipant
<1>9. CASE RemoveParticipant(r)
  BY <1>9, GotoData DEF RemoveParticipant
<1>10. CASE SetEnded(r) \/ SetDeclined(r)
  BY <1>10, EventData DEF SetEnded, SetDeclined, Events
<1>11. CASE Publish(r)
  BY <1>11, FinishData DEF Publish
<1> QED
  BY <1>1, <1>2, <1>3, <1>4, <1>5, <1>6, <1>7, <1>8, <1>9, <1>10, <1>11 DEF Step

\* A statement writes the participants of a call, or the rows, only when it is
\* the statement for it.
LEMMA StepWrites ==
  ASSUME TypeOK, NEW r \in Requests, Step(r)
  PROVE  /\ chat_members' = chat_members
         /\ call_participants' = call_participants \/ AddParticipant(r) \/ RemoveParticipant(r)
         /\ \/ calls' = calls
            \/ \E c \in CallIds : InsertCall(r, c)
            \/ SetActive(r) \/ SetEnded(r) \/ SetDeclined(r)
  BY DEF Step, RequireChatMember, ReadActive, Count, CountLeft, CountDecline, InsertCall,
         SetActive, AddParticipant, RemoveParticipant, SetEnded, SetDeclined, Publish, db

\* A request at a statement takes that statement.
LEMMA StepAt ==
  ASSUME TypeOK, NEW r \in Requests, Step(r)
  PROVE  /\ req[r].pc = "requireMember" => RequireChatMember(r)
         /\ req[r].pc = "readActive" => ReadActive(r)
         /\ req[r].pc = "count" => Count(r)
         /\ req[r].pc = "insertCall" => \E c \in CallIds : InsertCall(r, c)
         /\ req[r].pc = "setActive" => SetActive(r)
         /\ req[r].pc = "addParticipant" => AddParticipant(r)
         /\ req[r].pc # "idle"
  BY DEF Step, RequireChatMember, ReadActive, Count, CountLeft, CountDecline, InsertCall,
         SetActive, AddParticipant, RemoveParticipant, SetEnded, SetDeclined, Publish

\* Rows that are written and not yet read: what a step of the rows does to a call.
LEMMA CallsKept ==
  ASSUME TypeOK, NEW r \in Requests, Step(r)
  PROVE  \A c \in CallIds :
            \/ calls'[c] = calls[c]
            \/ InsertCall(r, c) /\ calls[c].status = "none" /\ calls'[c].isGroup = req[r].isGroup
               /\ calls'[c].status = "ringing"
            \/ /\ c = req[r].call /\ calls'[c].isGroup = calls[c].isGroup
               /\ calls'[c].status # "none"
               /\ calls'[c].status \in LiveStatus => SetActive(r)
<1> TAKE c \in CallIds
<1>1. ASSUME NEW d \in CallIds, InsertCall(r, d)
      PROVE  \/ calls'[c] = calls[c]
             \/ c = d /\ calls[c].status = "none" /\ calls'[c].isGroup = req[r].isGroup
                /\ calls'[c].status = "ringing"
  BY <1>1 DEF InsertCall, TypeOK
<1>2. ASSUME NEW status \in {"active", "ended", "declined"}, UpdateStatus(r, status)
      PROVE  \/ calls'[c] = calls[c]
             \/ /\ c = req[r].call /\ calls'[c].isGroup = calls[c].isGroup
                /\ calls'[c].status = status
  BY <1>2 DEF UpdateStatus, TypeOK, Call
<1> QED BY <1>1, <1>2, StepWrites DEF SetActive, SetEnded, SetDeclined, LiveStatus

-------------------------------------------------------------------------------
(* "Call is full".                                                         *)

\* A call that is not started has no participants, and a request past
\* loadAuthorizedCall or past the INSERT is about a started call, and has read
\* whether it is a group call.
RowsRead ==
    /\ \A c \in CallIds \ Started : call_participants[c] = {}
    /\ \A r \in Requests :
          \/ req[r].pc \in {"idle", "readActive", "insertCall"}
          \/ req[r].pc = "requireMember" /\ req[r].route = "start"
          \/ req[r].call \in Started /\ req[r].isGroup = calls[req[r].call].isGroup

\* Only a join that has read a ringing call makes it active.
SeenRinging == \A r \in Requests :
    req[r].pc = "setActive" => req[r].route = "join" /\ req[r].seen = "ringing"

\* A started call stays one, of the same kind.
LEMMA StartedKept ==
  ASSUME TypeOK, NEW r \in Requests, Step(r)
  PROVE  \A c \in Started : c \in Started' /\ calls'[c].isGroup = calls[c].isGroup
  BY CallsKept DEF Started, InsertCall

LEMMA StepRowsRead ==
  ASSUME TypeOK, ControlOK, RowsRead, NEW r \in Requests, Step(r)
  PROVE  RowsRead'
<1>1. \A s \in Requests \ {r} :
          \/ req'[s].pc \in {"idle", "readActive", "insertCall"}
          \/ req'[s].pc = "requireMember" /\ req'[s].route = "start"
          \/ req'[s].call \in Started' /\ req'[s].isGroup = calls'[req'[s].call].isGroup
  BY StepData, StartedKept DEF RowsRead
<1>2. \/ req'[r].pc \in {"idle", "readActive", "insertCall"}
      \/ req'[r].pc = "requireMember" /\ req'[r].route = "start"
      \/ req'[r].call \in Started' /\ req'[r].isGroup = calls'[req'[r].call].isGroup
  <2>1. ASSUME NEW c \in CallIds, InsertCall(r, c)
        PROVE  req'[r].call \in Started' /\ req'[r].isGroup = calls'[req'[r].call].isGroup
    <3>1. req'[r].call = c /\ req'[r].isGroup = req[r].isGroup
      BY <2>1, InsertData DEF SameReads
    <3>2. c \in Started' /\ calls'[c].isGroup = req[r].isGroup
      BY <2>1 DEF InsertCall, TypeOK, Started
    <3> QED BY <3>1, <3>2
  <2>2. ASSUME SameReads(r), req'[r].call = req[r].call, req'[r].pc \in Following(req[r].pc),
               req'[r].pc \notin {"readActive", "insertCall"}
        PROVE  \/ \E c \in CallIds : InsertCall(r, c)
               \/ req'[r].call \in Started' /\ req'[r].isGroup = calls'[req'[r].call].isGroup
    <3>1. CASE req[r].pc = "insertCall"
      BY <3>1, StepAt
    <3>2. CASE req[r].pc = "readActive"
      BY <2>2, <3>2 DEF Following
    <3>3. CASE req[r].pc = "requireMember" /\ req[r].route = "start"
      <4>1. RequireChatMember(r) /\ AfterMember(req[r]) = "readActive"
        BY <3>3, StepAt DEF AfterMember
      <4>2. req'[r].pc \in {"readActive", "idle"}
        BY <4>1, GotoData, FinishData DEF RequireChatMember, Statements
      <4> QED BY <2>2, <4>2 DEF Following
    <3>4. CASE req[r].call \in Started /\ req[r].isGroup = calls[req[r].call].isGroup
      BY <2>2, <3>4, StartedKept DEF SameReads
    <3> QED BY <3>1, <3>2, <3>3, <3>4, StepAt DEF RowsRead
  <2> QED BY <2>1, <2>2, StepData
<1>3. \A c \in CallIds \ Started' : call_participants'[c] = {}
  <2> TAKE c \in CallIds \ Started'
  <2>1. call_participants[c] = {}
    BY StartedKept DEF RowsRead
  <2>2. CASE AddParticipant(r)
    <3>1. req[r].call \in Started'
      BY <2>2, StartedKept DEF RowsRead, AddParticipant
    <3> QED BY <2>1, <2>2, <3>1 DEF AddParticipant, TypeOK
  <2>3. CASE RemoveParticipant(r)
    BY <2>1, <2>3 DEF RemoveParticipant, TypeOK
  <2> QED BY <2>1, <2>2, <2>3, StepWrites
<1> QED BY <1>1, <1>2, <1>3 DEF RowsRead

LEMMA StepSeenRinging ==
  ASSUME TypeOK, ControlOK, SeenRinging, NEW r \in Requests, Step(r)
  PROVE  SeenRinging'
<1> SUFFICES ASSUME req'[r].pc = "setActive"
             PROVE  req'[r].route = "join" /\ req'[r].seen = "ringing"
  BY StepData DEF SeenRinging
<1>1. req[r].pc = "count" /\ SameReads(r)
  BY StepData DEF Following
<1>2. Count(r) /\ req[r].route = "join"
  <2>1. req[r].pc \in StatementsOf(req[r].route) /\ req[r].route \in Routes
    BY DEF ControlOK, TypeOK, Request
  <2> QED BY <1>1, <2>1, StepAt DEF StatementsOf, Routes
<1>3. req[r].seen = "ringing"
  <2> SUFFICES ASSUME req[r].seen # "ringing" PROVE FALSE
    OBVIOUS
  <2>1. Finish(r) \/ Goto(r, "addParticipant")
    BY <1>2 DEF Count
  <2> QED BY <2>1, GotoData, FinishData DEF Statements
<1> QED BY <1>1, <1>2, <1>3 DEF SameReads

LEMMA ReadsNext ==
  TypeOK /\ ControlOK /\ RowsRead /\ SeenRinging /\ [Next]_vars => (RowsRead /\ SeenRinging)'
<1> SUFFICES ASSUME TypeOK, ControlOK, RowsRead, SeenRinging, [Next]_vars
             PROVE  RowsRead' /\ SeenRinging'
  OBVIOUS
<1>1. ASSUME NEW r \in Requests, NEW actor \in Users, NEW isGroup \in BOOLEAN,
             Start(r, actor, isGroup)
      PROVE  RowsRead' /\ SeenRinging'
  <2>1. calls' = calls /\ call_participants' = call_participants
    BY <1>1 DEF Start, db
  <2> QED BY <1>1, <2>1, ArrivalData DEF RowsRead, SeenRinging, Started
<1>2. ASSUME NEW r \in Requests, NEW route \in Routes, NEW actor \in Users, NEW call \in CallIds,
             Act(r, route, actor, call)
      PROVE  RowsRead' /\ SeenRinging'
  <2>1. calls' = calls /\ call_participants' = call_participants
    BY <1>2 DEF Act, db
  <2> QED BY <1>2, <2>1, ArrivalData DEF RowsRead, SeenRinging, Started
<1>3. ASSUME NEW r \in Requests, Step(r) PROVE RowsRead' /\ SeenRinging'
  BY <1>3, StepRowsRead, StepSeenRinging
<1>4. ASSUME NEW r \in Requests, Abort(r) PROVE RowsRead' /\ SeenRinging'
  <2>1. calls' = calls /\ call_participants' = call_participants
    BY <1>4 DEF Abort, db
  <2> QED BY <1>4, <2>1, FinishData DEF RowsRead, SeenRinging, Started, Abort
<1>5. ASSUME NEW u \in Users, ChangeMember(u) PROVE RowsRead' /\ SeenRinging'
  BY <1>5 DEF ChangeMember, RowsRead, SeenRinging, Started
<1>6. CASE UNCHANGED vars
  BY <1>6 DEF vars, RowsRead, SeenRinging, Started
<1> QED BY <1>1, <1>2, <1>3, <1>4, <1>5, <1>6 DEF Next

LEMMA ReadsInvariant == Spec => [](ControlOK /\ RowsRead /\ SeenRinging)
<1>1. Init => ControlOK /\ RowsRead /\ SeenRinging
  BY DEF Init, Idle, ControlOK, StatementsOf, RowsRead, SeenRinging, Started
<1> QED BY <1>1, ReadsNext, NextControl, TypeCorrect, PTL DEF Spec

LEMMA SubsetCard ==
  ASSUME NEW S, IsFiniteSet(S), NEW T \in SUBSET S
  PROVE  IsFiniteSet(T) /\ Cardinality(T) \in Nat /\ Cardinality(T) <= Cardinality(S)
  BY FS_Subset, FS_CardinalityType

\* One that waits at most turns into one that is in: the sum of both does not grow.
LEMMA SumHolds ==
  ASSUME NEW S, NEW T, NEW P, NEW Q, IsFiniteSet(S), IsFiniteSet(P),
         \/ T \subseteq S /\ Q \subseteq P
         \/ \E i, r : T \subseteq S \cup {i} /\ r \in P /\ Q \subseteq P \ {r}
  PROVE  /\ Cardinality(S) \in Nat /\ Cardinality(P) \in Nat
         /\ Cardinality(T) \in Nat /\ Cardinality(Q) \in Nat
         /\ Cardinality(T) + Cardinality(Q) <= Cardinality(S) + Cardinality(P)
<1>0. /\ Cardinality(S) \in Nat /\ Cardinality(P) \in Nat
  BY FS_CardinalityType
<1>1. CASE T \subseteq S /\ Q \subseteq P
  <2>1. /\ Cardinality(Q) \in Nat /\ Cardinality(Q) <= Cardinality(P)
        /\ Cardinality(T) \in Nat /\ Cardinality(T) <= Cardinality(S)
    BY <1>1, SubsetCard
  <2> QED BY <1>0, <2>1
<1>2. CASE \E i, r : T \subseteq S \cup {i} /\ r \in P /\ Q \subseteq P \ {r}
  <2>1. PICK i, r : T \subseteq S \cup {i} /\ r \in P /\ Q \subseteq P \ {r}
    BY <1>2
  <2>2. /\ IsFiniteSet(S \cup {i})
        /\ Cardinality(S \cup {i}) = IF i \in S THEN Cardinality(S) ELSE Cardinality(S) + 1
    BY FS_AddElement
  <2>3. IsFiniteSet(P \ {r}) /\ Cardinality(P \ {r}) = Cardinality(P) - 1
    BY <2>1, FS_RemoveElement
  <2>4. Cardinality(Q) \in Nat /\ Cardinality(Q) <= Cardinality(P \ {r})
    BY <2>1, <2>3, SubsetCard
  <2>5. Cardinality(T) \in Nat /\ Cardinality(T) <= Cardinality(S \cup {i})
    BY <2>1, <2>2, SubsetCard
  <2> QED BY <1>0, <2>2, <2>3, <2>4, <2>5
<1> QED BY <1>1, <1>2

\* A call the count has seen with room, or a fresh one, is not overfilled even
\* if every request that runs is let in.
LEMMA RoomForAll ==
  ASSUME NEW S, NEW T \in SUBSET Requests,
         IsFiniteSet(S), Cardinality(S) < MaxParticipants
  PROVE  Cardinality(S) + Cardinality(T) < MaxParticipants + Cardinality(Requests)
<1>1. Cardinality(S) \in Nat /\ Cardinality(Requests) \in Nat /\ MaxParticipants \in Nat
  BY ConstantsAssumption, FS_CardinalityType
<1>2. Cardinality(T) \in Nat /\ Cardinality(T) <= Cardinality(Requests)
  BY ConstantsAssumption, SubsetCard
<1> QED BY <1>1, <1>2

LEMMA EnteringFinite ==
  \A c : Entering(c) \in SUBSET Requests /\ IsFiniteSet(Entering(c))
  BY ConstantsAssumption, SubsetCard DEF Entering, At

\* For the other steps those who take part in a call, with the requests that
\* are past its count, do not become more.
LEMMA OneEnters ==
  ASSUME TypeOK, NEW c \in CallIds, CapacityOvershootBounded,
         calls[c].isGroup,
         \/ /\ call_participants'[c] \subseteq call_participants[c]
            /\ Entering(c)' \subseteq Entering(c)
         \/ \E i, r : /\ call_participants'[c] \subseteq call_participants[c] \cup {i}
                      /\ r \in Entering(c) /\ Entering(c)' \subseteq Entering(c) \ {r}
  PROVE  Cardinality(call_participants'[c]) + Cardinality(Entering(c)')
           < MaxParticipants + Cardinality(Requests)
<1> DEFINE S == call_participants[c]
           P == Entering(c)
           T == call_participants'[c]
           Q == Entering(c)'
<1>1. IsFiniteSet(S) /\ IsFiniteSet(P)
  BY EnteringFinite, ConstantsAssumption, SubsetCard DEF TypeOK
<1>2. Cardinality(S) + Cardinality(P) < MaxParticipants + Cardinality(Requests)
  BY DEF CapacityOvershootBounded
<1>3. MaxParticipants + Cardinality(Requests) \in Nat
  BY ConstantsAssumption, FS_CardinalityType
<1>4. \/ T \subseteq S /\ Q \subseteq P
      \/ \E i, r : T \subseteq S \cup {i} /\ r \in P /\ Q \subseteq P \ {r}
  OBVIOUS
<1> HIDE DEF S, P, T, Q
<1>5. /\ Cardinality(S) \in Nat /\ Cardinality(P) \in Nat
      /\ Cardinality(T) \in Nat /\ Cardinality(Q) \in Nat
      /\ Cardinality(T) + Cardinality(Q) <= Cardinality(S) + Cardinality(P)
  BY <1>1, <1>4, SumHolds
<1>6. Cardinality(T) + Cardinality(Q) < MaxParticipants + Cardinality(Requests)
  BY <1>2, <1>3, <1>5
<1> QED BY <1>6 DEF T, Q

LEMMA StepCapacity ==
  ASSUME TypeOK, RowsRead, CapacityOvershootBounded, NEW r \in Requests, Step(r)
  PROVE  CapacityOvershootBounded'
<1> SUFFICES ASSUME NEW c \in CallIds, calls'[c].isGroup
             PROVE  Cardinality(call_participants'[c]) + Cardinality(Entering(c)')
                      < MaxParticipants + Cardinality(Requests)
  BY DEF CapacityOvershootBounded
<1>0. IsFiniteSet(call_participants[c])
  BY ConstantsAssumption, SubsetCard DEF TypeOK
<1>1. CASE InsertCall(r, c)
  <2>1. call_participants'[c] = {}
    BY <1>1 DEF InsertCall, RowsRead, Started
  <2>2. Cardinality(call_participants'[c]) = 0 /\ IsFiniteSet(call_participants'[c])
    BY <2>1, FS_EmptySet
  <2>3. Cardinality(call_participants'[c]) < MaxParticipants
    BY <2>2, ConstantsAssumption
  <2>4. Entering(c)' \in SUBSET Requests
    BY DEF Entering, At
  <2> QED BY <2>2, <2>3, <2>4, RoomForAll
<1>2. ASSUME ~InsertCall(r, c) PROVE calls[c].isGroup
  BY <1>2, CallsKept
<1>3. CASE Count(r) /\ req[r].call = c /\ req'[r].pc # "idle" /\ ~InsertCall(r, c)
  <2>1. req[r].isGroup
    BY <1>2, <1>3 DEF Count, RowsRead
  <2>2. Cardinality(call_participants[c]) < MaxParticipants
    <3>1. ~Finish(r)
      BY <1>3, FinishData
    <3>2. ~(Cardinality(call_participants[c]) >= MaxParticipants)
      BY <1>3, <2>1, <3>1 DEF Count
    <3> QED BY <1>0, <3>2, ConstantsAssumption, FS_CardinalityType
  <2>3. call_participants'[c] = call_participants[c]
    BY <1>3 DEF Count, db
  <2>4. Entering(c)' \in SUBSET Requests
    BY DEF Entering, At
  <2> QED BY <1>0, <2>2, <2>3, <2>4, RoomForAll
<1>4. CASE ~InsertCall(r, c) /\ ~(Count(r) /\ req[r].call = c /\ req'[r].pc # "idle")
  <2>1. Entering(c)' \subseteq Entering(c)
    <3>1. \A s \in Requests \ {r} : req'[s] = req[s]
      BY StepData
    <3>2. r \in Entering(c)' => r \in Entering(c)
      <4> SUFFICES ASSUME req'[r].call = c, req'[r].pc \in {"setActive", "addParticipant"},
                          r \notin Entering(c)
                   PROVE  FALSE
        BY DEF Entering, At
      <4>1. req[r].call = c /\ req'[r].pc \in Following(req[r].pc)
        BY <1>4, StepData
      <4>2. req[r].pc \in {"count", "insertCall", "setActive"}
        BY <4>1 DEF Following
      <4>3. req[r].pc # "count"
        BY <1>4, <4>1, StepAt
      <4>4. ASSUME NEW d \in CallIds, InsertCall(r, d) PROVE FALSE
        BY <1>4, <4>4, InsertData
      <4> QED BY <4>1, <4>2, <4>3, <4>4, StepAt DEF Entering, At
    <3> QED BY <3>1, <3>2 DEF Entering, At
  <2>2. CASE AddParticipant(r) /\ req[r].call = c
    <3>1. call_participants'[c] \subseteq call_participants[c] \cup {req[r].actor}
      BY <2>2 DEF AddParticipant, TypeOK
    <3>2. r \in Entering(c)
      BY <2>2 DEF AddParticipant, Entering, At
    <3>3. r \notin Entering(c)'
      <4>1. req[r].pc = "addParticipant" /\ ~\E d \in CallIds : InsertCall(r, d)
        BY <2>2 DEF AddParticipant, InsertCall
      <4>2. req'[r].pc \in {"idle", "publish"}
        BY <4>1, StepData DEF Following
      <4> QED BY <4>2 DEF Entering, At
    <3> QED BY <1>2, <1>4, <2>1, <3>1, <3>2, <3>3, OneEnters
  <2>3. CASE ~(AddParticipant(r) /\ req[r].call = c)
    <3>1. call_participants'[c] \subseteq call_participants[c]
      <4>1. CASE AddParticipant(r)
        BY <2>3, <4>1 DEF AddParticipant, TypeOK
      <4>2. CASE RemoveParticipant(r)
        BY <4>2 DEF RemoveParticipant, TypeOK
      <4>3. CASE call_participants' = call_participants
        BY <4>3
      <4> QED BY <4>1, <4>2, <4>3, StepWrites
    <3> QED BY <1>2, <1>4, <2>1, <3>1, OneEnters
  <2> QED BY <2>2, <2>3
<1> QED BY <1>1, <1>3, <1>4

\* A step that lets no request in.
LEMMA FrameCapacity ==
  ASSUME TypeOK, CapacityOvershootBounded, UNCHANGED <<calls, call_participants>>,
         \A r \in Requests : req'[r] = req[r] \/ req'[r].pc \in {"idle", "requireMember"}
  PROVE  CapacityOvershootBounded'
<1> SUFFICES ASSUME NEW c \in CallIds, calls'[c].isGroup
             PROVE  Cardinality(call_participants'[c]) + Cardinality(Entering(c)')
                      < MaxParticipants + Cardinality(Requests)
  BY DEF CapacityOvershootBounded
<1>1. Entering(c)' \subseteq Entering(c)
  BY DEF Entering, At
<1> QED BY <1>1, OneEnters

\* A step other than a statement: a request that arrives or stops, or a change
\* of the members.
LEMMA OtherSteps ==
  ASSUME TypeOK, [Next]_vars, ~\E r \in Requests : Step(r)
  PROVE  /\ UNCHANGED <<calls, call_participants>>
         /\ \A r \in Requests :
               \/ req'[r] = req[r]
               \/ req'[r].pc = "idle"
               \/ /\ req'[r].pc = "requireMember"
                  /\ req'[r].route = "join" => /\ req'[r].call \in CallIds
                                               /\ req'[r].seen = calls[req'[r].call].status
<1>1. ASSUME NEW r \in Requests, NEW actor \in Users, NEW isGroup \in BOOLEAN,
             Start(r, actor, isGroup)
      PROVE  /\ UNCHANGED <<calls, call_participants>>
             /\ req'[r].pc = "requireMember" /\ req'[r].route # "join"
             /\ \A s \in Requests \ {r} : req'[s] = req[s]
  BY <1>1, ArrivalData DEF Start, db
<1>2. ASSUME NEW r \in Requests, NEW route \in Routes, NEW actor \in Users, NEW call \in CallIds,
             Act(r, route, actor, call)
      PROVE  /\ UNCHANGED <<calls, call_participants>>
             /\ req'[r].pc = "requireMember"
             /\ req'[r].route = "join" => /\ req'[r].call \in CallIds
                                          /\ req'[r].seen = calls[req'[r].call].status
             /\ \A s \in Requests \ {r} : req'[s] = req[s]
  <2>1. UNCHANGED <<calls, call_participants>>
    BY <1>2 DEF Act, db
  <2>2. /\ req'[r].pc = "requireMember" /\ req'[r].call = call
        /\ req'[r].route = "join" => req'[r].seen = calls[call].status
        /\ \A s \in Requests \ {r} : req'[s] = req[s]
    BY <1>2, ArrivalData
  <2> QED BY <2>1, <2>2
<1>3. ASSUME NEW r \in Requests, Abort(r)
      PROVE  /\ UNCHANGED <<calls, call_participants>>
             /\ req'[r].pc = "idle"
             /\ \A s \in Requests \ {r} : req'[s] = req[s]
  BY <1>3, FinishData DEF Abort, db
<1>4. ASSUME NEW u \in Users, ChangeMember(u)
      PROVE  UNCHANGED <<calls, call_participants, req>>
  BY <1>4 DEF ChangeMember
<1>5. CASE UNCHANGED vars
  BY <1>5 DEF vars
<1> QED BY <1>1, <1>2, <1>3, <1>4, <1>5 DEF Next

\* The joins that are past the count overfill a group call by fewer than the
\* requests that run at once, in every behaviour.
THEOREM CapacityOvershoot == Spec => []CapacityOvershootBounded
<1>1. Init => CapacityOvershootBounded
  BY DEF Init, CapacityOvershootBounded
<1>2. /\ TypeOK /\ (ControlOK /\ RowsRead /\ SeenRinging) /\ CapacityOvershootBounded
      /\ [Next]_vars
      => CapacityOvershootBounded'
  BY StepCapacity, OtherSteps, FrameCapacity
<1> QED BY <1>1, <1>2, ReadsInvariant, TypeCorrect, PTL DEF Spec

-------------------------------------------------------------------------------
(* "Check for existing active call".                                       *)

\* The calls that are live, or that a join is going to make live.
Coming == Live \cup Reviving

LEMMA ComingFinite == IsFiniteSet(Coming) /\ IsFiniteSet(Creating)
<1>1. Coming \in SUBSET CallIds /\ Creating \in SUBSET Requests
  BY DEF Coming, Live, Reviving, Creating
<1> QED BY <1>1, ConstantsAssumption, SubsetCard

\* A join that is going to make a call live has been so before the step, or has
\* just read the call ringing.
LEMMA RevivingKept ==
  ASSUME TypeOK, [Next]_vars
  PROVE  Reviving' \subseteq Coming
<1> SUFFICES ASSUME NEW c \in CallIds, NEW r \in Requests,
                    req'[r].call = c, req'[r].pc \in {"requireMember", "count", "setActive"},
                    req'[r].route = "join", req'[r].seen = "ringing"
             PROVE  c \in Coming
  BY DEF Reviving, At
<1>1. CASE req'[r] = req[r]
  BY <1>1 DEF Coming, Reviving, At
<1>2. CASE req'[r] # req[r] /\ ~\E s \in Requests : Step(s)
  <2>1. req'[r].seen = calls[c].status
    BY <1>2, OtherSteps
  <2> QED BY <2>1 DEF Coming, Live, LiveStatus
<1>3. ASSUME NEW s \in Requests, Step(s), req'[r] # req[r] PROVE c \in Coming
  <2>1. r = s
    BY <1>3, StepData
  <2>2. ~\E d \in CallIds : InsertCall(r, d)
    BY InsertData
  <2>3. /\ req[r].call = c /\ req[r].route = "join" /\ req[r].seen = "ringing"
        /\ req'[r].pc \in Following(req[r].pc)
    BY <1>3, <2>1, <2>2, StepData DEF SameReads
  <2>4. req[r].pc \in {"requireMember", "count"}
    BY <2>3 DEF Following
  <2> QED BY <2>3, <2>4 DEF Coming, Reviving, At
<1> QED BY <1>1, <1>2, <1>3

\* A call becomes live by its INSERT or by a join that has read it ringing.
LEMMA LiveKept ==
  ASSUME TypeOK, SeenRinging, [Next]_vars
  PROVE  \/ Live' \subseteq Coming
         \/ \E r \in Requests, c \in CallIds : InsertCall(r, c) /\ Live' \subseteq Coming \cup {c}
<1>1. CASE ~\E r \in Requests : Step(r)
  BY <1>1, OtherSteps DEF Live, Coming
<1>2. ASSUME NEW r \in Requests, Step(r)
      PROVE  \A c \in Live' : c \in Coming \/ InsertCall(r, c)
  <2> TAKE c \in Live'
  <2>1. c \in CallIds /\ calls'[c].status \in LiveStatus
    BY DEF Live
  <2>2. CASE calls'[c] = calls[c]
    BY <2>1, <2>2 DEF Live, Coming
  <2>3. CASE c = req[r].call /\ SetActive(r)
    BY <2>1, <2>3 DEF SetActive, SeenRinging, Coming, Reviving, At
  <2> QED BY <1>2, <2>1, <2>2, <2>3, CallsKept
<1>3. ASSUME NEW r \in Requests, NEW c \in CallIds, InsertCall(r, c)
      PROVE  \A d \in CallIds : InsertCall(r, d) => d = c
  BY <1>3, InsertData
<1>4. ASSUME NEW r \in Requests, Step(r)
      PROVE  \/ Live' \subseteq Coming
             \/ \E c \in CallIds : InsertCall(r, c) /\ Live' \subseteq Coming \cup {c}
  <2>1. CASE \E c \in CallIds : InsertCall(r, c)
    <3>1. PICK c \in CallIds : InsertCall(r, c)
      BY <2>1
    <3>2. Live' \subseteq Coming \cup {c}
      BY <1>2, <1>3, <1>4, <3>1 DEF Live
    <3> QED BY <3>1, <3>2
  <2>2. CASE ~\E c \in CallIds : InsertCall(r, c)
    BY <1>2, <1>4, <2>2 DEF Live
  <2> QED BY <2>1, <2>2
<1> QED BY <1>1, <1>4

\* While a call is live no request finds that it may create one, and the INSERT
\* takes its request out of those that do.
LEMMA CreatingKept ==
  ASSUME TypeOK, [Next]_vars, Live # {}
  PROVE  /\ Creating' \subseteq Creating
         /\ \A r \in Requests, c \in CallIds :
               InsertCall(r, c) => r \in Creating /\ Creating' \subseteq Creating \ {r}
<1>1. ASSUME NEW r \in Requests, req'[r].pc = "insertCall" PROVE req'[r] = req[r]
  <2>1. CASE ~\E s \in Requests : Step(s)
    BY <1>1, <2>1, OtherSteps
  <2>2. ASSUME NEW s \in Requests, Step(s), req'[r] # req[r] PROVE FALSE
    <3>1. r = s
      BY <2>2, StepData
    <3>2. ~\E d \in CallIds : InsertCall(r, d)
      BY <1>1, InsertData
    <3>3. req[r].pc = "readActive"
      BY <1>1, <2>2, <3>1, <3>2, StepData DEF Following
    <3>4. ReadActive(r)
      BY <2>2, <3>1, <3>3, StepAt
    <3> QED BY <1>1, <3>4, FinishData DEF ReadActive
  <2> QED BY <2>1, <2>2
<1>2. ASSUME NEW r \in Requests, NEW c \in CallIds, InsertCall(r, c)
      PROVE  req[r].pc = "insertCall" /\ req'[r].pc # "insertCall"
  BY <1>2, InsertData DEF InsertCall
<1> QED BY <1>1, <1>2 DEF Creating

\* While a call of the chat is live, no step adds to the calls that are live or
\* are going to be, the starts that have found none included.
THEOREM NoFurtherCalls == Spec => NoFurtherCall
<1>1. /\ TypeOK /\ (ControlOK /\ RowsRead /\ SeenRinging) /\ [Next]_vars
      => [Live # {} => Cardinality(Live \cup Reviving)' + Cardinality(Creating)'
                         <= Cardinality(Live \cup Reviving) + Cardinality(Creating)]_vars
  <2> SUFFICES ASSUME TypeOK, SeenRinging, [Next]_vars, Live # {}
               PROVE  Cardinality(Live \cup Reviving)' + Cardinality(Creating)'
                        <= Cardinality(Live \cup Reviving) + Cardinality(Creating)
    OBVIOUS
  <2>1. \/ Coming' \subseteq Coming /\ Creating' \subseteq Creating
        \/ \E c, r : Coming' \subseteq Coming \cup {c}
                     /\ r \in Creating /\ Creating' \subseteq Creating \ {r}
    <3>1. CASE Live' \subseteq Coming
      BY <3>1, RevivingKept, CreatingKept DEF Coming
    <3>2. ASSUME NEW r \in Requests, NEW c \in CallIds, InsertCall(r, c),
                 Live' \subseteq Coming \cup {c}
          PROVE  /\ Coming' \subseteq Coming \cup {c}
                 /\ r \in Creating /\ Creating' \subseteq Creating \ {r}
      BY <3>2, RevivingKept, CreatingKept DEF Coming
    <3> QED BY <3>1, <3>2, LiveKept
  <2>2. Cardinality(Coming') + Cardinality(Creating') <= Cardinality(Coming) + Cardinality(Creating)
    BY <2>1, ComingFinite, SumHolds
  <2> QED BY <2>2 DEF Coming
<1> QED BY <1>1, ReadsInvariant, TypeCorrect, PTL DEF Spec, NoFurtherCall

-------------------------------------------------------------------------------
(* "Entitlement is membership of the call's chat".                         *)

\* The calls a user takes part in.
CallsOf(u) == {c \in CallIds : u \in call_participants[c]}

LEMMA CallsOfFinite == \A u : IsFiniteSet(CallsOf(u)) /\ IsFiniteSet(Admitted(u))
<1>1. \A u : CallsOf(u) \in SUBSET CallIds /\ Admitted(u) \in SUBSET Requests
  BY DEF CallsOf, Admitted
<1> QED BY <1>1, ConstantsAssumption, SubsetCard

\* Only a member passes the check, by it.
LEMMA AdmittedKept ==
  ASSUME TypeOK, [Next]_vars, NEW u, u \notin chat_members
  PROVE  Admitted(u)' \subseteq Admitted(u)
<1> SUFFICES ASSUME NEW r \in Requests, req'[r].actor = u, req'[r] # req[r],
                    req'[r].pc \in {"readActive", "insertCall", "count", "setActive",
                                    "addParticipant"}
             PROVE  r \in Admitted(u)
  BY DEF Admitted
<1>1. CASE ~\E s \in Requests : Step(s)
  BY <1>1, OtherSteps
<1>2. CASE \E s \in Requests : Step(s)
  <2>1. Step(r)
    BY <1>2, StepData
  <2>2. req[r].actor = u /\ req'[r].pc \in Following(req[r].pc)
    BY <2>1, StepData DEF SameReads
  <2>3. req[r].pc \in {"requireMember", "readActive", "insertCall", "count", "setActive"}
    BY <2>2 DEF Following
  <2>4. req[r].pc # "requireMember"
    <3> SUFFICES ASSUME req[r].pc = "requireMember" PROVE FALSE
      OBVIOUS
    <3>1. RequireChatMember(r)
      BY <2>1, StepAt
    <3>2. Finish(r)
      BY <2>2, <3>1 DEF RequireChatMember
    <3> QED BY <3>2, FinishData
  <2> QED BY <2>2, <2>3, <2>4 DEF Admitted
<1> QED BY <1>1, <1>2

\* A user comes into a call by the INSERT of a request of theirs, which is then done.
LEMMA CallsOfMove ==
  ASSUME TypeOK, [Next]_vars, NEW u
  PROVE  \/ CallsOf(u)' \subseteq CallsOf(u)
         \/ \E r \in Requests, c \in CallIds :
               /\ CallsOf(u)' \subseteq CallsOf(u) \cup {c}
               /\ r \in Admitted(u) /\ r \notin Admitted(u)'
<1>1. CASE UNCHANGED call_participants
  BY <1>1 DEF CallsOf
<1>2. ASSUME NEW r \in Requests, RemoveParticipant(r) PROVE CallsOf(u)' \subseteq CallsOf(u)
  BY <1>2 DEF RemoveParticipant, TypeOK, CallsOf
<1>3. ASSUME NEW r \in Requests, Step(r), AddParticipant(r), req[r].actor # u
      PROVE  CallsOf(u)' \subseteq CallsOf(u)
  BY <1>3 DEF AddParticipant, TypeOK, CallsOf
<1>4. ASSUME NEW r \in Requests, Step(r), AddParticipant(r), req[r].actor = u
      PROVE  /\ CallsOf(u)' \subseteq CallsOf(u) \cup {req[r].call}
             /\ r \in Admitted(u) /\ r \notin Admitted(u)'
  <2>1. CallsOf(u)' \subseteq CallsOf(u) \cup {req[r].call}
    BY <1>4 DEF AddParticipant, TypeOK, CallsOf
  <2>2. r \in Admitted(u)
    BY <1>4 DEF AddParticipant, Admitted
  <2>3. req[r].pc = "addParticipant" /\ ~\E d \in CallIds : InsertCall(r, d)
    BY <1>4 DEF AddParticipant, InsertCall
  <2>4. req'[r].pc \in {"idle", "publish"}
    BY <1>4, <2>3, StepData DEF Following
  <2> QED BY <2>1, <2>2, <2>4 DEF Admitted
<1>5. \A r \in Requests : req[r].call \in CallIds
  BY DEF TypeOK, Request
<1> QED BY <1>1, <1>2, <1>3, <1>4, <1>5, StepWrites, OtherSteps

\* One who is not a member of the chat enters no call of it, except by a request
\* that passed the check while the user was a member.
THEOREM OutsidersEnterNoCall == Spec => OutsidersStayOut
<1>1. TypeOK /\ [Next]_vars
      => [\A u \in Users \ (chat_members \cup chat_members') :
            Cardinality({c \in CallIds : u \in call_participants[c]})' + Cardinality(Admitted(u))'
              <= Cardinality({c \in CallIds : u \in call_participants[c]})
                   + Cardinality(Admitted(u))]_vars
  <2> SUFFICES ASSUME TypeOK, [Next]_vars, NEW u \in Users, u \notin chat_members
               PROVE  Cardinality({c \in CallIds : u \in call_participants[c]})'
                        + Cardinality(Admitted(u))'
                        <= Cardinality({c \in CallIds : u \in call_participants[c]})
                             + Cardinality(Admitted(u))
    OBVIOUS
  <2>1. \/ CallsOf(u)' \subseteq CallsOf(u) /\ Admitted(u)' \subseteq Admitted(u)
        \/ \E c, r : CallsOf(u)' \subseteq CallsOf(u) \cup {c}
                     /\ r \in Admitted(u) /\ Admitted(u)' \subseteq Admitted(u) \ {r}
    BY CallsOfMove, AdmittedKept
  <2>2. Cardinality(CallsOf(u)') + Cardinality(Admitted(u)')
          <= Cardinality(CallsOf(u)) + Cardinality(Admitted(u))
    BY <2>1, CallsOfFinite, SumHolds
  <2> QED BY <2>2 DEF CallsOf
<1> QED BY <1>1, TypeCorrect, PTL DEF Spec, OutsidersStayOut

===============================================================================
