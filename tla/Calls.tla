-------------------------------- MODULE Calls --------------------------------
(***************************************************************************)
(* The voice and video calls of one chat, as the calls module of           *)
(* realtime-service keeps them in PostgreSQL                               *)
(* (services/realtime-service/src/modules/calls/calls.module.ts), and what *)
(* an idle member's client shows of them (client chat-store.ts).           *)
(*                                                                         *)
(* As in Membership, each query of a handler commits on its own, the       *)
(* queries of concurrent requests interleave, and a handler may stop       *)
(* between two of them.                                                    *)
(***************************************************************************)
EXTENDS Naturals, FiniteSets

CONSTANTS
    Users,              \* the users of the service
    InitialMembers,     \* the members of the chat at the start
    CallIds,            \* calls; bounds how many are ever started
    Nothing,            \* no incoming call on the screen
    MaxParticipants,    \* MAX_GROUP_CALL_PARTICIPANTS
    Requests,           \* request slots: how many requests may run concurrently
    MembersChange,      \* whether the routes of Membership run meanwhile
    MayAbort            \* whether a handler may stop between two statements

ASSUME ConstantsAssumption ==
    /\ InitialMembers \subseteq Users
    /\ IsFiniteSet(Users) /\ IsFiniteSet(Requests) /\ IsFiniteSet(CallIds)
    /\ Users # {} /\ CallIds # {}
    /\ Nothing \notin CallIds
    /\ MaxParticipants \in Nat \ {0}
    /\ MembersChange \in BOOLEAN /\ MayAbort \in BOOLEAN

VARIABLES
    chat_members,       \* the members of the chat
    calls,              \* the rows of calls
    call_participants,  \* call -> the users whose row has left_at NULL
    req,                \* the control state of each request
    incomingCall,       \* the call that rings on a client which has got every event
    overtaken,          \* history: calls whose CALL_ENDED was published before CALL_STARTED
    stopped             \* history: calls of which a handler stopped half-way

db   == <<chat_members, calls, call_participants>>
vars == <<chat_members, calls, call_participants, req, incomingCall, overtaken, stopped>>

CallStatus == {"none", "ringing", "active", "ended", "declined"}
LiveStatus == {"ringing", "active"}
Call       == [status : CallStatus, isGroup : BOOLEAN]
Routes     == {"start", "join", "leave", "decline"}
Events     == {"started", "joined", "left", "ended"}
Statements == {"idle", "requireMember", "readActive", "insertCall", "count",
               "setActive", "addParticipant", "removeParticipant", "countLeft", "setEnded",
               "countDecline", "setDeclined", "publish"}

\* seen is what a handler goes by of the call it has read: the status, or for a
\* leave whether the caller takes part.
Request == [pc : Statements, route : Routes, actor : Users, call : CallIds,
            isGroup : BOOLEAN, seen : CallStatus \cup {"participant"}, event : Events]

Idle == [pc |-> "idle", route |-> "start", actor |-> CHOOSE u \in Users : TRUE,
         call |-> CHOOSE c \in CallIds : TRUE, isGroup |-> FALSE, seen |-> "none",
         event |-> "started"]

Live    == {c \in CallIds : calls[c].status \in LiveStatus}
Started == {c \in CallIds : calls[c].status # "none"}

-------------------------------------------------------------------------------
Init ==
    /\ chat_members = InitialMembers
    /\ calls = [c \in CallIds |-> [status |-> "none", isGroup |-> FALSE]]
    /\ call_participants = [c \in CallIds |-> {}]
    /\ req = [r \in Requests |-> Idle]
    /\ incomingCall = Nothing
    /\ overtaken = {}
    /\ stopped = {}

Goto(r, statement) == req' = [req EXCEPT ![r].pc = statement]
Finish(r)          == req' = [req EXCEPT ![r] = Idle]

\* POST /calls/start.  The bound leaves room for the call it may create.
Start(r, actor, isGroup) ==
    /\ req[r].pc = "idle"
    /\ Cardinality(Started)
         + Cardinality({s \in Requests : /\ req[s].route = "start"
                                         /\ req[s].pc \in {"requireMember", "readActive",
                                                           "insertCall"}})
         < Cardinality(CallIds)
    /\ req' = [req EXCEPT ![r] = [Idle EXCEPT !.pc = "requireMember", !.route = "start",
                                              !.actor = actor, !.isGroup = isGroup]]
    /\ UNCHANGED <<db, incomingCall, overtaken, stopped>>

\* POST /calls/:callId/join, /leave and /decline.  Their first statement is
\* getCall, which reads the row and its participants.
Act(r, route, actor, call) ==
    LET takesPart == IF actor \in call_participants[call] THEN "participant" ELSE "none"
    IN  /\ req[r].pc = "idle"
        /\ route # "start"
        /\ call \in Started
        /\ req' = [req EXCEPT ![r] =
                      [Idle EXCEPT !.pc = "requireMember", !.route = route, !.actor = actor,
                                   !.call = call, !.isGroup = calls[call].isGroup,
                                   !.seen = IF route = "leave" THEN takesPart
                                                               ELSE calls[call].status]]
        /\ UNCHANGED <<db, incomingCall, overtaken, stopped>>

-------------------------------------------------------------------------------
(* Reads.                                                                  *)

\* Where a member's request goes on, on what it has read of the call.
AfterMember(request) ==
    CASE request.route = "start"                                      -> "readActive"
      [] request.route = "join" /\ request.seen \in LiveStatus        -> "count"
      [] request.route = "leave" /\ request.seen = "participant"     -> "removeParticipant"
      [] request.route = "decline" /\ request.seen = "ringing"        -> "countDecline"
      [] OTHER                                                        -> "idle"

\* Mutant of RequireChatMember: C-02, any account may join by the id of a call.
RequireMemberToStart(r) ==
    LET statement == AfterMember(req[r])
    IN  /\ req[r].pc = "requireMember"
        /\ IF (req[r].route = "start" => req[r].actor \in chat_members) /\ statement # "idle"
           THEN Goto(r, statement)
           ELSE Finish(r)
        /\ UNCHANGED <<db, incomingCall, overtaken, stopped>>

RequireChatMember(r) ==
    LET statement == AfterMember(req[r])
    IN  /\ req[r].pc = "requireMember"
        /\ IF req[r].actor \in chat_members /\ statement # "idle"
           THEN Goto(r, statement)
           ELSE Finish(r)
        /\ UNCHANGED <<db, incomingCall, overtaken, stopped>>

\* Mutant of ReadActive: only a ringing call counts.
ReadRinging(r) ==
    /\ req[r].pc = "readActive"
    /\ IF \E c \in CallIds : calls[c].status = "ringing" THEN Finish(r) ELSE Goto(r, "insertCall")
    /\ UNCHANGED <<db, incomingCall, overtaken, stopped>>

\* "Join existing call instead": the caller is answered with the live call.
ReadActive(r) ==
    /\ req[r].pc = "readActive"
    /\ IF Live # {} THEN Finish(r) ELSE Goto(r, "insertCall")
    /\ UNCHANGED <<db, incomingCall, overtaken, stopped>>

\* Mutant of Count: off by one.
CountOver(r) ==
    LET participantCount == Cardinality(call_participants[req[r].call])
    IN  /\ req[r].pc = "count"
        /\ IF req[r].isGroup /\ participantCount > MaxParticipants
           THEN Finish(r)
           ELSE Goto(r, IF req[r].seen = "ringing" THEN "setActive" ELSE "addParticipant")
        /\ UNCHANGED <<db, incomingCall, overtaken, stopped>>

\* "Call is full" refuses the join of a group call.
Count(r) ==
    LET participantCount == Cardinality(call_participants[req[r].call])
    IN  /\ req[r].pc = "count"
        /\ IF req[r].isGroup /\ participantCount >= MaxParticipants
           THEN Finish(r)
           ELSE Goto(r, IF req[r].seen = "ringing" THEN "setActive" ELSE "addParticipant")
        /\ UNCHANGED <<db, incomingCall, overtaken, stopped>>

\* Mutant of CountLeft: only a call of two is ended.
CountLeftOfTwo(r) ==
    LET remaining == Cardinality(call_participants[req[r].call])
    IN  /\ req[r].pc = "countLeft"
        /\ req' = [req EXCEPT ![r] =
                      [@ EXCEPT !.event = "left",
                                !.pc = IF ~req[r].isGroup /\ remaining <= 1
                                       THEN "setEnded" ELSE "publish"]]
        /\ UNCHANGED <<db, incomingCall, overtaken, stopped>>

\* The last one out ends a group call, the first one out a call of two.
CountLeft(r) ==
    LET remaining == Cardinality(call_participants[req[r].call])
    IN  /\ req[r].pc = "countLeft"
        /\ req' = [req EXCEPT ![r] =
                      [@ EXCEPT !.event = "left",
                                !.pc = IF remaining = 0 \/ (~req[r].isGroup /\ remaining <= 1)
                                       THEN "setEnded" ELSE "publish"]]
        /\ UNCHANGED <<db, incomingCall, overtaken, stopped>>

CountDecline(r) ==
    LET remaining == Cardinality(call_participants[req[r].call])
    IN  /\ req[r].pc = "countDecline"
        /\ IF ~req[r].isGroup \/ remaining <= 1 THEN Goto(r, "setDeclined") ELSE Finish(r)
        /\ UNCHANGED <<db, incomingCall, overtaken, stopped>>

-------------------------------------------------------------------------------
(* Writes.                                                                 *)

\* createCall, under a fresh id.
InsertCall(r, c) ==
    /\ req[r].pc = "insertCall"
    /\ calls[c].status = "none"
    /\ calls' = [calls EXCEPT ![c] = [status |-> "ringing", isGroup |-> req[r].isGroup]]
    /\ req' = [req EXCEPT ![r] = [@ EXCEPT !.call = c, !.pc = "addParticipant"]]
    /\ UNCHANGED <<chat_members, call_participants, incomingCall, overtaken, stopped>>

\* updateCallStatus: the handlers write the status whatever it is by now.
UpdateStatus(r, status) ==
    calls' = [calls EXCEPT ![req[r].call].status = status]

\* Mutant of SetActive: the status of another enumeration.
SetOngoing(r) ==
    /\ req[r].pc = "setActive"
    /\ UpdateStatus(r, "ongoing")
    /\ Goto(r, "addParticipant")
    /\ UNCHANGED <<chat_members, call_participants, incomingCall, overtaken, stopped>>

SetActive(r) ==
    /\ req[r].pc = "setActive"
    /\ UpdateStatus(r, "active")
    /\ Goto(r, "addParticipant")
    /\ UNCHANGED <<chat_members, call_participants, incomingCall, overtaken, stopped>>

AddParticipant(r) ==
    LET c == req[r].call
    IN  /\ req[r].pc = "addParticipant"
        /\ call_participants' = [call_participants EXCEPT
                                    ![c] = call_participants[c] \cup {req[r].actor}]
        /\ req' = [req EXCEPT ![r] =
                      [@ EXCEPT !.pc = "publish",
                                !.event = IF req[r].route = "start" THEN "started" ELSE "joined"]]
        /\ UNCHANGED <<chat_members, calls, incomingCall, overtaken, stopped>>

RemoveParticipant(r) ==
    LET c == req[r].call
    IN  /\ req[r].pc = "removeParticipant"
        /\ call_participants' = [call_participants EXCEPT
                                    ![c] = call_participants[c] \ {req[r].actor}]
        /\ Goto(r, "countLeft")
        /\ UNCHANGED <<chat_members, calls, incomingCall, overtaken, stopped>>

SetEnded(r) ==
    /\ req[r].pc = "setEnded"
    /\ UpdateStatus(r, "ended")
    /\ req' = [req EXCEPT ![r] = [@ EXCEPT !.pc = "publish", !.event = "ended"]]
    /\ UNCHANGED <<chat_members, call_participants, incomingCall, overtaken, stopped>>

\* Mutant of SetDeclined: the other members are not told.
SetDeclinedSilently(r) ==
    /\ req[r].pc = "setDeclined"
    /\ UpdateStatus(r, "declined")
    /\ Finish(r)
    /\ UNCHANGED <<chat_members, call_participants, incomingCall, overtaken, stopped>>

SetDeclined(r) ==
    /\ req[r].pc = "setDeclined"
    /\ UpdateStatus(r, "declined")
    /\ req' = [req EXCEPT ![r] = [@ EXCEPT !.pc = "publish", !.event = "ended"]]
    /\ UNCHANGED <<chat_members, call_participants, incomingCall, overtaken, stopped>>

\* A call that has been announced as ended and not yet as started.
Unstarted(c) == \E s \in Requests :
    req[s].route = "start" /\ req[s].call = c /\ req[s].pc \in {"addParticipant", "publish"}

\* The event, and what it does to the client of an idle member: CALL_STARTED
\* rings in place of what rang, CALL_ENDED stops the ringing of its own call.
Publish(r) ==
    LET c == req[r].call
    IN  /\ req[r].pc = "publish"
        /\ incomingCall' = CASE req[r].event = "started"                     -> c
                             [] req[r].event = "ended" /\ incomingCall = c   -> Nothing
                             [] OTHER                                        -> incomingCall
        /\ overtaken' = IF req[r].event = "ended" /\ Unstarted(c)
                        THEN overtaken \cup {c} ELSE overtaken
        /\ Finish(r)
        /\ UNCHANGED <<db, stopped>>

-------------------------------------------------------------------------------
\* A request that leaves the rows or the clients behind if it goes no further.
Midway(r) == \/ req[r].pc \in {"addParticipant", "countLeft", "setEnded"}
             \/ req[r].pc = "publish" /\ req[r].event = "ended"

\* A query or the publish throws, or the process dies.
Abort(r) ==
    /\ MayAbort
    /\ req[r].pc # "idle"
    /\ stopped' = IF Midway(r) THEN stopped \cup {req[r].call} ELSE stopped
    /\ Finish(r)
    /\ UNCHANGED <<db, incomingCall, overtaken>>

\* The routes of Membership, which do not look at the calls of the chat.
ChangeMember(u) ==
    /\ MembersChange
    /\ \E members \in {chat_members \cup {u}, chat_members \ {u}} : chat_members' = members
    /\ UNCHANGED <<calls, call_participants, req, incomingCall, overtaken, stopped>>

Step(r) ==
    \/ RequireChatMember(r) \/ ReadActive(r)
    \/ Count(r) \/ CountLeft(r) \/ CountDecline(r)
    \/ \E c \in CallIds : InsertCall(r, c)
    \/ SetActive(r) \/ AddParticipant(r) \/ RemoveParticipant(r)
    \/ SetEnded(r) \/ SetDeclined(r)
    \/ Publish(r)

Next ==
    \/ \E r \in Requests :
          \/ \E actor \in Users, isGroup \in BOOLEAN : Start(r, actor, isGroup)
          \/ \E route \in Routes, actor \in Users, call \in CallIds : Act(r, route, actor, call)
          \/ Step(r)
          \/ Abort(r)
    \/ \E u \in Users : ChangeMember(u)

Spec == Init /\ [][Next]_vars

-------------------------------------------------------------------------------
(* Properties.                                                             *)

\* Every variable has its type.
TypeOK ==
    /\ chat_members \subseteq Users
    /\ calls \in [CallIds -> Call]
    /\ call_participants \in [CallIds -> SUBSET Users]
    /\ req \in [Requests -> Request]
    /\ incomingCall \in CallIds \cup {Nothing}
    /\ overtaken \subseteq CallIds
    /\ stopped \subseteq CallIds

\* The requests of a call that are at one of the statements.
At(c, statements) == {r \in Requests : req[r].call = c /\ req[r].pc \in statements}

\* POST /calls/:callId/leave ends the call when the last participant leaves,
\* under every race of joins and leaves: nobody is left in a live call only while a handler is
\* about to add someone or to end it, or after such a handler stopped.  A call
\* that stays live without participants would answer every later start of the
\* chat with itself.
LiveCallHasParticipants ==
    \A c \in Live \ stopped :
        \/ call_participants[c] # {}
        \/ At(c, {"addParticipant", "countLeft", "setEnded"}) # {}

\* "Call is full": the joins that have passed the count can overfill a group
\* call, but never by as many as the requests that run at once.
Entering(c) == At(c, {"setActive", "addParticipant"})
CapacityOvershootBounded ==
    \A c \in CallIds : calls[c].isGroup
        => Cardinality(call_participants[c]) + Cardinality(Entering(c))
             < MaxParticipants + Cardinality(Requests)

\* The starts that have found no live call, and the calls that a join which read
\* them ringing is going to make active, whatever became of them since.
Creating == {r \in Requests : req[r].pc = "insertCall"}
Reviving == {c \in CallIds : \E r \in At(c, {"requireMember", "count", "setActive"}) :
                                 req[r].route = "join" /\ req[r].seen = "ringing"}

\* "Check for existing active call" (POST /calls/start): while a call of the chat
\* is live, no request that comes later adds another to the calls that are live
\* or are going to be.
NoFurtherCall ==
    [][Live # {} => Cardinality(Live \cup Reviving)' + Cardinality(Creating)'
                      <= Cardinality(Live \cup Reviving) + Cardinality(Creating)]_vars

\* The requests of a user that have passed the check of membership and will add
\* the user to a call.
Admitted(u) == {r \in Requests : /\ req[r].actor = u
                                 /\ req[r].pc \in {"readActive", "insertCall", "count",
                                                   "setActive", "addParticipant"}}

\* "Entitlement is membership of the call's chat" (loadAuthorizedCall, C-02): one
\* who is not a member enters no call, except by a request that was past the check before
\* the user was removed.
OutsidersStayOut ==
    [][\A u \in Users \ (chat_members \cup chat_members') :
          Cardinality({c \in CallIds : u \in call_participants[c]})' + Cardinality(Admitted(u))'
            <= Cardinality({c \in CallIds : u \in call_participants[c]})
                 + Cardinality(Admitted(u))]_vars

\* "ring chat members and sync call lifecycle" (realtime index.ts:343): a client
\* goes on ringing only for a live call, or until a handler that ended it has
\* published so; except when the end was published before the start, or a
\* handler stopped.
RingsForLiveCall ==
    \A c \in Started \ (overtaken \cup stopped) :
        incomingCall = c => \/ c \in Live
                            \/ \E r \in At(c, {"publish"}) : req[r].event = "ended"
===============================================================================
