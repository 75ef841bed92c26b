------------------------------- MODULE Presence -------------------------------
(***************************************************************************)
(* Presence of one user (realtime-service, presence.manager.ts): the       *)
(* routes online, offline and heartbeat, the checker that runs every half  *)
(* minute, and the expiry of the heartbeat key.  Redis answers each        *)
(* command, or pipeline, at once; everything else comes in between.        *)
(***************************************************************************)
EXTENDS Naturals

CONSTANTS
    Calls,          \* the routes' requests and the checker's rounds
    MaxFaults       \* bounds the calls that fail half-way

VARIABLES
    online,         \* the user is in presence:online
    heartbeat,      \* presence:heartbeat:<user> exists
    announced,      \* the latest event was USER_ONLINE
    call,           \* call -> what it does, its state, wasOnline, and whether it had company
    excused,        \* history: the latest event may not be what the set says
    faults

vars == <<online, heartbeat, announced, call, excused, faults>>

Unused == [does |-> "none", state |-> "unused", wasOnline |-> FALSE, alone |-> FALSE]
Ended  == [Unused EXCEPT !.state = "done"]

Init ==
    /\ online = FALSE /\ heartbeat = FALSE /\ announced = FALSE
    /\ call = [c \in Calls |-> Unused]
    /\ excused = FALSE /\ faults = 0

UnderWay(c) == call[c].state \notin {"unused", "done"}

Start(c, does, state, wasOnline) ==
    call' = [d \in Calls |->
        IF d = c THEN [does |-> does, state |-> state, wasOnline |-> wasOnline,
                       alone |-> \A other \in Calls \ {c} : ~UnderWay(other)]
        ELSE IF UnderWay(d) THEN [call[d] EXCEPT !.alone = FALSE] ELSE call[d]]

\* setOnline and setOffline from a route, up to the answer of SISMEMBER.
Look(c) ==
    /\ call[c].state = "unused"
    /\ \E does \in {"online", "offline"} : Start(c, does, "looked", online)
    /\ UNCHANGED <<online, heartbeat, announced, excused, faults>>

\* A round of the checker: SMEMBERS has the user, its heartbeat is read, and only
\* then setOffline looks.
List(c) ==
    /\ call[c].state = "unused" /\ online
    /\ Start(c, "offline", "listed", FALSE)
    /\ UNCHANGED <<online, heartbeat, announced, excused, faults>>

CheckHeartbeat(c) ==
    /\ call[c].state = "listed"
    /\ call' = [call EXCEPT ![c] = IF heartbeat THEN Ended ELSE [call[c] EXCEPT !.state = "missed"]]
    /\ UNCHANGED <<online, heartbeat, announced, excused, faults>>

LookAgain(c) ==
    /\ call[c].state = "missed"
    /\ call' = [call EXCEPT ![c].state = "looked", ![c].wasOnline = online]
    /\ UNCHANGED <<online, heartbeat, announced, excused, faults>>

\* Mutant of Write: setOnline publishes when the user was online.
WriteUnlessWasOnline(c) ==
    LET on == call[c].does = "online" IN
    /\ call[c].state = "looked"
    /\ online' = on /\ heartbeat' = on
    /\ call' = [call EXCEPT ![c] = IF call[c].wasOnline THEN [call[c] EXCEPT !.state = "written"]
                                   ELSE Ended]
    /\ excused' = (excused \/ ~call[c].alone)
    /\ UNCHANGED <<announced, faults>>

\* The pipeline.  What has not changed, as far as was read, is not published.
Write(c) ==
    LET on == call[c].does = "online" IN
    /\ call[c].state = "looked"
    /\ online' = on /\ heartbeat' = on
    /\ call' = [call EXCEPT ![c] = IF call[c].wasOnline # on THEN [call[c] EXCEPT !.state = "written"]
                                   ELSE Ended]
    /\ excused' = (excused \/ ~call[c].alone)
    /\ UNCHANGED <<announced, faults>>

Publish(c) ==
    /\ call[c].state = "written"
    /\ announced' = (call[c].does = "online")
    /\ call' = [call EXCEPT ![c] = Ended]
    /\ excused' = ~call[c].alone
    /\ UNCHANGED <<online, heartbeat, faults>>

\* heartbeat: the key, then "Ensure user is in online set", without an event.
SetHeartbeat(c) ==
    /\ call[c].state = "unused"
    /\ Start(c, "heartbeat", "set", FALSE)
    /\ heartbeat' = TRUE
    /\ UNCHANGED <<online, announced, excused, faults>>

EnsureOnline(c) ==
    /\ call[c].state = "set"
    /\ call' = [call EXCEPT ![c] = Ended]
    /\ online' = TRUE
    /\ excused' = (excused \/ ~online)
    /\ UNCHANGED <<heartbeat, announced, faults>>

\* Ninety seconds pass without a heartbeat.
Expire ==
    /\ heartbeat /\ heartbeat' = FALSE
    /\ UNCHANGED <<online, announced, call, excused, faults>>

\* A command or the publish fails.
Fail(c) ==
    /\ UnderWay(c)
    /\ faults < MaxFaults /\ faults' = faults + 1
    /\ call' = [call EXCEPT ![c] = Ended]
    /\ excused' = (excused \/ call[c].state = "written")
    /\ UNCHANGED <<online, heartbeat, announced>>

Next ==
    \/ \E c \in Calls :
          \/ Look(c) \/ List(c) \/ CheckHeartbeat(c) \/ LookAgain(c) \/ Write(c) \/ Publish(c)
          \/ SetHeartbeat(c) \/ EnsureOnline(c) \/ Fail(c)
    \/ Expire

Spec == Init /\ [][Next]_vars

-------------------------------------------------------------------------------
(* Properties.                                                             *)

\* Every variable has its type.
TypeOK ==
    /\ online \in BOOLEAN /\ heartbeat \in BOOLEAN /\ announced \in BOOLEAN
    /\ \A c \in Calls : call[c].state \in {"unused", "listed", "missed", "looked", "written",
                                           "set", "done"}
    /\ excused \in BOOLEAN /\ faults \in 0..MaxFaults

\* What the others were last told of a user agrees with presence:online, from
\* which a page that loads learns it, whenever no call is under way, unless the
\* latest change was made in company, was a heartbeat that put the user back
\* (nothing is published), or was not published because the call failed.
AnnouncedPresence ==
    ((\A c \in Calls : ~UnderWay(c)) /\ ~excused) => announced = online
===============================================================================
