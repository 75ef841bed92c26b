---------------------------- MODULE Services_proofs ----------------------------
(***************************************************************************)
(* Theorems about the specifications that MCServices puts side by side,    *)
(* and about the whole of it.  The small ones are proved about here; the   *)
(* ballots, the sessions and the secret chat have proofs of their own,     *)
(* which are carried over.                                                 *)
(***************************************************************************)
EXTENDS MCServices, Sequences, FiniteSetTheorems, TLAPS

-------------------------------------------------------------------------------
(* Presence: what others were last told of a user.                         *)

CallStates == {"unused", "listed", "missed", "looked", "written", "set", "done"}

CallType == [does : {"none", "online", "offline", "heartbeat"}, state : CallStates,
             wasOnline : BOOLEAN, alone : BOOLEAN]

PresenceTyped ==
    /\ online \in BOOLEAN /\ heartbeat \in BOOLEAN /\ announcedOnline \in BOOLEAN
    /\ excused \in BOOLEAN
    /\ call \in [Three -> CallType]

\* A call that is still alone is the only one under way.
AloneIsAlone ==
    \A c, d \in Three : (call[c].alone /\ Watch!UnderWay(c) /\ Watch!UnderWay(d)) => c = d

\* What a call read, or wrote, is how things are as long as it is alone.
AloneIsCurrent ==
    \A c \in Three : call[c].alone =>
        /\ call[c].state = "looked" => call[c].wasOnline = online
        /\ call[c].state = "written" => online = (call[c].does = "online")

\* The event that is missing is about to be published.
ToldOrTelling ==
    excused \/ announcedOnline = online \/ \E c \in Three : call[c].state = "written"

PInv == PresenceTyped /\ AloneIsAlone /\ AloneIsCurrent /\ ToldOrTelling

\* Everyone is offline and nothing is under way at first.
LEMMA PresenceInit == Watch!Init => PInv
<1> SUFFICES ASSUME Watch!Init PROVE PInv
  OBVIOUS
<1>1. Watch!Unused \in CallType
  BY DEF Watch!Unused, CallStates, CallType
<1>2. PresenceTyped
  BY <1>1 DEF Watch!Init, PresenceTyped
<1>3. \A c \in Three : call[c].state = "unused" /\ ~call[c].alone
  BY DEF Watch!Init, Watch!Unused
<1>. QED
  BY <1>2, <1>3 DEF Watch!Init, PInv, AloneIsAlone, AloneIsCurrent, ToldOrTelling

\* A call that starts ends the solitude of the others (Look, List, SetHeartbeat).
LEMMA CallStarts ==
    ASSUME PInv, NEW c \in Three, call[c].state = "unused",
           NEW does \in {"online", "offline", "heartbeat"},
           NEW state \in {"looked", "listed", "set"},
           NEW wasOnline \in BOOLEAN, state = "looked" => wasOnline = online,
           Watch!Start(c, does, state, wasOnline),
           UNCHANGED <<online, announcedOnline, excused>>, heartbeat' \in BOOLEAN
    PROVE  PInv'
<1> DEFINE alone == \A other \in Three \ {c} : ~Watch!UnderWay(other)
<1>1. PresenceTyped'
  <2>1. alone \in BOOLEAN
    OBVIOUS
  <2>2. \A d \in Three : call'[d] \in CallType
    BY <2>1 DEF PInv, PresenceTyped, Watch!Start, CallStates, CallType
  <2>. QED
    BY <2>2 DEF PInv, PresenceTyped, Watch!Start
<1> HIDE DEF alone
<1>2. /\ call'[c].alone = alone /\ call'[c].state = state /\ call'[c].wasOnline = wasOnline
      /\ \A d \in Three \ {c} : /\ call'[d].state = call[d].state
                                /\ Watch!UnderWay(d) => ~call'[d].alone
                                /\ ~Watch!UnderWay(d) => call'[d] = call[d]
  BY DEF PInv, PresenceTyped, Watch!Start, alone, CallType
<1>3. AloneIsAlone'
  BY <1>2 DEF AloneIsAlone, Watch!UnderWay, alone
<1>4. AloneIsCurrent'
  BY <1>2 DEF PInv, AloneIsCurrent, Watch!UnderWay
<1>6. ToldOrTelling'
  BY <1>2 DEF PInv, ToldOrTelling, Watch!UnderWay
<1>. QED
  BY <1>1, <1>3, <1>4, <1>6 DEF PInv

\* A call that goes on, or ends, without changing what others are told.
LEMMA CallGoesOn ==
    ASSUME PInv, NEW c \in Three, Watch!UnderWay(c),
           NEW q, q \in CallType,
           call' = [call EXCEPT ![c] = q],
           q.alone => call[c].alone,
           q.alone /\ q.state = "looked" => q.wasOnline = online',
           q.alone /\ q.state = "written" => online' = (q.does = "online"),
           online' \in BOOLEAN, heartbeat' \in BOOLEAN, announcedOnline' \in BOOLEAN,
           excused' \in BOOLEAN,
           online' = online \/ excused' \/ call[c].alone,
           excused' \/ announcedOnline' = online' \/ q.state = "written"
              \/ \E d \in Three \ {c} : call[d].state = "written"
    PROVE  PInv'
<1>1. PresenceTyped'
  BY DEF PInv, PresenceTyped
<1>2. call'[c] = q /\ \A d \in Three \ {c} : call'[d] = call[d]
  BY DEF PInv, PresenceTyped
<1>3. AloneIsAlone'
  BY <1>2 DEF PInv, AloneIsAlone, Watch!UnderWay
<1>4. \A d \in Three \ {c} : call[d].alone /\ Watch!UnderWay(d) => FALSE
  BY DEF PInv, AloneIsAlone
<1>5. AloneIsCurrent'
  BY <1>2, <1>4 DEF AloneIsCurrent, Watch!UnderWay
<1>6. ToldOrTelling'
  BY <1>2 DEF ToldOrTelling
<1>. QED
  BY <1>1, <1>3, <1>5, <1>6 DEF PInv
-------------------------------------------------------------------------------
(* One step per action.                                                    *)

LEMMA PresenceStep == PInv /\ [Watch!Next]_(Watch!vars) => PInv'
<1> SUFFICES ASSUME PInv, [Watch!Next]_(Watch!vars) PROVE PInv'
  OBVIOUS
<1>1. /\ online \in BOOLEAN /\ heartbeat \in BOOLEAN /\ announcedOnline \in BOOLEAN
      /\ excused \in BOOLEAN /\ call \in [Three -> CallType]
  BY DEF PInv, PresenceTyped
<1>2. Watch!Ended \in CallType /\ ~Watch!Ended.alone /\ Watch!Ended.state = "done"
  BY DEF Watch!Ended, Watch!Unused, CallType, CallStates
<1>3. excused \/ announcedOnline = online \/ \E d \in Three : call[d].state = "written"
  BY DEF PInv, ToldOrTelling
<1>4. \A c, d \in Three : (call[c].alone /\ Watch!UnderWay(c) /\ Watch!UnderWay(d)) => c = d
  BY DEF PInv, AloneIsAlone
<1>5. ASSUME NEW c \in Three, Watch!Look(c) PROVE PInv'
  BY <1>5, <1>1, CallStarts DEF Watch!Look
<1>6. ASSUME NEW c \in Three, Watch!List(c) PROVE PInv'
  BY <1>6, <1>1, CallStarts DEF Watch!List
<1>7. ASSUME NEW c \in Three, Watch!SetHeartbeat(c) PROVE PInv'
  BY <1>7, <1>1, CallStarts DEF Watch!SetHeartbeat
<1>8. ASSUME NEW c \in Three, Watch!CheckHeartbeat(c) PROVE PInv'
  <2> DEFINE q == IF heartbeat THEN Watch!Ended ELSE [call[c] EXCEPT !.state = "missed"]
  <2>1. q \in CallType /\ q.state \in {"missed", "done"} /\ (q.alone => call[c].alone)
    BY <1>1, <1>2 DEF CallType, CallStates
  <2>2. call' = [call EXCEPT ![c] = q] /\ UNCHANGED <<online, heartbeat, announcedOnline, excused>>
    BY <1>8 DEF Watch!CheckHeartbeat
  <2> HIDE DEF q
  <2>3. call[c].state = "listed"
    BY <1>8 DEF Watch!CheckHeartbeat
  <2>4. excused' \/ announcedOnline' = online' \/ \E d \in Three \ {c} : call[d].state = "written"
    BY <2>2, <2>3, <1>3
  <2>. QED
    BY <2>1, <2>2, <2>3, <2>4, <1>1, CallGoesOn DEF Watch!UnderWay, CallType
<1>9. ASSUME NEW c \in Three, Watch!LookAgain(c) PROVE PInv'
  <2> DEFINE q == [call[c] EXCEPT !.state = "looked", !.wasOnline = online]
  <2>1. q \in CallType /\ q.state = "looked" /\ (q.alone => call[c].alone) /\ q.wasOnline = online
    BY <1>1 DEF CallType, CallStates
  <2>2. call' = [call EXCEPT ![c] = q] /\ UNCHANGED <<online, heartbeat, announcedOnline, excused>>
    BY <1>9, <1>1 DEF Watch!LookAgain, CallType
  <2> HIDE DEF q
  <2>3. call[c].state = "missed"
    BY <1>9 DEF Watch!LookAgain
  <2>4. excused' \/ announcedOnline' = online' \/ \E d \in Three \ {c} : call[d].state = "written"
    BY <2>2, <2>3, <1>3
  <2>. QED
    BY <2>1, <2>2, <2>3, <2>4, <1>1, CallGoesOn DEF Watch!UnderWay, CallType
<1>10. ASSUME NEW c \in Three, Watch!Write(c) PROVE PInv'
  <2> DEFINE on == call[c].does = "online"
             q  == IF call[c].wasOnline # on THEN [call[c] EXCEPT !.state = "written"]
                   ELSE Watch!Ended
  <2>1. /\ online' = on /\ heartbeat' = on /\ call' = [call EXCEPT ![c] = q]
        /\ announcedOnline' = announcedOnline /\ excused' = (excused \/ ~call[c].alone)
        /\ call[c].state = "looked"
    BY <1>10 DEF Watch!Write
  <2>2. q \in CallType /\ (q.alone => call[c].alone) /\ q.state \in {"written", "done"}
        /\ (q.state = "written" => q.does = call[c].does)
        /\ (q.state = "done" => call[c].wasOnline = on)
    BY <1>1, <1>2 DEF CallType, CallStates
  <2>3. call[c].alone => call[c].wasOnline = online
    BY <2>1 DEF PInv, AloneIsCurrent
  <2>4. on \in BOOLEAN /\ excused' \in BOOLEAN
    BY <2>1, <1>1
  <2>5. (q.alone /\ q.state = "written") => online' = (q.does = "online")
    BY <2>1, <2>2
  <2> HIDE DEF q, on
  <2>6. excused' \/ announcedOnline' = online' \/ q.state = "written"
    <3> SUFFICES ASSUME ~excused', q.state = "done" PROVE announcedOnline' = online'
      BY <2>2
    <3>1. ~excused /\ call[c].alone
      BY <2>1
    <3>2. on = online
      BY <3>1, <2>2, <2>3
    <3>3. ~\E d \in Three : call[d].state = "written"
      BY <3>1, <2>1, <1>4 DEF Watch!UnderWay
    <3>. QED
      BY <3>1, <3>2, <3>3, <2>1, <1>3
  <2>. QED
    BY <2>1, <2>2, <2>4, <2>5, <2>6, <1>1, CallGoesOn DEF Watch!UnderWay, CallType
<1>11. ASSUME NEW c \in Three, Watch!Publish(c) PROVE PInv'
  <2>1. /\ announcedOnline' = (call[c].does = "online") /\ call' = [call EXCEPT ![c] = Watch!Ended]
        /\ excused' = ~call[c].alone /\ UNCHANGED <<online, heartbeat>>
        /\ call[c].state = "written"
    BY <1>11 DEF Watch!Publish
  <2>2. call[c].alone => online = (call[c].does = "online")
    BY <2>1 DEF PInv, AloneIsCurrent
  <2>3. excused' \/ announcedOnline' = online'
    BY <2>1, <2>2, <1>1
  <2>. QED
    BY <2>1, <2>3, <1>1, <1>2, CallGoesOn DEF Watch!UnderWay, CallType
<1>12. ASSUME NEW c \in Three, Watch!EnsureOnline(c) PROVE PInv'
  <2>1. /\ online' = TRUE /\ call' = [call EXCEPT ![c] = Watch!Ended]
        /\ excused' = (excused \/ ~online) /\ UNCHANGED <<heartbeat, announcedOnline>>
        /\ call[c].state = "set"
    BY <1>12 DEF Watch!EnsureOnline
  <2>2. excused' \/ online' = online
    BY <2>1, <1>1
  <2>3. excused' \/ announcedOnline' = online' \/ \E d \in Three \ {c} : call[d].state = "written"
    BY <2>1, <2>2, <1>3
  <2>. QED
    BY <2>1, <2>2, <2>3, <1>1, <1>2, CallGoesOn DEF Watch!UnderWay, CallType
<1>13. ASSUME NEW c \in Three, Watch!Fail(c) PROVE PInv'
  <2>1. /\ call' = [call EXCEPT ![c] = Watch!Ended] /\ Watch!UnderWay(c)
        /\ excused' = (excused \/ call[c].state = "written")
        /\ UNCHANGED <<online, heartbeat, announcedOnline>>
    BY <1>13 DEF Watch!Fail
  <2>2. excused' \/ announcedOnline' = online' \/ \E d \in Three \ {c} : call[d].state = "written"
    BY <2>1, <1>3
  <2>. QED
    BY <2>1, <2>2, <1>1, <1>2, CallGoesOn DEF CallType
<1>14. CASE Watch!Expire
  BY <1>14, <1>1 DEF Watch!Expire, PInv, PresenceTyped, AloneIsAlone, AloneIsCurrent,
         ToldOrTelling, Watch!UnderWay
<1>15. CASE UNCHANGED Watch!vars
  BY <1>15 DEF Watch!vars, PInv, PresenceTyped, AloneIsAlone, AloneIsCurrent, ToldOrTelling,
         Watch!UnderWay
<1>. QED
  BY <1>5, <1>6, <1>7, <1>8, <1>9, <1>10, <1>11, <1>12, <1>13, <1>14, <1>15 DEF Watch!Next

\* What the others were last told agrees with presence:online when nothing is under
\* way and no excuse is recorded (presence.manager.ts), for any number of calls.
THEOREM PresenceAnnounced == Watch!Spec => []Watch!AnnouncedPresence
<1>1. PInv => Watch!AnnouncedPresence
  BY DEF PInv, ToldOrTelling, Watch!AnnouncedPresence, Watch!UnderWay
<1>. QED
  BY <1>1, PresenceInit, PresenceStep, PTL DEF Watch!Spec

-------------------------------------------------------------------------------
(* Key transparency: a request for a proof gets a tree with its entry.     *)

Publisher == [state : {"idle", "appended", "done"}, row : Nat]
Build     == [state : {"unused", "asked", "read", "done"}, leaves : Nat]
Reader    == [state : {"idle", "entry", "waiting", "done", "failed"}, entry : Nat,
              joined : Transparency!Builds \cup {0}, leaves : Nat, excused : BOOLEAN]

LogTyped ==
    /\ log \in Nat /\ log >= 1 /\ treeCache \in Nat /\ treeBuild \in Transparency!Builds \cup {0}
    /\ publisher \in [Two -> Publisher]
    /\ build \in [Transparency!Builds -> Build]
    /\ reader \in [Readers -> Reader]

\* Whoever holds an entry holds a row of the log.
EntriesAreRows ==
    \A r \in Readers : reader[r].state \in {"entry", "waiting"} => reader[r].entry <= log

\* The rows that are not in a tree of so many leaves are being published, or straddled.
Accounted(leaves, rows) ==
    \A i \in Nat : leaves < i /\ i <= log => Transparency!Publishing(i) \/ i \in rows

\* A rebuild that has read the leaves lacks no other rows, and the one that requests
\* join lacks only rows that are being published.
BuildsKnow ==
    \A b \in Transparency!Builds :
        build[b].state = "read" => /\ Accounted(build[b].leaves, straddled)
                                   /\ b = treeBuild => Accounted(build[b].leaves, {})

\* So does the cached tree.
CacheKnows == treeCache # Transparency!NoTree => Accounted(treeCache, straddled)

\* Who waits for a rebuild that has read the leaves is excused, or its row is there.
WaitersServed ==
    \A r \in Readers, b \in Transparency!Builds :
        (reader[r].state = "waiting" /\ reader[r].joined = b /\ build[b].state = "read")
          => (reader[r].entry <= build[b].leaves \/ reader[r].excused)

KInv ==
    /\ LogTyped /\ EntriesAreRows /\ BuildsKnow /\ CacheKnows /\ WaitersServed
    /\ Transparency!TreeHasEntry

LEMMA BuildsAreNumbered == 0 \notin Transparency!Builds
BY ServicesAssumption DEF ServicesAssumption, Transparency!Builds

\* The log has its first row and nobody has asked.
LEMMA KeyLogInit == Transparency!Init => KInv
<1> SUFFICES ASSUME Transparency!Init PROVE KInv
  OBVIOUS
<1>1. LogTyped
  <2>1. log \in Nat /\ log >= 1 /\ treeCache \in Nat /\ treeBuild \in Transparency!Builds \cup {0}
    BY DEF Transparency!Init, Transparency!NoTree
  <2>2. publisher \in [Two -> Publisher] /\ build \in [Transparency!Builds -> Build]
    BY DEF Transparency!Init, Publisher, Build
  <2>3. reader \in [Readers -> Reader]
    BY DEF Transparency!Init, Reader
  <2>. QED
    BY <2>1, <2>2, <2>3 DEF LogTyped
<1>2. CacheKnows
  BY DEF Transparency!Init, CacheKnows
<1>3. \A b \in Transparency!Builds : build[b].state = "unused"
  BY DEF Transparency!Init
<1>4. \A r \in Readers : reader[r].state = "idle"
  BY DEF Transparency!Init
<1>5. EntriesAreRows /\ BuildsKnow /\ WaitersServed /\ Transparency!TreeHasEntry
  BY <1>3, <1>4 DEF EntriesAreRows, BuildsKnow, WaitersServed, Transparency!TreeHasEntry
<1>. QED
  BY <1>1, <1>2, <1>5 DEF KInv

\* POST /publish: a new last row, which is being published, ...
LEMMA AppendKeeps == ASSUME KInv, NEW r \in Two, Transparency!Append(r) PROVE KInv'
<1>1. LogTyped'
  BY DEF KInv, LogTyped, Transparency!Append, Publisher
<1>2. /\ log \in Nat /\ log' = log + 1
      /\ publisher'[r].state = "appended" /\ publisher'[r].row = log + 1
      /\ publisher[r].state = "idle"
      /\ \A p \in Two \ {r} : publisher'[p] = publisher[p]
      /\ UNCHANGED <<treeCache, treeBuild, build, reader, straddled>>
  BY DEF KInv, LogTyped, Transparency!Append
<1>3. EntriesAreRows'
  BY <1>2 DEF KInv, LogTyped, EntriesAreRows, Reader
<1>4. ASSUME NEW leaves, NEW rows, Accounted(leaves, rows)
      PROVE  Accounted(leaves, rows)'
  <2> SUFFICES ASSUME NEW i \in Nat, leaves < i, i <= log + 1
               PROVE  Transparency!Publishing(i)' \/ i \in rows
    BY <1>2 DEF Accounted
  <2>1. CASE i = log + 1
    BY <2>1, <1>2 DEF Transparency!Publishing
  <2>2. CASE i <= log
    BY <2>2, <1>2, <1>4 DEF Accounted, Transparency!Publishing
  <2>. QED
    BY <1>2, <2>1, <2>2
<1>5. BuildsKnow' /\ CacheKnows'
  <2>1. CacheKnows'
    BY <1>2, <1>4 DEF KInv, CacheKnows, Accounted
  <2>2. BuildsKnow'
    BY <1>2, <1>4 DEF KInv, BuildsKnow, Accounted
  <2>. QED
    BY <2>1, <2>2
<1>6. WaitersServed' /\ Transparency!TreeHasEntry'
  BY <1>2 DEF KInv, WaitersServed, Transparency!TreeHasEntry
<1>. QED
  BY <1>1, <1>3, <1>5, <1>6 DEF KInv

\* ... and then no more, but straddled where a rebuild under way lacks it.
LEMMA InvalidateKeeps == ASSUME KInv, NEW r \in Two, Transparency!Invalidate(r) PROVE KInv'
<1> DEFINE row == publisher[r].row
<1>1. LogTyped'
  BY DEF KInv, LogTyped, Transparency!Invalidate, Publisher, Transparency!NoTree
<1>2. /\ \A p \in Two : publisher'[p].row = publisher[p].row
      /\ \A p \in Two \ {r} : publisher'[p] = publisher[p]
  BY DEF KInv, LogTyped, Transparency!Invalidate, Publisher
<1>3. /\ treeCache' = Transparency!NoTree /\ treeBuild' = 0
      /\ straddled' = {i \in straddled \cup {row} : Transparency!Lacking(i)}
      /\ UNCHANGED <<log, build, reader>>
  BY DEF Transparency!Invalidate
<1> HIDE DEF row
<1>4. CacheKnows'
  BY <1>3 DEF CacheKnows, Transparency!NoTree
<1>5. BuildsKnow'
  <2> SUFFICES ASSUME NEW b \in Transparency!Builds, build[b].state = "read"
               PROVE  Accounted(build[b].leaves, straddled)'
    BY <1>3, BuildsAreNumbered DEF BuildsKnow, Accounted
  <2> SUFFICES ASSUME NEW i \in Nat, build[b].leaves < i, i <= log,
                      ~Transparency!Publishing(i)'
               PROVE  i \in straddled'
    BY <1>3 DEF Accounted
  <2>1. Transparency!Lacking(i)
    BY DEF Transparency!Lacking
  <2>2. Transparency!Publishing(i) \/ i \in straddled
    BY DEF KInv, BuildsKnow, Accounted
  <2>3. Transparency!Publishing(i) => i = row
    BY <1>2 DEF Transparency!Publishing, row
  <2>. QED
    BY <1>3, <2>1, <2>2, <2>3
<1>6. EntriesAreRows' /\ WaitersServed' /\ Transparency!TreeHasEntry'
  BY <1>3 DEF KInv, EntriesAreRows, WaitersServed, Transparency!TreeHasEntry
<1>. QED
  BY <1>1, <1>4, <1>5, <1>6 DEF KInv

\* GET /proof, up to the tree.
LEMMA GetEntryKeeps == ASSUME KInv, NEW r \in Readers, Transparency!GetEntry(r) PROVE KInv'
<1>1. LogTyped'
  BY ZenonT(60) DEF KInv, LogTyped, Transparency!GetEntry, Reader
<1>2. /\ reader'[r].state = "entry" /\ reader'[r].entry = log
      /\ \A q \in Readers \ {r} : reader'[q] = reader[q]
      /\ UNCHANGED <<log, publisher, treeCache, treeBuild, build, straddled>>
  BY DEF KInv, LogTyped, Transparency!GetEntry, Reader
<1>3. EntriesAreRows' /\ Transparency!TreeHasEntry'
  BY <1>2 DEF KInv, LogTyped, EntriesAreRows, Transparency!TreeHasEntry
<1>4. WaitersServed'
  BY <1>2 DEF KInv, WaitersServed
<1>5. BuildsKnow' /\ CacheKnows'
  BY <1>2 DEF KInv, BuildsKnow, CacheKnows, Accounted, Transparency!Publishing
<1>. QED
  BY <1>1, <1>3, <1>4, <1>5 DEF KInv

LEMMA GetTreeKeeps == ASSUME KInv, NEW r \in Readers, Transparency!GetTree(r) PROVE KInv'
<1> DEFINE publishing == Transparency!Publishing(reader[r].entry)
<1>1. reader[r].state = "entry" /\ UNCHANGED <<log, publisher, treeCache, straddled>>
  BY DEF Transparency!GetTree
<1>2. reader[r].entry \in Nat /\ reader[r].entry <= log /\ publishing \in BOOLEAN
  BY <1>1 DEF KInv, LogTyped, Reader, EntriesAreRows, Transparency!Publishing
<1>3. /\ CacheKnows'
      /\ \A leaves, rows : Accounted(leaves, rows)' <=> Accounted(leaves, rows)
  BY <1>1 DEF KInv, CacheKnows, Accounted, Transparency!Publishing
<1>4. CASE /\ treeCache # Transparency!NoTree
           /\ reader' = [reader EXCEPT ![r].state = "done", ![r].leaves = treeCache,
                    ![r].excused = publishing \/ reader[r].entry \in straddled]
           /\ UNCHANGED <<treeBuild, build>>
  <2> DEFINE mayMiss == publishing \/ reader[r].entry \in straddled
  <2>1. mayMiss \in BOOLEAN
    BY <1>2
  <2>2. reader' = [reader EXCEPT ![r] = [reader[r] EXCEPT !.state = "done", !.leaves = treeCache,
                                                          !.excused = mayMiss]]
    BY <1>4 DEF KInv, LogTyped, Reader
  <2>3. reader[r].entry <= treeCache \/ mayMiss
    BY <1>2, <1>4 DEF KInv, LogTyped, CacheKnows, Accounted
  <2> HIDE DEF mayMiss, publishing
  <2>4. LogTyped'
    BY <2>1, <2>2, <1>1, <1>4 DEF KInv, LogTyped, Reader
  <2>5. /\ reader'[r].state = "done" /\ reader'[r].leaves = treeCache
        /\ reader'[r].excused = mayMiss /\ reader'[r].entry = reader[r].entry
        /\ \A q \in Readers \ {r} : reader'[q] = reader[q]
    BY <2>2 DEF KInv, LogTyped, Reader
  <2>6. EntriesAreRows' /\ Transparency!TreeHasEntry'
    BY <2>3, <2>5, <1>1 DEF KInv, EntriesAreRows, Transparency!TreeHasEntry
  <2>7. WaitersServed'
    <3>1. \A q \in Readers : reader'[q].state = "waiting" => reader'[q] = reader[q]
      BY <2>5
    <3>2. build' = build /\ WaitersServed
      BY <1>4 DEF KInv
    <3> HIDE DEF Transparency!GetTree
    <3>. QED
      BY SMTT(30), <3>1, <3>2 DEF WaitersServed
  <2>8. BuildsKnow'
    BY <1>1, <1>3, <1>4 DEF KInv, BuildsKnow
  <2>. QED
    BY <2>4, <2>6, <2>7, <2>8, <1>3 DEF KInv
<1>5. ASSUME NEW b \in Transparency!Builds, Transparency!Join(r, b),
             \/ b = treeBuild /\ UNCHANGED <<build, treeBuild>>
             \/ build' = [build EXCEPT ![b].state = "asked"] /\ treeBuild' = b
      PROVE  KInv'
  <2>1. reader' = [reader EXCEPT ![r] = [reader[r] EXCEPT !.state = "waiting", !.joined = b,
                                                          !.excused = publishing]]
    BY <1>5 DEF Transparency!Join, KInv, LogTyped, Reader
  <2> HIDE DEF publishing
  <2>2. LogTyped'
    <3>1. reader' \in [Readers -> Reader]
      <4>1. [reader[r] EXCEPT !.state = "waiting", !.joined = b, !.excused = publishing]
              \in Reader
        BY <1>2 DEF KInv, LogTyped, Reader
      <4>2. reader \in [Readers -> Reader]
        BY DEF KInv, LogTyped
      <4>. QED
        BY <2>1, <4>1, <4>2
    <3>2. build' \in [Transparency!Builds -> Build]
      BY <1>5 DEF KInv, LogTyped, Build
    <3>. QED
      BY <3>1, <3>2, <1>1, <1>5 DEF KInv, LogTyped
  <2>3. /\ reader'[r].state = "waiting" /\ reader'[r].entry = reader[r].entry
        /\ reader'[r].joined = b /\ reader'[r].excused = publishing
        /\ \A q \in Readers \ {r} : reader'[q] = reader[q]
    BY <2>1 DEF KInv, LogTyped, Reader
  <2>4. EntriesAreRows' /\ Transparency!TreeHasEntry'
    BY <2>3, <1>1, <1>2 DEF KInv, EntriesAreRows, Transparency!TreeHasEntry
  <2>5. \A c \in Transparency!Builds :
          build'[c].state = "read" => build'[c] = build[c] /\ (c = treeBuild' => c = treeBuild)
    BY <1>5 DEF KInv, LogTyped, Build
  <2>6. BuildsKnow'
    BY <1>1, <1>3, <2>5 DEF KInv, BuildsKnow
  <2>7. build'[b].state = "read" => build'[b] = build[b] /\ b = treeBuild
    BY <1>5 DEF KInv, LogTyped, Build
  <2>8. build'[b].state = "read" => (reader[r].entry <= build[b].leaves \/ publishing)
    <3>1. build[b].leaves \in Nat
      BY DEF KInv, LogTyped, Build
    <3>2. build'[b].state = "read" => Accounted(build[b].leaves, {})
      BY <2>7 DEF KInv, BuildsKnow
    <3>. QED
      BY <3>1, <3>2, <1>2 DEF Accounted, publishing
  <2>9. WaitersServed'
    BY <2>3, <2>5, <2>7, <2>8 DEF KInv, WaitersServed
  <2>. QED
    BY <2>2, <2>4, <2>6, <2>9, <1>3 DEF KInv
<1>6. CASE /\ treeCache = Transparency!NoTree /\ treeBuild # 0
           /\ Transparency!Join(r, treeBuild)
           /\ UNCHANGED <<treeBuild, build>>
  BY <1>6, <1>5 DEF KInv, LogTyped
<1>7. CASE /\ treeCache = Transparency!NoTree /\ treeBuild = 0
           /\ \E b \in Transparency!Builds :
                /\ build[b].state = "unused"
                /\ \A other \in Transparency!Builds : other < b => build[other].state # "unused"
                /\ build' = [build EXCEPT ![b].state = "asked"]
                /\ treeBuild' = b
                /\ Transparency!Join(r, b)
  BY <1>7, <1>5
<1>. QED
  BY <1>4, <1>6, <1>7 DEF Transparency!GetTree

\* The rebuild reads the log: every row there is.
LEMMA ReadLeavesKeeps ==
    ASSUME KInv, NEW b \in Transparency!Builds, Transparency!ReadLeaves(b) PROVE KInv'
<1>1. LogTyped'
  BY DEF KInv, LogTyped, Transparency!ReadLeaves, Build
<1>2. /\ build'[b].leaves = log /\ \A c \in Transparency!Builds \ {b} : build'[c] = build[c]
      /\ UNCHANGED <<log, publisher, treeCache, treeBuild, reader, straddled>> /\ log \in Nat
  BY DEF KInv, LogTyped, Transparency!ReadLeaves, Build
<1>3. \A leaves, rows : Accounted(leaves, rows)' <=> Accounted(leaves, rows)
  BY <1>2 DEF Accounted, Transparency!Publishing
<1>4. \A rows : Accounted(log, rows)
  BY <1>2 DEF Accounted
<1>5. BuildsKnow' /\ CacheKnows'
  BY <1>2, <1>3, <1>4 DEF KInv, BuildsKnow, CacheKnows
<1>6. WaitersServed'
  BY <1>2 DEF KInv, WaitersServed, EntriesAreRows
<1>7. EntriesAreRows' /\ Transparency!TreeHasEntry'
  BY <1>2 DEF KInv, EntriesAreRows, Transparency!TreeHasEntry
<1>. QED
  BY <1>1, <1>5, <1>6, <1>7 DEF KInv

\* It ends: its tree is stored, and those who joined have it.
LEMMA EndBuildKeeps ==
    ASSUME KInv, NEW b \in Transparency!Builds, Transparency!EndBuild(b) PROVE KInv'
<1> DEFINE leaves == build[b].leaves
<1>1. leaves \in Nat /\ build[b].state = "read"
  BY DEF KInv, LogTyped, Build, Transparency!EndBuild
<1>2. /\ treeCache' = leaves /\ treeBuild' = 0
      /\ build' = [build EXCEPT ![b].state = "done"]
      /\ UNCHANGED <<log, publisher, straddled>>
      /\ reader' = [r \in Readers |->
            IF reader[r].state = "waiting" /\ reader[r].joined = b
            THEN [reader[r] EXCEPT !.state = "done", !.leaves = leaves]
            ELSE reader[r]]
  BY DEF Transparency!EndBuild
<1> HIDE DEF leaves
<1>3. LogTyped'
  BY ZenonT(60), <1>1, <1>2 DEF KInv, LogTyped, Reader, Build
<1>4. \A r \in Readers :
        \/ reader'[r] = reader[r]
        \/ /\ reader[r].state = "waiting" /\ reader[r].joined = b /\ reader'[r].state = "done"
           /\ reader'[r].entry = reader[r].entry /\ reader'[r].leaves = leaves
           /\ reader'[r].excused = reader[r].excused
  BY <1>2 DEF KInv, LogTyped, Reader
<1>5. EntriesAreRows'
  BY <1>2, <1>4 DEF KInv, EntriesAreRows
<1>6. Transparency!TreeHasEntry'
  BY <1>1, <1>4 DEF KInv, Transparency!TreeHasEntry, WaitersServed, leaves
<1>7. \A i, rows : Accounted(i, rows)' <=> Accounted(i, rows)
  BY <1>2 DEF Accounted, Transparency!Publishing
<1>8. CacheKnows'
  BY <1>1, <1>2, <1>7 DEF KInv, BuildsKnow, CacheKnows, leaves
<1>9. \A c \in Transparency!Builds :
        build'[c].state = "read" => build'[c] = build[c] /\ c # treeBuild'
  BY <1>2, BuildsAreNumbered DEF KInv, LogTyped, Build
<1>10. BuildsKnow' /\ WaitersServed'
  <2>1. \A r \in Readers : reader'[r].state = "waiting" => reader'[r] = reader[r]
    BY <1>4
  <2>2. WaitersServed'
    BY <1>9, <2>1 DEF KInv, WaitersServed
  <2>3. BuildsKnow'
    BY <1>2, <1>7, <1>9 DEF KInv, BuildsKnow
  <2>. QED
    BY <2>2, <2>3
<1>. QED
  BY <1>3, <1>5, <1>6, <1>8, <1>10 DEF KInv

\* It fails, and so do they.
LEMMA FailBuildKeeps ==
    ASSUME KInv, NEW b \in Transparency!Builds, Transparency!FailBuild(b) PROVE KInv'
<1>1. /\ treeBuild' = 0
      /\ build' = [build EXCEPT ![b].state = "done"]
      /\ UNCHANGED <<log, publisher, treeCache, straddled>>
      /\ reader' = [r \in Readers |->
            IF reader[r].state = "waiting" /\ reader[r].joined = b
            THEN [reader[r] EXCEPT !.state = "failed"]
            ELSE reader[r]]
  BY DEF Transparency!FailBuild
<1>2. LogTyped'
  BY ZenonT(60), <1>1 DEF KInv, LogTyped, Reader, Build
<1>3. \A r \in Readers : reader'[r] = reader[r] \/ reader'[r].state = "failed"
  BY <1>1 DEF KInv, LogTyped, Reader
<1>4. EntriesAreRows' /\ Transparency!TreeHasEntry'
  BY <1>1, <1>3 DEF KInv, EntriesAreRows, Transparency!TreeHasEntry
<1>5. \A i, rows : Accounted(i, rows)' <=> Accounted(i, rows)
  BY <1>1 DEF Accounted, Transparency!Publishing
<1>6. \A c \in Transparency!Builds :
        build'[c].state = "read" => build'[c] = build[c] /\ c # treeBuild'
  BY <1>1, BuildsAreNumbered DEF KInv, LogTyped, Build
<1>7. CacheKnows' /\ BuildsKnow' /\ WaitersServed'
  BY <1>1, <1>3, <1>5, <1>6 DEF KInv, CacheKnows, BuildsKnow, WaitersServed
<1>. QED
  BY <1>2, <1>4, <1>7 DEF KInv

LEMMA KeyLogStep == KInv /\ [Transparency!Next]_(Transparency!vars) => KInv'
<1>1. KInv /\ UNCHANGED Transparency!vars => KInv'
  BY DEF Transparency!vars, KInv, LogTyped, EntriesAreRows, BuildsKnow, CacheKnows,
         WaitersServed, Accounted, Transparency!Publishing, Transparency!TreeHasEntry
<1>. QED
  BY <1>1, AppendKeeps, InvalidateKeeps, GetEntryKeeps, GetTreeKeeps, ReadLeavesKeeps,
         EndBuildKeeps, FailBuildKeeps
  DEF Transparency!Next

\* A request for a proof that gets a tree gets one with a leaf for the entry it has
\* read, if the publish of that entry was past invalidateTree when the request took the
\* tree or joined the rebuild, and, for a cached tree, no rebuild that had read the
\* leaves before the INSERT was under way at the invalidation (kt.routes.ts getTree).
THEOREM ProofsOfPresentEntries == Transparency!Spec => []Transparency!TreeHasEntry
<1>1. KInv => Transparency!TreeHasEntry
  BY DEF KInv
<1>. QED
  BY <1>1, KeyLogInit, KeyLogStep, PTL DEF Transparency!Spec

-------------------------------------------------------------------------------
(* The second factor: what /2fa/verify told the user is so.                *)

Moves == {"none", "save", "show", "mark", "flag", "disable", "login", "delete",
          "unflag", "redeem"}

FactorRequest == [next : Moves, secret : Nat, step : Steps \cup {0}, overlapped : BOOLEAN]

FactorTyped ==
    /\ totp \in [secret : Nat, is_verified : BOOLEAN]
    /\ generatedSecrets \in Nat /\ held \in Nat /\ confirmed \in Nat
    /\ totp_used \subseteq Steps /\ accepted \in [Steps -> Nat]
    /\ factorRequest \in [Two -> FactorRequest]
    /\ \A r \in Two : factorRequest[r].next \in {"disable", "login"}
                        => factorRequest[r].step \in Steps

\* A confirmation that no change ran into: none is under way, and the row is the one
\* that was read.
Undisturbed ==
    \A r \in Two : (Factor!Confirming(r) /\ ~factorRequest[r].overlapped) =>
        /\ \A p \in Two : ~Factor!Changing(p)
        /\ totp.secret = factorRequest[r].secret /\ totp.secret # 0
        /\ factorRequest[r].next = "flag" => totp.is_verified

\* What is confirmed is on, and nobody is about to replace it or to hide it.
Confirmed ==
    confirmed # 0 =>
        /\ totp.secret = confirmed /\ totp.is_verified /\ two_factor_enabled
        /\ \A p \in Two : factorRequest[p].next \notin {"save", "unflag"}

CodesOnce == \A s \in Steps : accepted[s] <= 1 /\ (accepted[s] = 1 => s \in totp_used)

FInv == FactorTyped /\ Undisturbed /\ Confirmed /\ CodesOnce

\* There is no secret at first.
LEMMA FactorInit == Factor!Init => FInv
<1> SUFFICES ASSUME Factor!Init PROVE FInv
  OBVIOUS
<1>1. Factor!Idle \in FactorRequest /\ Factor!Idle.next = "none"
  BY DEF Factor!Idle, FactorRequest, Moves, Factor!NoSecret, Factor!NoStep
<1>2. factorRequest \in [Two -> FactorRequest] /\ \A r \in Two : factorRequest[r].next = "none"
  BY <1>1 DEF Factor!Init
<1>3. /\ totp = [secret |-> 0, is_verified |-> FALSE] /\ generatedSecrets = 0 /\ held = 0
      /\ confirmed = 0 /\ totp_used = {} /\ accepted = [s \in Steps |-> 0]
  BY DEF Factor!Init, Factor!NoSecret
<1>4. FactorTyped
  BY <1>2, <1>3 DEF FactorTyped
<1>. QED
  BY <1>2, <1>3, <1>4 DEF FInv, Undisturbed, Confirmed, CodesOnce, Factor!Confirming, Factor!Does

\* What Begin does to the requests.
LEMMA FactorBegins ==
    ASSUME FactorTyped, NEW r \in Two, NEW next \in Moves, NEW secret \in Nat,
           NEW step \in Steps \cup {0}, Factor!Begin(r, next, secret, step)
    PROVE  /\ factorRequest' \in [Two -> FactorRequest]
           /\ factorRequest[r].next = "none" /\ factorRequest'[r].next = next
           /\ factorRequest'[r].secret = secret /\ factorRequest'[r].step = step
           /\ ~factorRequest'[r].overlapped /\ next = "mark" => \A p \in Two : ~Factor!Changing(p)
           /\ \A q \in Two \ {r} :
                /\ factorRequest'[q].next = factorRequest[q].next
                /\ factorRequest'[q].secret = factorRequest[q].secret
                /\ factorRequest'[q].step = factorRequest[q].step
                /\ ~factorRequest'[q].overlapped => ~factorRequest[q].overlapped
                /\ (~factorRequest'[q].overlapped /\ Factor!Confirming(q))
                     => next \notin {"save", "disable"}
<1> DEFINE late == next = "mark" /\ \E p \in Two : Factor!Changing(p)
           new  == [next |-> next, secret |-> secret, step |-> step, overlapped |-> late]
           crossed(q) == factorRequest[q].overlapped
                           \/ (Factor!Confirming(q) /\ next \in {"save", "disable"})
<1>1. /\ factorRequest[r].next = "none"
      /\ factorRequest' = [q \in Two |-> IF q = r THEN new
                             ELSE [factorRequest[q] EXCEPT !.overlapped = crossed(q)]]
  BY DEF Factor!Begin, Factor!Does, FactorTyped, FactorRequest
<1>2. late \in BOOLEAN /\ \A q \in Two : crossed(q) \in BOOLEAN
  BY DEF FactorTyped, FactorRequest
<1>3. /\ new \in FactorRequest /\ new.next = next /\ new.secret = secret /\ new.step = step
      /\ new.overlapped = late
  BY <1>2 DEF FactorRequest
<1>4. \A q \in Two, o \in BOOLEAN :
             /\ [factorRequest[q] EXCEPT !.overlapped = o] \in FactorRequest
             /\ [factorRequest[q] EXCEPT !.overlapped = o].next = factorRequest[q].next
             /\ [factorRequest[q] EXCEPT !.overlapped = o].secret = factorRequest[q].secret
             /\ [factorRequest[q] EXCEPT !.overlapped = o].step = factorRequest[q].step
             /\ [factorRequest[q] EXCEPT !.overlapped = o].overlapped = o
  BY DEF FactorTyped, FactorRequest
<1>5. factorRequest'[r] = new
  BY <1>1
<1>6. \A q \in Two \ {r} :
        factorRequest'[q] = [factorRequest[q] EXCEPT !.overlapped = crossed(q)]
  BY <1>1
<1>7. (~late /\ next = "mark") => \A p \in Two : ~Factor!Changing(p)
  OBVIOUS
<1>8. \A q \in Two : ~crossed(q) => /\ ~factorRequest[q].overlapped
                                    /\ Factor!Confirming(q) => next \notin {"save", "disable"}
  OBVIOUS
<1> HIDE DEF new, crossed, late
<1>9. \A q \in Two \ {r} :
        /\ factorRequest'[q] \in FactorRequest
        /\ factorRequest'[q].next = factorRequest[q].next
        /\ factorRequest'[q].secret = factorRequest[q].secret
        /\ factorRequest'[q].step = factorRequest[q].step
        /\ factorRequest'[q].overlapped = crossed(q)
  <2> TAKE q \in Two \ {r}
  <2>1. PICK o \in BOOLEAN : o = crossed(q)
    BY <1>2
  <2>2. factorRequest'[q] = [factorRequest[q] EXCEPT !.overlapped = o]
    BY <2>1, <1>6, Zenon
  <2>. QED
    BY <2>1, <2>2, <1>4
<1>10. factorRequest' \in [Two -> FactorRequest]
  <2>1. \A q \in Two : factorRequest'[q] \in FactorRequest
    BY <1>3, <1>5, <1>9
  <2>2. DOMAIN factorRequest' = Two /\ factorRequest' = [q \in Two |-> factorRequest'[q]]
    BY <1>1
  <2>. QED
    BY <2>1, <2>2
<1>. QED
  BY <1>1, <1>3, <1>5, <1>7, <1>8, <1>9, <1>10

\* What the other steps do to the requests: one goes on with the same secret and step.
LEMMA FactorGoes ==
    ASSUME FactorTyped, NEW r \in Two, NEW next \in Moves, Factor!Go(r, next)
    PROVE  /\ factorRequest' \in [Two -> FactorRequest]
           /\ factorRequest'[r].next = next /\ factorRequest'[r].secret = factorRequest[r].secret
           /\ factorRequest'[r].step = factorRequest[r].step
           /\ factorRequest'[r].overlapped = factorRequest[r].overlapped
           /\ \A q \in Two \ {r} : factorRequest'[q] = factorRequest[q]
BY DEF FactorTyped, FactorRequest, Factor!Go

LEMMA FactorEnds ==
    ASSUME FactorTyped, NEW r \in Two, Factor!End(r)
    PROVE  /\ factorRequest' \in [Two -> FactorRequest] /\ factorRequest'[r].next = "none"
           /\ \A q \in Two \ {r} : factorRequest'[q] = factorRequest[q]
<1>1. Factor!Idle \in FactorRequest /\ Factor!Idle.next = "none"
  BY DEF Factor!Idle, FactorRequest, Moves, Factor!NoSecret, Factor!NoStep
<1>. QED
  BY <1>1 DEF FactorTyped, Factor!End

Row == <<totp, two_factor_enabled, totp_used, generatedSecrets, confirmed, accepted>>

\* A request ends, and leaves the row alone.
LEMMA EndKeeps ==
    ASSUME FInv, NEW r \in Two, Factor!End(r), UNCHANGED Row, held' \in Nat
    PROVE  FInv'
<1>1. /\ factorRequest' \in [Two -> FactorRequest] /\ factorRequest'[r].next = "none"
      /\ \A q \in Two \ {r} : factorRequest'[q] = factorRequest[q]
  BY FactorEnds DEF FInv
<1>2. \A q \in Two : q = r \/ factorRequest'[q] = factorRequest[q]
  BY <1>1
<1>3. FactorTyped'
  BY <1>1, <1>2 DEF FInv, FactorTyped, Row
<1>4. Undisturbed'
  BY <1>1, <1>2 DEF FInv, Undisturbed, Row, Factor!Confirming, Factor!Changing, Factor!Does
<1>5. Confirmed' /\ CodesOnce'
  BY <1>1, <1>2 DEF FInv, Confirmed, CodesOnce, Row
<1>. QED
  BY <1>3, <1>4, <1>5 DEF FInv

\* A request begins.
LEMMA BeginKeeps ==
    ASSUME FInv, NEW r \in Two, NEW next \in {"save", "mark", "disable", "login"},
           NEW secret \in Nat, NEW step \in Steps \cup {0},
           Factor!Begin(r, next, secret, step), UNCHANGED Row, held' = held,
           next = "save" => ~totp.is_verified,
           next = "mark" => totp.secret = secret /\ secret # 0,
           next \in {"disable", "login"} => step \in Steps
    PROVE  FInv'
<1>1. next \in Moves
  BY DEF Moves
<1>2. /\ factorRequest' \in [Two -> FactorRequest]
      /\ factorRequest[r].next = "none" /\ factorRequest'[r].next = next
      /\ factorRequest'[r].secret = secret /\ factorRequest'[r].step = step
      /\ ~factorRequest'[r].overlapped /\ next = "mark" => \A p \in Two : ~Factor!Changing(p)
      /\ \A q \in Two \ {r} :
           /\ factorRequest'[q].next = factorRequest[q].next
           /\ factorRequest'[q].secret = factorRequest[q].secret
           /\ factorRequest'[q].step = factorRequest[q].step
           /\ ~factorRequest'[q].overlapped => ~factorRequest[q].overlapped
           /\ (~factorRequest'[q].overlapped /\ Factor!Confirming(q))
                => next \notin {"save", "disable"}
  BY <1>1, FactorBegins DEF FInv
<1>3. FactorTyped'
  BY <1>2 DEF FInv, FactorTyped, Row
<1>4. Undisturbed'
  BY <1>2 DEF FInv, Undisturbed, Row, Factor!Confirming, Factor!Changing, Factor!Does
<1>5. Confirmed' /\ CodesOnce'
  BY <1>2 DEF FInv, Confirmed, CodesOnce, Row
<1>. QED
  BY <1>3, <1>4, <1>5 DEF FInv

\* saveTotpSecret replaces the row.
LEMMA SaveKeeps == ASSUME FInv, NEW r \in Two, Factor!SaveTotpSecret(r) PROVE FInv'
<1> DEFINE n == generatedSecrets + 1
<1>1. /\ factorRequest[r].next = "save" /\ totp' = [secret |-> n, is_verified |-> FALSE]
      /\ generatedSecrets' = n /\ n \in Nat
      /\ factorRequest' = [factorRequest EXCEPT ![r].next = "show", ![r].secret = n]
      /\ UNCHANGED <<two_factor_enabled, totp_used, held, confirmed, accepted>>
  <2>1. generatedSecrets' = n
    BY DEF Factor!SaveTotpSecret
  <2>2. n \in Nat
    BY DEF FInv, FactorTyped
  <2>3. totp' = [secret |-> n, is_verified |-> FALSE]
    BY <2>1 DEF Factor!SaveTotpSecret
  <2>. QED
    BY <2>1, <2>2, <2>3 DEF Factor!SaveTotpSecret, Factor!Does
<1>2. /\ factorRequest' \in [Two -> FactorRequest] /\ factorRequest'[r].next = "show"
      /\ \A q \in Two \ {r} : factorRequest'[q] = factorRequest[q]
  BY ZenonT(60), <1>1 DEF FInv, FactorTyped, FactorRequest, Moves
<1>3. \A q \in Two : q = r \/ factorRequest'[q] = factorRequest[q]
  BY <1>2
<1>4. FactorTyped'
  BY <1>1, <1>2, <1>3 DEF FInv, FactorTyped
<1>5. confirmed = 0 /\ \A q \in Two : ~Factor!Confirming(q) \/ factorRequest[q].overlapped
  BY <1>1 DEF FInv, Confirmed, Undisturbed, Factor!Changing, Factor!Does
<1>6. Undisturbed'
  BY <1>2, <1>3, <1>5 DEF Undisturbed, Factor!Confirming, Factor!Does
<1>7. Confirmed' /\ CodesOnce'
  BY <1>1, <1>5 DEF FInv, Confirmed, CodesOnce
<1>. QED
  BY <1>4, <1>6, <1>7 DEF FInv

\* verifyTotp marks whatever row there is.
LEMMA MarkKeeps == ASSUME FInv, NEW r \in Two, Factor!MarkVerified(r) PROVE FInv'
<1>1. /\ factorRequest[r].next = "mark" /\ Factor!Go(r, "flag")
      /\ totp' = [totp EXCEPT !.is_verified = totp.secret # 0]
      /\ UNCHANGED <<two_factor_enabled, totp_used, generatedSecrets, held, confirmed, accepted>>
  BY DEF Factor!MarkVerified, Factor!Does, Factor!NoSecret
<1>2. /\ factorRequest' \in [Two -> FactorRequest]
      /\ factorRequest'[r].next = "flag" /\ factorRequest'[r].secret = factorRequest[r].secret
      /\ factorRequest'[r].overlapped = factorRequest[r].overlapped
      /\ \A q \in Two \ {r} : factorRequest'[q] = factorRequest[q]
  BY <1>1, FactorGoes DEF FInv, Moves
<1>3. /\ totp' \in [secret : Nat, is_verified : BOOLEAN] /\ totp'.secret = totp.secret
      /\ totp.secret # 0 => totp'.is_verified
  BY <1>1 DEF FInv, FactorTyped
<1>4. \A q \in Two : q = r \/ factorRequest'[q] = factorRequest[q]
  BY <1>2
<1>5. FactorTyped'
  BY <1>1, <1>2, <1>3, <1>4 DEF FInv, FactorTyped
<1>6. Undisturbed'
  BY <1>1, <1>2, <1>3, <1>4 DEF FInv, Undisturbed, Factor!Confirming, Factor!Changing, Factor!Does
<1>7. Confirmed' /\ CodesOnce'
  BY <1>1, <1>2, <1>3, <1>4 DEF FInv, Confirmed, CodesOnce
<1>. QED
  BY <1>5, <1>6, <1>7 DEF FInv

\* "2FA enabled successfully".
LEMMA SetFlagKeeps == ASSUME FInv, NEW r \in Two, Factor!SetFlag(r) PROVE FInv'
<1>1. /\ factorRequest[r].next = "flag" /\ Factor!End(r) /\ two_factor_enabled' = TRUE
      /\ confirmed' = IF factorRequest[r].overlapped THEN 0 ELSE factorRequest[r].secret
      /\ UNCHANGED <<totp, totp_used, generatedSecrets, held, accepted>>
  BY DEF Factor!SetFlag, Factor!Does, Factor!NoSecret
<1>2. /\ factorRequest' \in [Two -> FactorRequest] /\ factorRequest'[r].next = "none"
      /\ \A q \in Two \ {r} : factorRequest'[q] = factorRequest[q]
  BY <1>1, FactorEnds DEF FInv
<1>3. \A q \in Two : q = r \/ factorRequest'[q] = factorRequest[q]
  BY <1>2
<1>4. FactorTyped'
  <2>1. confirmed' \in Nat
    BY <1>1 DEF FInv, FactorTyped, FactorRequest
  <2>. QED
    BY <2>1, <1>1, <1>2, <1>3 DEF FInv, FactorTyped
<1>5. Undisturbed'
  BY <1>1, <1>2, <1>3 DEF FInv, Undisturbed, Factor!Confirming, Factor!Changing, Factor!Does
<1>6. Confirmed' /\ CodesOnce'
  <2>1. confirmed' # 0 => /\ confirmed' = totp.secret /\ totp.is_verified
                          /\ \A p \in Two : ~Factor!Changing(p)
    BY <1>1 DEF FInv, Undisturbed, Factor!Confirming, Factor!Does
  <2>. QED
    BY <2>1, <1>1, <1>2, <1>3 DEF FInv, Confirmed, CodesOnce, Factor!Changing, Factor!Does
<1>. QED
  BY <1>4, <1>5, <1>6 DEF FInv

\* verifyTotpOnce: a code is used up before it counts.
LEMMA UseStepKeeps == ASSUME FInv, NEW r \in Two, Factor!UseStep(r) PROVE FInv'
<1>1. CASE factorRequest[r].step \in totp_used
  BY <1>1, EndKeeps DEF Factor!UseStep, Row, FInv, FactorTyped
<1>2. CASE factorRequest[r].step \notin totp_used
  <2> DEFINE s == factorRequest[r].step
  <2>1. PICK next \in {"delete", "redeem"} :
          /\ factorRequest[r].next \in {"disable", "login"}
          /\ next = "delete" => factorRequest[r].next = "disable"
          /\ Factor!Go(r, next) /\ totp_used' = totp_used \cup {s}
          /\ accepted' = [accepted EXCEPT ![s] = accepted[s] + 1]
          /\ UNCHANGED <<totp, two_factor_enabled, generatedSecrets, held, confirmed>>
    BY <1>2 DEF Factor!UseStep, Factor!Does, FInv, FactorTyped
  <2>2. s \in Steps
    BY <2>1 DEF FInv, FactorTyped
  <2>3. next \in Moves
    BY DEF Moves
  <2>4. /\ factorRequest' \in [Two -> FactorRequest] /\ factorRequest'[r].next = next
        /\ \A q \in Two : q = r \/ factorRequest'[q] = factorRequest[q]
    BY <2>1, <2>3, FactorGoes DEF FInv
  <2>5. accepted[s] = 0 /\ accepted' \in [Steps -> Nat] /\ accepted'[s] = 1
        /\ \A t \in Steps \ {s} : accepted'[t] = accepted[t]
    <3>1. accepted[s] \in Nat /\ accepted[s] <= 1 /\ accepted[s] # 1
      BY <2>2, <1>2 DEF FInv, FactorTyped, CodesOnce
    <3>2. accepted[s] = 0
      BY <3>1
    <3>3. accepted' = [accepted EXCEPT ![s] = 1]
      BY <3>2, <2>1
    <3>. QED
      BY <3>2, <3>3, <2>2 DEF FInv, FactorTyped
  <2>6. FactorTyped'
    BY <2>1, <2>2, <2>4, <2>5 DEF FInv, FactorTyped
  <2>7. Undisturbed'
    BY <2>1, <2>4 DEF FInv, Undisturbed, Factor!Confirming, Factor!Changing, Factor!Does
  <2>8. Confirmed'
    BY <2>1, <2>4 DEF FInv, Confirmed
  <2>9. CodesOnce'
    <3>1. \A t \in Steps : t \in totp_used' <=> t = s \/ t \in totp_used
      BY <2>1
    <3>. QED
      BY <3>1, <2>5 DEF FInv, CodesOnce
  <2>. QED
    BY <2>6, <2>7, <2>8, <2>9 DEF FInv
<1>. QED
  BY <1>1, <1>2

\* deleteTotp: the row goes, and what was confirmed with it.
LEMMA DeleteKeeps == ASSUME FInv, NEW r \in Two, Factor!DeleteTotp(r) PROVE FInv'
<1>1. /\ factorRequest[r].next = "delete" /\ Factor!Go(r, "unflag")
      /\ totp' = [secret |-> 0, is_verified |-> FALSE] /\ confirmed' = 0
      /\ UNCHANGED <<two_factor_enabled, totp_used, generatedSecrets, held, accepted>>
  BY DEF Factor!DeleteTotp, Factor!Does, Factor!NoSecret
<1>2. /\ factorRequest' \in [Two -> FactorRequest] /\ factorRequest'[r].next = "unflag"
      /\ \A q \in Two : q = r \/ factorRequest'[q] = factorRequest[q]
  BY <1>1, FactorGoes DEF FInv, Moves
<1>3. FactorTyped'
  BY <1>1, <1>2 DEF FInv, FactorTyped
<1>4. \A q \in Two : ~Factor!Confirming(q) \/ factorRequest[q].overlapped
  BY <1>1 DEF FInv, Undisturbed, Factor!Changing, Factor!Does
<1>5. Undisturbed'
  BY <1>2, <1>4 DEF Undisturbed, Factor!Confirming, Factor!Does
<1>6. Confirmed' /\ CodesOnce'
  BY <1>1 DEF FInv, Confirmed, CodesOnce
<1>. QED
  BY <1>3, <1>5, <1>6 DEF FInv

\* ... and the setting follows.
LEMMA ClearFlagKeeps == ASSUME FInv, NEW r \in Two, Factor!ClearFlag(r) PROVE FInv'
<1>1. /\ factorRequest[r].next = "unflag" /\ Factor!End(r)
      /\ UNCHANGED <<totp, totp_used, generatedSecrets, held, confirmed, accepted>>
  BY DEF Factor!ClearFlag, Factor!Does
<1>2. /\ factorRequest' \in [Two -> FactorRequest] /\ factorRequest'[r].next = "none"
      /\ \A q \in Two : q = r \/ factorRequest'[q] = factorRequest[q]
  BY <1>1, FactorEnds DEF FInv
<1>3. confirmed = 0
  BY <1>1 DEF FInv, Confirmed
<1>4. FactorTyped'
  BY <1>1, <1>2 DEF FInv, FactorTyped
<1>5. Undisturbed'
  BY <1>1, <1>2 DEF FInv, Undisturbed, Factor!Confirming, Factor!Changing, Factor!Does
<1>6. Confirmed' /\ CodesOnce'
  BY <1>1, <1>3 DEF FInv, Confirmed, CodesOnce
<1>. QED
  BY <1>4, <1>5, <1>6 DEF FInv

LEMMA FactorStep == FInv /\ [Factor!Next]_(Factor!vars) => FInv'
<1> SUFFICES ASSUME FInv, [Factor!Next]_(Factor!vars) PROVE FInv'
  OBVIOUS
<1>1. held \in Nat /\ 0 \in Steps \cup {0}
  BY DEF FInv, FactorTyped
<1>2. ASSUME NEW r \in Two, Factor!Setup(r) PROVE FInv'
  BY <1>2, <1>1, BeginKeeps
  DEF Factor!Setup, Factor!MaySetup, Factor!Read, Row, Factor!NoSecret, Factor!NoStep
<1>3. ASSUME NEW r \in Two, Factor!Show(r) PROVE FInv'
  <2>1. held' \in Nat
    BY <1>3 DEF Factor!Show, FInv, FactorTyped, FactorRequest
  <2>. QED
    BY <2>1, <1>3, EndKeeps DEF Factor!Show, Row
<1>4. ASSUME NEW r \in Two, Factor!Verify(r) PROVE FInv'
  BY <1>4, <1>1, BeginKeeps
  DEF Factor!Verify, Factor!Matches, Factor!Read, Row, Factor!NoSecret, Factor!NoStep
<1>5. ASSUME NEW r \in Two, NEW step \in Steps, Factor!Disable(r, step) PROVE FInv'
  BY <1>5, <1>1, BeginKeeps DEF Factor!Disable, Factor!Read, Row
<1>6. ASSUME NEW r \in Two, NEW step \in Steps, Factor!Login(r, step) PROVE FInv'
  BY <1>6, <1>1, BeginKeeps DEF Factor!Login, Factor!Read, Row
<1>7. ASSUME NEW r \in Two, Factor!Redeem(r) \/ Factor!Stop(r) PROVE FInv'
  BY <1>7, <1>1, EndKeeps DEF Factor!Redeem, Factor!Stop, Row
<1>8. CASE Factor!Challenge \/ Factor!ExpireChallenge \/ UNCHANGED Factor!vars
  <2>1. UNCHANGED Row /\ UNCHANGED <<held, factorRequest>>
    BY <1>8 DEF Factor!Challenge, Factor!ExpireChallenge, Factor!vars, Row
  <2>. QED
    BY <2>1 DEF FInv, FactorTyped, Undisturbed, Confirmed, CodesOnce, Row, Factor!Confirming,
       Factor!Changing, Factor!Does
<1>. QED
  BY <1>2, <1>3, <1>4, <1>5, <1>6, <1>7, <1>8, SaveKeeps, MarkKeeps, SetFlagKeeps, UseStepKeeps,
     DeleteKeeps, ClearFlagKeeps
  DEF Factor!Next

-------------------------------------------------------------------------------
(* Saved messages: who is alone finds the first chat, or creates it.       *)

Askers == Account!Requests

AskerStates == {"idle", "free", "refused", "look", "missing", "chat", "publish", "answered",
                "failed"}

Asker == [state : AskerStates, chat : Askers \cup {"none"}]

AccountTyped ==
    /\ saved \in Seq(Askers) /\ owners \subseteq Askers /\ company \subseteq Askers
    /\ accountRequest \in [Askers -> Asker]

Creates(r) == accountRequest[r].state \in {"missing", "chat"}
Failed(r)  == accountRequest[r].state = "failed"

\* Which rows there are tells how far their creation has come.
RowsAreCreated ==
    /\ \A i \in 1..Len(saved) :
          accountRequest[saved[i]].state \in {"chat", "publish", "answered", "failed"}
    /\ \A i \in 1..Len(saved) : saved[i] \notin owners => Failed(saved[i]) \/ Creates(saved[i])
    /\ \A r \in Askers : accountRequest[r].state = "chat" =>
          r \notin owners /\ \E i \in 1..Len(saved) : saved[i] = r
    /\ \A c \in owners : \E i \in 1..Len(saved) : saved[i] = c
    /\ \A i, j \in 1..Len(saved) : saved[i] = saved[j] => i = j

\* The first row, and the first of which the user is a member, with failures before it.
First(c)      == Len(saved) >= 1 /\ saved[1] = c
FirstOwned(c) == \E k \in 1..Len(saved) :
    /\ saved[k] = c /\ c \in owners
    /\ \A j \in 1..Len(saved) : j < k => saved[j] \notin owners /\ Failed(saved[j])

\* A request that creates without company is the only one, and has found nothing.
CreatesAlone ==
    \A r \in Askers \ company : Creates(r) =>
        /\ \A p \in Askers : Creates(p) => p = r
        /\ accountRequest[r].state = "missing" =>
              \A i \in 1..Len(saved) : r \in Lists /\ saved[i] \notin owners
        /\ accountRequest[r].state = "chat" =>
              /\ r \in Lists \/ First(r)
              /\ \A i \in 1..Len(saved) : saved[i] \notin owners

\* What a request without company answers with.
FoundFirst ==
    \A r \in Askers \ company : accountRequest[r].state \in {"publish", "answered"} =>
        IF r \in Lists THEN FirstOwned(accountRequest[r].chat) ELSE First(accountRequest[r].chat)

\* Who was answered stays so.
AnsweredBefore ==
    /\ before \in [Askers -> SUBSET Askers]
    /\ \A r \in Askers : \A q \in before[r] : accountRequest[q].state = "answered"

AInv == AccountTyped /\ RowsAreCreated /\ CreatesAlone /\ FoundFirst

\* There is no row at first.
LEMMA AccountInit == Account!Init => AInv
<1> SUFFICES ASSUME Account!Init PROVE AInv
  OBVIOUS
<1>1. saved = <<>> /\ owners = {} /\ company = {}
  BY DEF Account!Init
<1>2. /\ accountRequest \in [Askers -> Asker]
      /\ \A r \in Askers : accountRequest[r].state = "idle"
  BY DEF Account!Init, Askers, Asker, AskerStates, Account!NoChat
<1>3. Len(saved) = 0 /\ saved \in Seq(Askers)
  BY <1>1
<1>. QED
  BY <1>1, <1>2, <1>3 DEF AInv, AccountTyped, RowsAreCreated, CreatesAlone, FoundFirst, Creates

\* What Goto does to the requests.
LEMMA AskerGoes ==
    ASSUME AccountTyped, NEW r \in Askers, NEW state \in AskerStates,
           NEW chat \in Askers \cup {"none"}, Account!Goto(r, state, chat)
    PROVE  /\ accountRequest' \in [Askers -> Asker]
           /\ accountRequest'[r].state = state /\ accountRequest'[r].chat = chat
           /\ \A q \in Askers : q = r \/ accountRequest'[q] = accountRequest[q]
BY DEF AccountTyped, Asker, Account!Goto

\* A request moves that neither creates nor finds a chat, or fails.
LEMMA MoveKeeps ==
    ASSUME AInv, NEW r \in Askers, NEW state \in {"free", "refused", "look", "failed"},
           accountRequest[r].state \notin {"answered", "failed"},
           accountRequest[r].state \in {"chat", "publish"} => state = "failed",
           Account!Goto(r, state, "none"), UNCHANGED <<saved, owners, company>>
    PROVE  AInv'
<1>1. state \in AskerStates
  BY DEF AskerStates
<1>2. /\ accountRequest' \in [Askers -> Asker] /\ accountRequest'[r].state = state
      /\ \A q \in Askers : q = r \/ accountRequest'[q] = accountRequest[q]
  BY <1>1, AskerGoes DEF AInv
<1>3. \A i \in 1..Len(saved) : saved[i] \in Askers
  BY DEF AInv, AccountTyped
<1>4. AccountTyped'
  BY <1>2 DEF AInv, AccountTyped
<1>5. \A q \in Askers : (Creates(q)' => Creates(q)) /\ (Failed(q) => Failed(q)')
  BY <1>2 DEF Creates, Failed
<1>6. RowsAreCreated'
  BY <1>2, <1>3 DEF AInv, RowsAreCreated, Creates, Failed
<1>7. CreatesAlone'
  <2>1. \A q \in Askers : Creates(q)' => q # r /\ accountRequest'[q] = accountRequest[q]
    BY <1>2 DEF Creates
  <2>. QED
    BY <2>1, <1>5 DEF AInv, CreatesAlone, First
<1>8. FoundFirst'
  <2>1. \A c : (First(c) => First(c)') /\ (FirstOwned(c) => FirstOwned(c)')
    BY <1>3, <1>5 DEF First, FirstOwned
  <2>. QED
    BY <2>1, <1>2 DEF AInv, FoundFirst
<1>. QED
  BY <1>4, <1>6, <1>7, <1>8 DEF AInv

\* A request that looks, and finds: the first row of those it selects.
LEMMA FindKeeps ==
    ASSUME AInv, NEW r \in Askers, accountRequest[r].state = "look",
           NEW i \in Account!Earliest(Account!Selected(r)),
           NEW state \in {"publish", "answered"}, Account!Goto(r, state, saved[i]),
           company' = company \cup {c \in {r} : Account!Creating # {}},
           UNCHANGED <<saved, owners>>
    PROVE  AInv'
<1>1. /\ i \in 1..Len(saved)
      /\ r \in Lists => saved[i] \in owners
      /\ \A j \in 1..Len(saved) : (r \in Lists => saved[j] \in owners) => i <= j
  BY DEF Account!Earliest, Account!Selected, AInv, AccountTyped
<1>2. /\ Len(saved) \in Nat /\ \A j \in 1..Len(saved) : saved[j] \in Askers
      /\ i \in Nat /\ i >= 1 /\ i <= Len(saved) /\ saved[i] \in Askers
  <2>1. saved \in Seq(Askers)
    BY DEF AInv, AccountTyped
  <2>2. Len(saved) \in Nat /\ \A j \in 1..Len(saved) : saved[j] \in Askers
    BY <2>1
  <2>. QED
    BY <2>2, <1>1
<1>3. state \in AskerStates
  BY DEF AskerStates
<1>4. /\ accountRequest' \in [Askers -> Asker]
      /\ accountRequest'[r].state = state /\ accountRequest'[r].chat = saved[i]
      /\ \A q \in Askers : q = r \/ accountRequest'[q] = accountRequest[q]
  BY <1>2, <1>3, AskerGoes DEF AInv
<1>5. /\ company \subseteq company' /\ company' \subseteq Askers
      /\ r \notin company' => \A p \in Askers : ~Creates(p)
  BY DEF AInv, AccountTyped, Account!Creating, Creates, Askers
<1>6. AccountTyped'
  BY <1>4, <1>5 DEF AInv, AccountTyped
<1>7. \A q \in Askers : (Creates(q)' <=> Creates(q)) /\ (Failed(q)' <=> Failed(q))
  BY <1>4 DEF Creates, Failed
<1>8. RowsAreCreated'
  BY <1>2, <1>4 DEF AInv, RowsAreCreated, Creates, Failed
<1>9. CreatesAlone'
  <2>1. \A q \in Askers : Creates(q)' => q # r /\ accountRequest'[q] = accountRequest[q]
    BY <1>4 DEF Creates
  <2>. QED
    BY <2>1, <1>5, <1>7 DEF AInv, CreatesAlone, First
<1>10. FoundFirst'
  <2>1. \A c : (First(c)' <=> First(c)) /\ (FirstOwned(c)' <=> FirstOwned(c))
    BY <1>2, <1>7 DEF First, FirstOwned
  <2>2. CASE r \in company'
    BY <2>1, <2>2, <1>4, <1>5 DEF AInv, FoundFirst
  <2>3. CASE r \notin company'
    <3>1. r \notin Lists => First(saved[i])
      <4> SUFFICES ASSUME r \notin Lists PROVE First(saved[i])
        OBVIOUS
      <4>1. 1 \in 1..Len(saved)
        BY <1>1, <1>2
      <4>2. i <= 1
        BY <4>1, <1>1
      <4>3. i = 1
        BY <4>2, <1>1, <1>2
      <4>. QED
        BY <4>3, <4>1, <1>2 DEF First
    <3>2. r \in Lists => FirstOwned(saved[i])
      <4> SUFFICES ASSUME r \in Lists PROVE FirstOwned(saved[i])
        OBVIOUS
      <4>1. ASSUME NEW j \in 1..Len(saved), j < i PROVE saved[j] \notin owners /\ Failed(saved[j])
        <5>1. ~(i <= j)
          BY <4>1, <1>1, <1>2
        <5>2. saved[j] \notin owners
          BY <5>1, <1>1
        <5>3. Failed(saved[j]) \/ Creates(saved[j])
          BY <5>2 DEF AInv, RowsAreCreated
        <5>. QED
          BY <5>2, <5>3, <2>3, <1>2, <1>5
      <4>. QED
        BY <4>1, <1>1 DEF FirstOwned
    <3>. QED
      BY <2>1, <3>1, <3>2, <1>4, <1>5 DEF AInv, FoundFirst
  <2>. QED
    BY <2>2, <2>3
<1>. QED
  BY <1>6, <1>8, <1>9, <1>10 DEF AInv

\* ... and finds nothing.
LEMMA MissKeeps ==
    ASSUME AInv, NEW r \in Askers, accountRequest[r].state = "look",
           Account!Selected(r) = {}, Account!Goto(r, "missing", "none"),
           company' = company \cup (IF Account!Creating = {} THEN {} ELSE Account!Creating \cup {r}),
           UNCHANGED <<saved, owners>>
    PROVE  AInv'
<1>1. \A i \in 1..Len(saved) : r \in Lists /\ saved[i] \notin owners
  BY DEF Account!Selected, AInv, AccountTyped
<1>2. Len(saved) \in Nat /\ \A j \in 1..Len(saved) : saved[j] \in Askers
  BY DEF AInv, AccountTyped
<1>3. "missing" \in AskerStates
  BY DEF AskerStates
<1>4. /\ accountRequest' \in [Askers -> Asker] /\ accountRequest'[r].state = "missing"
      /\ \A q \in Askers : q = r \/ accountRequest'[q] = accountRequest[q]
  BY <1>3, AskerGoes DEF AInv
<1>5. /\ company \subseteq company' /\ company' \subseteq Askers
      /\ \A p \in Askers : (Creates(p) /\ p \notin company') => FALSE
      /\ r \notin company' => \A p \in Askers : ~Creates(p)
  <2>1. Account!Creating = {p \in Askers : Creates(p)}
    BY DEF Account!Creating, Creates, Askers
  <2>2. company' = company \cup (IF {p \in Askers : Creates(p)} = {} THEN {}
                                 ELSE {p \in Askers : Creates(p)} \cup {r})
    BY <2>1
  <2>. QED
    BY <2>2 DEF AInv, AccountTyped
<1>6. AccountTyped'
  BY <1>4, <1>5 DEF AInv, AccountTyped
<1>7. \A q \in Askers : q = r \/ (Creates(q)' <=> Creates(q))
  BY <1>4 DEF Creates
<1>8. \A q \in Askers : Failed(q)' <=> Failed(q)
  BY <1>4 DEF Failed
<1>9. RowsAreCreated'
  BY <1>2, <1>4 DEF AInv, RowsAreCreated, Creates, Failed
<1>10. CreatesAlone'
  BY <1>1, <1>4, <1>5, <1>7 DEF CreatesAlone
<1>11. FoundFirst'
  <2>1. \A c : (First(c)' <=> First(c)) /\ (FirstOwned(c)' <=> FirstOwned(c))
    BY <1>2, <1>8 DEF First, FirstOwned
  <2>. QED
    BY <2>1, <1>4, <1>5 DEF AInv, FoundFirst
<1>. QED
  BY <1>6, <1>9, <1>10, <1>11 DEF AInv

\* INSERT INTO chats.
LEMMA InsertSavedKeeps == ASSUME AInv, NEW r \in Askers, Account!InsertSaved(r) PROVE AInv'
<1>1. /\ accountRequest[r].state = "missing" /\ saved' = Append(saved, r)
      /\ Account!Goto(r, "chat", r) /\ UNCHANGED <<owners, company>>
  BY DEF Account!InsertSaved
<1>2. "chat" \in AskerStates
  BY DEF AskerStates
<1>3. /\ accountRequest' \in [Askers -> Asker] /\ accountRequest'[r].state = "chat"
      /\ \A q \in Askers : q = r \/ accountRequest'[q] = accountRequest[q]
  BY <1>1, <1>2, AskerGoes DEF AInv
<1>4. /\ Len(saved) \in Nat /\ Len(saved') = Len(saved) + 1 /\ saved'[Len(saved) + 1] = r
      /\ \A i \in 1..Len(saved) : saved'[i] = saved[i] /\ saved[i] \in Askers
      /\ saved' \in Seq(Askers)
  BY <1>1 DEF AInv, AccountTyped
<1>5. \A i \in 1..Len(saved') : i \in 1..Len(saved) \/ i = Len(saved) + 1
  BY <1>4
<1>6. \A i \in 1..Len(saved) : i \in 1..Len(saved') /\ saved[i] # r
  BY <1>1, <1>4 DEF AInv, RowsAreCreated
<1>7. Len(saved) + 1 \in 1..Len(saved')
  BY <1>4
<1>8. AccountTyped'
  BY <1>1, <1>3, <1>4 DEF AInv, AccountTyped
<1>9. \A q \in Askers : (Creates(q)' <=> Creates(q)) /\ (Failed(q)' <=> Failed(q))
  BY <1>1, <1>3 DEF Creates, Failed
<1>10. r \notin owners
  BY <1>6 DEF AInv, RowsAreCreated
<1>11. RowsAreCreated'
  <2>1. ASSUME NEW i \in 1..Len(saved')
        PROVE  accountRequest'[saved'[i]].state \in {"chat", "publish", "answered", "failed"}
    <3>1. CASE i \in 1..Len(saved)
      BY <3>1, <1>3, <1>4, <1>6 DEF AInv, RowsAreCreated
    <3>2. CASE i = Len(saved) + 1
      BY <3>2, <1>3, <1>4
    <3>. QED
      BY <3>1, <3>2, <1>5
  <2>2. ASSUME NEW i \in 1..Len(saved'), saved'[i] \notin owners
        PROVE  accountRequest'[saved'[i]].state \in {"missing", "chat", "failed"}
    <3>1. CASE i \in 1..Len(saved)
      <4>1. accountRequest[saved[i]].state \in {"missing", "chat", "failed"}
        BY <3>1, <2>2, <1>4 DEF AInv, RowsAreCreated, Creates, Failed
      <4>. QED
        BY <4>1, <3>1, <1>3, <1>4, <1>6
    <3>2. CASE i = Len(saved) + 1
      BY <3>2, <1>3, <1>4
    <3>. QED
      BY <3>1, <3>2, <1>5
  <2>3. \A q \in Askers : accountRequest'[q].state = "chat" =>
          q \notin owners /\ \E i \in 1..Len(saved') : saved'[i] = q
    BY <1>3, <1>4, <1>6, <1>7, <1>10 DEF AInv, RowsAreCreated
  <2>4. \A c \in owners : \E i \in 1..Len(saved') : saved'[i] = c
    BY <1>4, <1>6 DEF AInv, RowsAreCreated
  <2>5. \A i, j \in 1..Len(saved') : saved'[i] = saved'[j] => i = j
    BY <1>4, <1>5, <1>6 DEF AInv, RowsAreCreated
  <2>. QED
    BY <2>1, <2>2, <2>3, <2>4, <2>5, <1>1 DEF RowsAreCreated, Failed, Creates
<1>12. CreatesAlone'
  <2> SUFFICES ASSUME NEW q \in Askers, q \notin company, Creates(q)'
               PROVE  /\ \A p \in Askers : Creates(p)' => p = q
                      /\ accountRequest'[q].state = "missing" =>
                            \A i \in 1..Len(saved') : q \in Lists /\ saved'[i] \notin owners
                      /\ accountRequest'[q].state = "chat" =>
                            /\ q \in Lists \/ First(q)'
                            /\ \A i \in 1..Len(saved') : saved'[i] \notin owners
    BY <1>1 DEF CreatesAlone
  <2>1. \A p \in Askers : Creates(p) => p = q
    BY <1>9 DEF AInv, CreatesAlone
  <2>2. q = r
    BY <2>1, <1>1 DEF Creates
  <2>3. \A i \in 1..Len(saved) : r \in Lists /\ saved[i] \notin owners
    BY <2>2, <1>1 DEF AInv, CreatesAlone, Creates
  <2>4. r \in Lists \/ First(r)'
    <3>1. r \in Lists \/ Len(saved) = 0
      <4>1. 1 \in 1..Len(saved) \/ Len(saved) = 0
        BY <1>4
      <4>. QED
        BY <4>1, <2>3
    <3>. QED
      BY <3>1, <1>4 DEF First
  <2>5. \A i \in 1..Len(saved') : saved'[i] \notin owners
    BY <2>3, <1>4, <1>5, <1>10
  <2>. QED
    BY <2>1, <2>2, <2>4, <2>5, <1>3, <1>9
<1>13. FoundFirst'
  <2>1. \A c : (First(c) => First(c)') /\ (FirstOwned(c) => FirstOwned(c)')
    <3>1. \A c : First(c) => First(c)'
      BY <1>4 DEF First
    <3>2. ASSUME NEW c, FirstOwned(c) PROVE FirstOwned(c)'
      <4>1. PICK k \in 1..Len(saved) :
              /\ saved[k] = c /\ c \in owners
              /\ \A j \in 1..Len(saved) : j < k => saved[j] \notin owners /\ Failed(saved[j])
        BY <3>2 DEF FirstOwned
      <4>2. ASSUME NEW j \in 1..Len(saved'), j < k
            PROVE  saved'[j] \notin owners /\ accountRequest'[saved'[j]].state = "failed"
        <5>1. j \in 1..Len(saved)
          BY <4>2, <1>4
        <5>2. saved[j] \notin owners /\ accountRequest[saved[j]].state = "failed"
          BY <5>1, <4>1, <4>2 DEF Failed
        <5>. QED
          BY <5>1, <5>2, <1>1, <1>3, <1>4
      <4>3. k \in 1..Len(saved') /\ saved'[k] = c
        BY <4>1, <1>4, <1>6
      <4>. QED
        BY <4>1, <4>2, <4>3, <1>1 DEF FirstOwned, Failed
    <3>. QED
      BY <3>1, <3>2
  <2>. QED
    BY <2>1, <1>1, <1>3 DEF AInv, FoundFirst
<1>. QED
  BY <1>8, <1>11, <1>12, <1>13 DEF AInv

\* INSERT INTO chat_members.
LEMMA InsertOwnerKeeps == ASSUME AInv, NEW r \in Askers, Account!InsertOwner(r) PROVE AInv'
<1>1. PICK state \in {"publish", "answered"} :
        /\ accountRequest[r].state = "chat" /\ owners' = owners \cup {r}
        /\ Account!Goto(r, state, r) /\ UNCHANGED <<saved, company>>
  BY DEF Account!InsertOwner, Account!Found
<1>2. state \in AskerStates
  BY DEF AskerStates
<1>3. /\ accountRequest' \in [Askers -> Asker] /\ accountRequest'[r].state = state
      /\ accountRequest'[r].chat = r
      /\ \A q \in Askers : q = r \/ accountRequest'[q] = accountRequest[q]
  BY <1>1, <1>2, AskerGoes DEF AInv
<1>4. \A i \in 1..Len(saved) : saved[i] \in Askers
  BY DEF AInv, AccountTyped
<1>5. \A q \in Askers : (Creates(q)' <=> q # r /\ Creates(q)) /\ (Failed(q)' <=> Failed(q))
  BY <1>1, <1>3 DEF Creates, Failed
<1>6. AccountTyped'
  BY <1>1, <1>3 DEF AInv, AccountTyped
<1>7. PICK n \in 1..Len(saved) : saved[n] = r
  BY <1>1 DEF AInv, RowsAreCreated
<1>8. RowsAreCreated'
  <2>1. \A i \in 1..Len(saved) :
          accountRequest'[saved[i]].state \in {"chat", "publish", "answered", "failed"}
    BY <1>3, <1>4 DEF AInv, RowsAreCreated
  <2>2. \A i \in 1..Len(saved) : saved[i] \notin owners' => Failed(saved[i])' \/ Creates(saved[i])'
    BY <1>1, <1>4, <1>5 DEF AInv, RowsAreCreated
  <2>3. \A q \in Askers : accountRequest'[q].state = "chat" =>
          q \notin owners' /\ \E i \in 1..Len(saved) : saved[i] = q
    BY <1>1, <1>3 DEF AInv, RowsAreCreated
  <2>4. \A c \in owners' : \E i \in 1..Len(saved) : saved[i] = c
    BY <1>1, <1>7 DEF AInv, RowsAreCreated
  <2>. QED
    BY <2>1, <2>2, <2>3, <2>4, <1>1 DEF AInv, RowsAreCreated, Failed, Creates
<1>9. Creates(r)
  BY <1>1 DEF Creates
<1>10. CreatesAlone'
  <2>1. \A q \in Askers \ company : ~Creates(q)'
    BY <1>5, <1>9 DEF AInv, CreatesAlone
  <2>. QED
    BY <2>1, <1>1 DEF CreatesAlone
<1>11. FoundFirst'
  <2>1. \A c : First(c) => First(c)'
    BY <1>1 DEF First
  <2>2. ASSUME NEW c, FirstOwned(c) PROVE FirstOwned(c)'
    <3>1. PICK k \in 1..Len(saved) :
            /\ saved[k] = c /\ c \in owners
            /\ \A j \in 1..Len(saved) : j < k => saved[j] \notin owners /\ Failed(saved[j])
      BY <2>2 DEF FirstOwned
    <3>2. \A j \in 1..Len(saved) : j < k => saved[j] # r
      BY <3>1, <1>1 DEF Failed
    <3>3. \A j \in 1..Len(saved) : j < k => saved[j] \notin owners' /\ Failed(saved[j])'
      BY <3>1, <3>2, <1>1, <1>4, <1>5
    <3>. QED
      BY <3>1, <3>3, <1>1 DEF FirstOwned, Failed
  <2>3. ASSUME r \notin company
        PROVE  IF r \in Lists THEN FirstOwned(r)' ELSE First(r)'
    <3>1. /\ \A p \in Askers : Creates(p) => p = r
          /\ r \in Lists \/ First(r)
          /\ \A i \in 1..Len(saved) : saved[i] \notin owners
      BY <2>3, <1>1, <1>9 DEF AInv, CreatesAlone
    <3>2. \A j \in 1..Len(saved) : j < n => saved[j] # r
      BY <1>7 DEF AInv, RowsAreCreated
    <3>3. \A j \in 1..Len(saved) : j < n => saved[j] \notin owners' /\ Failed(saved[j])
      BY <3>1, <3>2, <1>1, <1>4 DEF AInv, RowsAreCreated
    <3>4. FirstOwned(r)'
      <4>1. ASSUME NEW j \in 1..Len(saved), j < n
            PROVE  saved[j] \notin owners' /\ accountRequest'[saved[j]].state = "failed"
        BY <4>1, <3>2, <3>3, <1>3, <1>4 DEF Failed
      <4>. QED
        BY <4>1, <1>1, <1>7 DEF FirstOwned, Failed
    <3>. QED
      BY <3>1, <3>4, <2>1
  <2>. QED
    BY <2>1, <2>2, <2>3, <1>1, <1>3 DEF AInv, FoundFirst
<1>. QED
  BY <1>6, <1>8, <1>10, <1>11 DEF AInv

\* USER_CREATED is published: the answer names the same chat.
LEMMA PublishCreatedKeeps ==
    ASSUME AInv, NEW r \in Askers, Account!PublishCreated(r) PROVE AInv'
<1> DEFINE chat == accountRequest[r].chat
<1>1. /\ accountRequest[r].state = "publish" /\ Account!Goto(r, "answered", chat)
      /\ UNCHANGED <<saved, owners, company>>
  BY DEF Account!PublishCreated
<1>2. "answered" \in AskerStates /\ chat \in Askers \cup {"none"}
  BY DEF AskerStates, AInv, AccountTyped, Asker
<1>3. /\ accountRequest' \in [Askers -> Asker] /\ accountRequest'[r].state = "answered"
      /\ accountRequest'[r].chat = chat
      /\ \A q \in Askers : q = r \/ accountRequest'[q] = accountRequest[q]
  BY <1>1, <1>2, AskerGoes DEF AInv
<1>4. \A i \in 1..Len(saved) : saved[i] \in Askers
  BY DEF AInv, AccountTyped
<1>5. \A q \in Askers : (Creates(q)' <=> Creates(q)) /\ (Failed(q)' <=> Failed(q))
  BY <1>1, <1>3 DEF Creates, Failed
<1>6. AccountTyped'
  BY <1>1, <1>3 DEF AInv, AccountTyped
<1>7. RowsAreCreated'
  BY <1>1, <1>3, <1>4 DEF AInv, RowsAreCreated, Creates, Failed
<1>8. CreatesAlone'
  <2>1. \A q \in Askers : Creates(q)' => q # r /\ accountRequest'[q] = accountRequest[q]
    BY <1>3 DEF Creates
  <2>. QED
    BY <2>1, <1>1, <1>5 DEF AInv, CreatesAlone, First
<1>9. FoundFirst'
  <2>1. \A c : (First(c) => First(c)') /\ (FirstOwned(c) => FirstOwned(c)')
    BY <1>1, <1>4, <1>5 DEF First, FirstOwned
  <2>. QED
    BY <2>1, <1>1, <1>3 DEF AInv, FoundFirst
<1>. QED
  BY <1>6, <1>7, <1>8, <1>9 DEF AInv

LEMMA AccountStep == AInv /\ [Account!Next]_(Account!vars) => AInv'
<1> SUFFICES ASSUME AInv, [Account!Next]_(Account!vars) PROVE AInv'
  OBVIOUS
<1>1. ASSUME NEW r \in Askers,
             Account!CheckUsername(r) \/ Account!InsertUser(r) \/ Account!Begin(r) \/ Account!Stop(r)
      PROVE  AInv'
  <2>1. PICK state \in {"free", "refused", "look", "failed"} :
          /\ Account!Goto(r, state, "none") /\ UNCHANGED <<saved, owners, company>>
          /\ accountRequest[r].state \notin {"answered", "failed"}
          /\ accountRequest[r].state \in {"chat", "publish"} => state = "failed"
    <3>1. CASE Account!CheckUsername(r)
      BY <3>1 DEF Account!CheckUsername, Account!NoChat
    <3>2. CASE Account!InsertUser(r)
      BY <3>2 DEF Account!InsertUser, Account!NoChat
    <3>3. CASE Account!Begin(r)
      BY <3>3 DEF Account!Begin, Account!NoChat
    <3>4. CASE Account!Stop(r)
      BY <3>4 DEF Account!Stop, Account!NoChat
    <3>. QED
      BY <3>1, <3>2, <3>3, <3>4, <1>1
  <2>. QED
    BY <2>1, MoveKeeps
<1>2. ASSUME NEW r \in Askers, Account!LookForSaved(r) PROVE AInv'
  <2>1. /\ accountRequest[r].state = "look" /\ UNCHANGED <<saved, owners>>
        /\ \/ \E i \in Account!Earliest(Account!Selected(r)) :
                 /\ Account!Goto(r, Account!Found(r), saved[i])
                 /\ company' = company \cup {c \in {r} : Account!Creating # {}}
           \/ /\ Account!Selected(r) = {} /\ Account!Goto(r, "missing", "none")
              /\ company' = company \cup (IF Account!Creating = {} THEN {}
                                          ELSE Account!Creating \cup {r})
    BY <1>2 DEF Account!LookForSaved, Account!NoChat
  <2>2. Account!Found(r) \in {"publish", "answered"}
    BY DEF Account!Found
  <2>. QED
    BY <2>1, <2>2, FindKeeps, MissKeeps
<1>3. CASE UNCHANGED Account!vars
  BY <1>3 DEF Account!vars, AInv, AccountTyped, RowsAreCreated, CreatesAlone, FoundFirst, Creates,
     Failed, First, FirstOwned
<1>. QED
  BY <1>1, <1>2, <1>3, InsertSavedKeeps, InsertOwnerKeeps, PublishCreatedKeeps
  DEF Account!Next, Askers

\* A request that is answered takes no further step.
LEMMA AnsweredStays ==
    ASSUME AInv, [Account!Next]_(Account!vars), NEW q \in Askers,
           accountRequest[q].state = "answered"
    PROVE  accountRequest'[q].state = "answered"
<1>1. CASE UNCHANGED Account!vars
  BY <1>1 DEF Account!vars
<1>2. ASSUME NEW r \in Askers, r # q,
             accountRequest' = [accountRequest EXCEPT ![r] = accountRequest'[r]]
      PROVE  accountRequest'[q].state = "answered"
  BY <1>2 DEF AInv, AccountTyped
<1>3. ASSUME NEW r \in Askers, accountRequest[r].state # "answered",
             NEW state, NEW chat, Account!Goto(r, state, chat)
      PROVE  accountRequest'[q].state = "answered"
  BY <1>3 DEF AInv, AccountTyped, Account!Goto
<1>4. ASSUME NEW r \in Askers,
             \/ Account!CheckUsername(r) \/ Account!InsertUser(r) \/ Account!Begin(r)
             \/ Account!InsertSaved(r) \/ Account!InsertOwner(r) \/ Account!PublishCreated(r)
             \/ Account!Stop(r)
      PROVE  accountRequest'[q].state = "answered"
  <2>1. CASE Account!CheckUsername(r)
    BY <2>1, <1>3 DEF Account!CheckUsername
  <2>2. CASE Account!InsertUser(r)
    BY <2>2, <1>3 DEF Account!InsertUser
  <2>3. CASE Account!Begin(r)
    BY <2>3, <1>3 DEF Account!Begin
  <2>4. CASE Account!InsertSaved(r)
    BY <2>4, <1>3 DEF Account!InsertSaved
  <2>5. CASE Account!InsertOwner(r)
    BY <2>5, <1>3 DEF Account!InsertOwner
  <2>6. CASE Account!PublishCreated(r)
    BY <2>6, <1>3 DEF Account!PublishCreated
  <2>7. CASE Account!Stop(r)
    BY <2>7, <1>3 DEF Account!Stop
  <2>. QED
    BY <2>1, <2>2, <2>3, <2>4, <2>5, <2>6, <2>7, <1>4
<1>5. ASSUME NEW r \in Askers, Account!LookForSaved(r)
      PROVE  accountRequest'[q].state = "answered"
  BY <1>5, <1>3 DEF Account!LookForSaved
<1>. QED
  BY <1>1, <1>4, <1>5 DEF Account!Next, Askers

LEMMA AnsweredBeforeKeeps ==
    ASSUME AInv, AnsweredBefore, [Account!Next]_(Account!vars) PROVE AnsweredBefore'
<1>1. \A q \in Askers : accountRequest[q].state = "answered"
                           => accountRequest'[q].state = "answered"
  BY AnsweredStays
<1>2. CASE UNCHANGED before
  BY <1>1, <1>2 DEF AnsweredBefore
<1>3. ASSUME NEW r \in Askers, Account!LookForSaved(r) PROVE AnsweredBefore'
  <2>1. before' = [before EXCEPT ![r] = {q \in Askers : accountRequest[q].state = "answered"}]
    BY <1>3 DEF Account!LookForSaved, Account!AnsweredIn, Askers
  <2>. QED
    BY <2>1, <1>1 DEF AnsweredBefore
<1>. QED
  BY <1>2, <1>3 DEF Account!Next, Account!vars, Account!CheckUsername, Account!InsertUser,
     Account!Begin, Account!InsertSaved, Account!InsertOwner, Account!PublishCreated,
     Account!Stop, Askers

\* The rows before the first of which the user is a member are halves.
LEMMA OneFirstOwned ==
    ASSUME AInv, NEW c, NEW d, FirstOwned(c)
    PROVE  /\ FirstOwned(d) => c = d
           /\ First(d) /\ c # d => Account!Halves # {}
<1>1. PICK k \in 1..Len(saved) :
        /\ saved[k] = c /\ c \in owners
        /\ \A j \in 1..Len(saved) : j < k => saved[j] \notin owners /\ Failed(saved[j])
  BY DEF FirstOwned
<1>2. Len(saved) \in Nat /\ \A j \in 1..Len(saved) : saved[j] \in Askers
  <2>1. saved \in Seq(Askers)
    BY DEF AInv, AccountTyped
  <2>. QED
    BY <2>1
<1>3. ASSUME FirstOwned(d) PROVE c = d
  <2>1. PICK n \in 1..Len(saved) :
          /\ saved[n] = d /\ d \in owners
          /\ \A j \in 1..Len(saved) : j < n => saved[j] \notin owners /\ Failed(saved[j])
    BY <1>3 DEF FirstOwned
  <2>2. ~(k < n) /\ ~(n < k)
    BY <1>1, <2>1
  <2>3. k = n
    BY <2>2, <1>2
  <2>. QED
    BY <2>3, <1>1, <2>1
<1>4. ASSUME First(d), c # d PROVE Account!Halves # {}
  <2>1. 1 \in 1..Len(saved) /\ saved[1] = d
    BY <1>4, <1>2 DEF First
  <2>2. 1 < k
    BY <1>1, <1>2, <1>4, <2>1
  <2>3. d \in Askers /\ d \notin owners /\ accountRequest[d].state = "failed"
    BY <2>1, <2>2, <1>1, <1>2 DEF Failed
  <2>4. 1 \in DOMAIN saved
    BY <2>1 DEF AInv, AccountTyped
  <2>. QED
    BY <2>1, <2>3, <2>4 DEF Account!Halves, Askers
<1>. QED
  BY <1>3, <1>4

\* Two answers that had no company name one chat, or one service sees a half chat
\* that the other does not.
LEMMA SavedIsOne == AInv /\ AnsweredBefore => Account!OneSavedChat
<1> SUFFICES ASSUME AInv, AnsweredBefore,
                    NEW r \in Account!AnsweredIn(Askers), NEW q \in before[r],
                    r \notin company, q \notin company,
                    accountRequest[q].chat # accountRequest[r].chat
             PROVE  Account!Halves # {} /\ (r \in Lists) # (q \in Lists)
  BY DEF Account!OneSavedChat, Askers
<1>1. /\ r \in Askers \ company /\ q \in Askers \ company
      /\ accountRequest[r].state = "answered" /\ accountRequest[q].state = "answered"
  BY DEF Account!AnsweredIn, AnsweredBefore
<1>2. \A p \in {q, r} : IF p \in Lists THEN FirstOwned(accountRequest[p].chat)
                                       ELSE First(accountRequest[p].chat)
  BY <1>1 DEF AInv, FoundFirst
<1>3. CASE r \in Lists /\ q \in Lists
  BY <1>2, <1>3, OneFirstOwned
<1>4. CASE r \notin Lists /\ q \notin Lists
  BY <1>2, <1>4 DEF First
<1>5. CASE r \in Lists /\ q \notin Lists
  <2>1. FirstOwned(accountRequest[r].chat) /\ First(accountRequest[q].chat)
    BY <1>2, <1>5
  <2>. QED
    BY <2>1, <1>5, OneFirstOwned
<1>6. CASE r \notin Lists /\ q \in Lists
  <2>1. FirstOwned(accountRequest[q].chat) /\ First(accountRequest[r].chat)
    BY <1>2, <1>6
  <2>. QED
    BY <2>1, <1>6, OneFirstOwned
<1>. QED
  BY <1>3, <1>4, <1>5, <1>6

-------------------------------------------------------------------------------
(* E-mailed codes: the code of the newest mail is the one Redis has.       *)

Senders == Code!Sends

EarlyStates == {"idle", "totp", "pending_login", "pending_verify", "store", "generated"}
SendStates  == EarlyStates \cup {"stored", "cooling", "mailed", "done", "unsent"}

EntryStates == {"idle", "login", "verify_email", "verified", "challenged", "in", "failed"}

CodeTyped ==
    /\ otp \in [code : Senders \cup {"none"}, purpose : Code!Purposes, attempts : Nat]
    /\ send \in [Senders -> [state : SendStates, purpose : Code!Purposes]]
    /\ entry \in [Two -> [state : EntryStates, code : Senders \cup {"none"}]]
    /\ newest \in Senders \cup {"none"} /\ spent \subseteq Senders
    /\ sendsOverlapped \subseteq Senders

Early(s)   == send[s].state \in EarlyStates
Sending(s) == send[s].state \in {"stored", "cooling"}
Runs(s)    == send[s].state \notin {"idle", "done", "unsent"}

\* A code is stored once, and redeemed once.
CodesAreFresh ==
    /\ \A s \in Senders : Early(s) => s # otp.code /\ s \notin spent
    /\ otp.code \notin spent /\ (otp.code = "none" => otp = Code!NoOtp)
    /\ \A e \in Two : entry[e].code = "none" \/ entry[e].code \in spent
    /\ \A d, e \in Two : (d # e /\ entry[d].code = entry[e].code) => entry[d].code = "none"

\* A send that overlaps no other runs alone, and until it has sent its mail its code
\* is the one Redis has, or none is.
SendsAlone ==
    \A s \in Senders \ sendsOverlapped : Runs(s) => \A p \in Senders : Runs(p) => p = s

OwnCode ==
    \A s \in Senders : Sending(s) =>
        /\ otp.code = s => otp.purpose = send[s].purpose
        /\ s \notin sendsOverlapped => \/ otp.code = s
                                       \/ otp.code = "none" /\ s \in spent

\* As long as every login ran apart from other sends, and every code that was stored was
\* mailed, the code in Redis is for the flow the user was asked to finish, and a resend
\* renews it for that flow.
Calmly ==
    /\ \A s \in Logins : s \notin sendsOverlapped
    /\ \A s \in Senders : send[s].state # "unsent"

Followed ==
    /\ (\A s \in Logins : ~Sending(s)) /\ otp.code # "none" => otp.purpose = flow
    /\ \A s \in Resends :
          /\ send[s].state \in {"store", "generated"} => flow = send[s].purpose
          /\ send[s].state = "pending_verify" /\ send[s].purpose = "login" => flow = "login"

\* What CodeWorksOnce says of the newest mail.
NewestWorks ==
    newest # "none" /\ flow # "none" /\ newest \notin spent \cup sendsOverlapped =>
        \/ /\ otp.code = newest
           /\ \/ otp.purpose = flow
              \/ newest \in Resends /\ (Code!Unsent # {} \/ sendsOverlapped \cap Logins # {})
        \/ \E s \in Code!Unsent : s = otp.code \/ s \in spent

CInv == CodeTyped /\ CodesAreFresh /\ SendsAlone /\ OwnCode /\ (Calmly => Followed) /\ NewestWorks

LEMMA CodeInit == Code!Init => CInv
<1> SUFFICES ASSUME Code!Init PROVE CInv
  OBVIOUS
<1>1. /\ otp = [code |-> "none", purpose |-> "login", attempts |-> 0]
      /\ spent = {} /\ sendsOverlapped = {} /\ newest = "none"
      /\ send = [s \in Senders |-> [state |-> "idle", purpose |-> "login"]]
      /\ entry = [e \in Two |-> [state |-> "idle", code |-> "none"]]
  BY DEF Code!Init, Code!NoOtp, Code!NoCode, Senders
<1>2. "none" \notin Senders
  BY ServicesAssumption DEF Senders, Code!Sends
<1>3. CodeTyped
  BY <1>1 DEF CodeTyped, Code!Purposes, SendStates, EarlyStates, EntryStates
<1>4. CodesAreFresh
  BY <1>1, <1>2 DEF CodesAreFresh, Code!NoOtp, Code!NoCode
<1>5. \A s \in Senders : send[s].state = "idle"
  BY <1>1
<1>6. Logins \subseteq Senders /\ Resends \subseteq Senders
  BY DEF Senders, Code!Sends
<1>7. SendsAlone /\ OwnCode /\ Followed /\ NewestWorks
  BY <1>1, <1>5, <1>6 DEF SendsAlone, OwnCode, Followed, NewestWorks, Runs, Sending
<1>. QED
  BY <1>3, <1>4, <1>7 DEF CInv

\* A send moves on, or begins.
LEMMA SendMoves ==
    ASSUME CInv, NEW s \in Senders, NEW state \in SendStates, NEW purpose \in Code!Purposes,
           send' = [send EXCEPT ![s] = [state |-> state, purpose |-> purpose]],
           sendsOverlapped \subseteq sendsOverlapped', sendsOverlapped' \subseteq Senders,
           UNCHANGED <<otp, entry, newest, flow, spent>>,
           send[s].state \notin {"done", "unsent"},
           state \in EarlyStates => Early(s),
           state \in {"stored", "cooling"} => Sending(s) /\ purpose = send[s].purpose,
           Sending(s) <=> state \in {"stored", "cooling", "unsent"},
           \/ sendsOverlapped' = sendsOverlapped /\ Runs(s)
           \/ sendsOverlapped' = sendsOverlapped /\ \A p \in Senders : ~Runs(p)
           \/ \A p \in Senders : Runs(p) \/ p = s => p \in sendsOverlapped',
           Calmly /\ s \in Resends =>
               /\ state \in {"store", "generated"} => flow = purpose
               /\ state = "pending_verify" /\ purpose = "login" => flow = "login"
    PROVE  CInv'
<1>1. /\ send' \in [Senders -> [state : SendStates, purpose : Code!Purposes]]
      /\ send'[s].state = state /\ send'[s].purpose = purpose
      /\ \A p \in Senders : p = s \/ send'[p] = send[p]
  BY DEF CInv, CodeTyped
<1>2. CodeTyped'
  BY <1>1 DEF CInv, CodeTyped
<1>3. \A p \in Senders : (Early(p)' => Early(p)) /\ (p = s \/ (Runs(p)' <=> Runs(p)))
  BY <1>1 DEF Early, Runs
<1>4. CodesAreFresh'
  BY <1>3 DEF CInv, CodesAreFresh
<1>5. SendsAlone'
  BY <1>3 DEF CInv, SendsAlone
<1>6. \A p \in Senders : Sending(p)' => Sending(p) /\ send'[p].purpose = send[p].purpose
  BY <1>1 DEF Sending
<1>7. OwnCode'
  BY <1>6 DEF CInv, OwnCode
<1>8. Code!Unsent' = Code!Unsent
  BY <1>1 DEF Code!Unsent, Senders, Sending
<1>9. Calmly' => Followed'
  <2> SUFFICES ASSUME Calmly' PROVE Followed'
    OBVIOUS
  <2>1. state # "unsent" /\ Calmly
    BY <1>1 DEF Calmly
  <2>2. \A p \in Senders : Sending(p)' <=> Sending(p)
    BY <2>1, <1>1 DEF Sending
  <2>3. Logins \subseteq Senders /\ Resends \subseteq Senders
    BY DEF Senders, Code!Sends
  <2>4. (\A p \in Logins : ~Sending(p)') /\ otp.code # "none" => otp.purpose = flow
    BY <2>1, <2>2, <2>3 DEF CInv, Followed
  <2>5. ASSUME NEW p \in Resends
        PROVE  /\ send'[p].state \in {"store", "generated"} => flow = send'[p].purpose
               /\ send'[p].state = "pending_verify" /\ send'[p].purpose = "login" => flow = "login"
    BY <2>1, <2>3, <1>1 DEF CInv, Followed
  <2>. QED
    BY <2>4, <2>5 DEF Followed
<1>10. NewestWorks'
  BY <1>8 DEF CInv, NewestWorks
<1>. QED
  BY <1>2, <1>4, <1>5, <1>7, <1>9, <1>10 DEF CInv

\* Neither the codes nor the sends change.
LEMMA CodesRest ==
    ASSUME CInv, UNCHANGED <<otp, send, newest, flow, spent, sendsOverlapped>>,
           entry' \in [Two -> [state : EntryStates, code : Senders \cup {"none"}]],
           \A e \in Two : entry'[e].code = entry[e].code
    PROVE  CInv'
<1>1. Code!Unsent' = Code!Unsent
  BY DEF Code!Unsent
<1>2. \A s : (Early(s)' <=> Early(s)) /\ (Runs(s)' <=> Runs(s)) /\ (Sending(s)' <=> Sending(s))
  BY DEF Early, Runs, Sending
<1>3. CodeTyped' /\ CodesAreFresh'
  BY <1>2 DEF CInv, CodeTyped, CodesAreFresh
<1>4. SendsAlone' /\ OwnCode'
  BY <1>2 DEF CInv, SendsAlone, OwnCode
<1>5. Calmly' => Followed'
  BY <1>2 DEF CInv, Calmly, Followed
<1>6. NewestWorks'
  BY <1>1 DEF CInv, NewestWorks
<1>. QED
  BY <1>3, <1>4, <1>5, <1>6 DEF CInv

\* storeAndSendEmailOtp stores the code.
LEMMA StoreCodeKeeps == ASSUME CInv, NEW s \in Senders, Code!StoreCode(s) PROVE CInv'
<1>1. /\ send[s].state = "generated" /\ send' = [send EXCEPT ![s].state = "stored"]
      /\ otp' = [code |-> s, purpose |-> send[s].purpose, attempts |-> 0]
      /\ UNCHANGED <<entry, newest, flow, spent, sendsOverlapped>>
  BY DEF Code!StoreCode, Code!Move, Code!user
<1>2. /\ send' \in [Senders -> [state : SendStates, purpose : Code!Purposes]]
      /\ send'[s].state = "stored" /\ send'[s].purpose = send[s].purpose
      /\ \A p \in Senders : p = s \/ send'[p] = send[p]
  BY <1>1 DEF CInv, CodeTyped, SendStates
<1>3. s # "none" /\ s \notin spent /\ otp'.code = s /\ otp'.purpose = send[s].purpose
  BY <1>1, ServicesAssumption DEF Senders, Code!Sends, CInv, CodesAreFresh, Early, EarlyStates
<1>4. CodeTyped'
  <2>1. otp' \in [code : Senders \cup {"none"}, purpose : Code!Purposes, attempts : Nat]
    BY <1>1 DEF CInv, CodeTyped
  <2>. QED
    BY <2>1, <1>1, <1>2 DEF CInv, CodeTyped
<1>5. CodesAreFresh'
  <2>1. \A p \in Senders : Early(p)' => Early(p) /\ p # s
    BY <1>2 DEF Early, EarlyStates
  <2>. QED
    BY <2>1, <1>1, <1>3 DEF CInv, CodesAreFresh
<1>6. \A p \in Senders : Runs(p)' <=> Runs(p)
  BY <1>1, <1>2 DEF Runs
<1>7. SendsAlone'
  BY <1>1, <1>6 DEF CInv, SendsAlone
<1>8. \A p \in Senders \ sendsOverlapped : Runs(p) => p = s
  BY <1>1 DEF CInv, SendsAlone, Runs
<1>9. OwnCode'
  <2>1. \A p \in Senders : Sending(p)' => p = s \/ Sending(p)
    BY <1>2 DEF Sending
  <2>2. \A p \in Senders : Sending(p) => Runs(p)
    BY DEF Sending, Runs
  <2>. QED
    BY <2>1, <2>2, <1>1, <1>2, <1>3, <1>8 DEF OwnCode
<1>10. Calmly' => Followed'
  <2> SUFFICES ASSUME Calmly' PROVE Followed'
    OBVIOUS
  <2>1. Calmly
    BY <1>1, <1>2 DEF Calmly
  <2>2. (\A p \in Logins : ~Sending(p)') => otp'.purpose = flow
    <3> SUFFICES ASSUME \A p \in Logins : ~Sending(p)' PROVE otp'.purpose = flow
      OBVIOUS
    <3>1. s \in Resends
      BY <1>2 DEF Senders, Code!Sends, Sending
    <3>. QED
      BY <3>1, <2>1, <1>1 DEF CInv, Followed
  <2>3. \A p \in Resends : send'[p].state \in {"store", "generated", "pending_verify"}
                             => send'[p] = send[p]
    BY <1>2 DEF Senders, Code!Sends
  <2>. QED
    BY <2>1, <2>2, <2>3, <1>1 DEF CInv, Followed
<1>11. NewestWorks'
  <2>1. s \in Code!Unsent'
    BY <1>2 DEF Code!Unsent, Senders
  <2>. QED
    BY <2>1, <1>3 DEF NewestWorks
<1>. QED
  BY <1>4, <1>5, <1>7, <1>9, <1>10, <1>11 DEF CInv

\* ... and sends the mail.
LEMMA SendMailKeeps == ASSUME CInv, NEW s \in Senders, Code!SendMail(s) PROVE CInv'
<1>1. /\ send[s].state = "cooling" /\ newest' = s
      /\ UNCHANGED <<otp, entry, spent, sendsOverlapped>>
      /\ s \in Resends => flow' = flow /\ send' = [send EXCEPT ![s].state = "mailed"]
      /\ s \notin Resends =>
            /\ flow' = send[s].purpose
            /\ send' = [send EXCEPT ![s] = [state |-> "done", purpose |-> "login"]]
  BY DEF Code!SendMail, Code!Move, Code!End, Code!redis
<1>2. /\ send' \in [Senders -> [state : SendStates, purpose : Code!Purposes]]
      /\ send'[s].state \in {"mailed", "done"}
      /\ \A p \in Senders : p = s \/ send'[p] = send[p]
  BY <1>1 DEF CInv, CodeTyped, SendStates, Code!Purposes
<1>3. Runs(s) /\ Sending(s)
  BY <1>1 DEF Runs, Sending
<1>4. s # "none"
  BY ServicesAssumption DEF Senders, Code!Sends
<1>5. CodeTyped'
  BY <1>1, <1>2 DEF CInv, CodeTyped
<1>6. CodesAreFresh'
  <2>1. \A p \in Senders : Early(p)' => Early(p)
    BY <1>2 DEF Early, EarlyStates
  <2>. QED
    BY <2>1, <1>1 DEF CInv, CodesAreFresh
<1>7. \A p \in Senders : Runs(p)' => Runs(p)
  BY <1>2, <1>3 DEF Runs
<1>8. SendsAlone'
  BY <1>1, <1>7 DEF CInv, SendsAlone
<1>9. \A p \in Senders : Sending(p)' => Sending(p) /\ send'[p] = send[p]
  BY <1>2 DEF Sending
<1>10. OwnCode'
  BY <1>1, <1>9 DEF CInv, OwnCode
<1>11. /\ otp.code = s => otp.purpose = send[s].purpose
       /\ s \notin sendsOverlapped => otp.code = s \/ (otp.code = "none" /\ s \in spent)
  BY <1>3 DEF CInv, OwnCode
<1>12. Calmly' => Calmly
  BY <1>1, <1>2 DEF Calmly
<1>13. s \in Logins => s \notin Resends
  BY ServicesAssumption
<1>14. ASSUME Calmly, s \in Logins, NEW p \in Senders, Runs(p) PROVE p = s
  BY <1>14, <1>3 DEF Calmly, CInv, SendsAlone
<1>15. Calmly' => Followed'
  <2> SUFFICES ASSUME Calmly' PROVE Followed'
    OBVIOUS
  <2>1. ASSUME \A p \in Logins : ~Sending(p)', otp.code # "none" PROVE otp.purpose = flow'
    <3>1. CASE s \in Logins
      BY <3>1, <2>1, <1>1, <1>11, <1>12, <1>13 DEF Calmly
    <3>2. CASE s \notin Logins
      <4>1. s \in Resends
        BY <3>2 DEF Senders, Code!Sends
      <4>2. \A p \in Logins : ~Sending(p)
        BY <2>1, <3>2, <1>2 DEF Sending, Senders, Code!Sends
      <4>. QED
        BY <4>1, <4>2, <2>1, <1>1, <1>12 DEF CInv, Followed
    <3>. QED
      BY <3>1, <3>2
  <2>2. ASSUME NEW p \in Resends, send'[p].state \in {"store", "generated", "pending_verify"}
        PROVE  flow' = flow /\ send'[p] = send[p]
    <3>1. p \in Senders
      BY DEF Senders, Code!Sends
    <3>2. send'[p] = send[p] /\ p # s /\ Runs(p)
      BY <3>1, <2>2, <1>2 DEF Runs
    <3>3. s \notin Logins
      BY <3>1, <3>2, <1>12, <1>14
    <3>4. s \in Resends
      BY <3>3 DEF Senders, Code!Sends
    <3>. QED
      BY <3>2, <3>4, <1>1
  <2>. QED
    BY <2>1, <2>2, <1>1, <1>12 DEF CInv, Followed
<1>16. NewestWorks'
  <2> SUFFICES ASSUME s \notin spent, s \notin sendsOverlapped
               PROVE  /\ otp.code = s
                      /\ \/ otp.purpose = flow'
                         \/ s \in Resends /\ (Code!Unsent' # {} \/ sendsOverlapped \cap Logins # {})
    BY <1>1 DEF NewestWorks
  <2>1. otp.code = s /\ otp.purpose = send[s].purpose
    BY <1>11
  <2>2. CASE s \notin Resends
    BY <2>1, <2>2, <1>1
  <2>3. CASE s \in Resends /\ sendsOverlapped \cap Logins = {} /\ Code!Unsent' = {}
    <3>1. \A p \in Senders : send'[p].state \notin {"stored", "cooling", "unsent"}
      BY <2>3 DEF Code!Unsent, Senders
    <3>2. \A p \in Senders : p = s \/ send[p].state \notin {"stored", "cooling", "unsent"}
      BY <3>1, <1>2
    <3>3. Calmly
      BY <3>2, <2>3, <1>1 DEF Calmly
    <3>4. \A p \in Logins : ~Sending(p)
      BY <3>2, <2>3, <1>13 DEF Sending, Senders, Code!Sends
    <3>. QED
      BY <3>3, <3>4, <2>1, <2>3, <1>1, <1>4 DEF CInv, Followed
  <2>. QED
    BY <2>1, <2>2, <2>3
<1>. QED
  BY <1>5, <1>6, <1>8, <1>10, <1>15, <1>16 DEF CInv

\* A wrong entry counts against the code; a right one, and ten minutes, remove it.
LEMMA CodeGoes ==
    ASSUME CInv, UNCHANGED <<send, newest, flow, sendsOverlapped>>,
           otp.code # "none",
           \/ /\ otp' = [otp EXCEPT !.attempts = @ + 1] /\ UNCHANGED <<spent, entry>>
           \/ /\ otp' = Code!NoOtp /\ spent' = spent \cup {otp.code} /\ UNCHANGED entry
           \/ /\ otp' = Code!NoOtp /\ spent' = spent \cup {otp.code}
              /\ \E e \in Two : entry' = [entry EXCEPT ![e] = [state |-> flow, code |-> otp.code]]
              /\ flow \in Code!Purposes
    PROVE  CInv'
<1>1. otp.code \in Senders /\ otp.code \notin spent
  BY DEF CInv, CodeTyped, CodesAreFresh
<1>2. \/ otp'.code = otp.code /\ otp'.purpose = otp.purpose /\ spent' = spent
      \/ otp'.code = "none" /\ spent' = spent \cup {otp.code}
  BY DEF CInv, CodeTyped, Code!NoOtp, Code!NoCode
<1>3. \A s : (Early(s)' <=> Early(s)) /\ (Runs(s)' <=> Runs(s)) /\ (Sending(s)' <=> Sending(s))
  BY DEF Early, Runs, Sending
<1>4. Code!Unsent' = Code!Unsent
  BY DEF Code!Unsent
<1>5. "none" \notin Senders
  BY ServicesAssumption DEF Senders, Code!Sends
<1>6. CodeTyped'
  <2>1. otp' \in [code : Senders \cup {"none"}, purpose : Code!Purposes, attempts : Nat]
    BY DEF CInv, CodeTyped, Code!NoOtp, Code!NoCode, Code!Purposes
  <2>2. entry' \in [Two -> [state : EntryStates, code : Senders \cup {"none"}]]
    BY <1>1 DEF CInv, CodeTyped, Code!Purposes, EntryStates
  <2>. QED
    BY <2>1, <2>2, <1>1 DEF CInv, CodeTyped
<1>7. CodesAreFresh'
  <2>1. \A s \in Senders : Early(s)' => s # otp'.code /\ s \notin spent'
    BY <1>2, <1>3, <1>5 DEF CInv, CodesAreFresh
  <2>2. otp'.code \notin spent' /\ (otp'.code = "none" => otp' = Code!NoOtp)
    BY <1>2, <1>1, <1>5 DEF CInv, CodeTyped, CodesAreFresh
  <2>3. /\ \A e \in Two : entry'[e].code = "none" \/ entry'[e].code \in spent'
        /\ \A d, e \in Two : (d # e /\ entry'[d].code = entry'[e].code) => entry'[d].code = "none"
    <3>1. CASE UNCHANGED entry
      BY <3>1 DEF CInv, CodesAreFresh
    <3>2. CASE /\ spent' = spent \cup {otp.code}
               /\ \E e \in Two : entry' = [entry EXCEPT ![e] = [state |-> flow, code |-> otp.code]]
      BY <3>2, <1>1 DEF CInv, CodeTyped, CodesAreFresh
    <3>. QED
      BY <3>1, <3>2
  <2>. QED
    BY <2>1, <2>2, <2>3 DEF CodesAreFresh
<1>8. SendsAlone'
  BY <1>3 DEF CInv, SendsAlone
<1>9. OwnCode'
  BY <1>2, <1>3, <1>5 DEF CInv, OwnCode
<1>10. Calmly' => Followed'
  BY <1>2, <1>3 DEF CInv, Calmly, Followed
<1>11. NewestWorks'
  BY <1>2, <1>4 DEF CInv, NewestWorks
<1>. QED
  BY <1>6, <1>7, <1>8, <1>9, <1>10, <1>11 DEF CInv

LEMMA SendStep ==
    ASSUME CInv, NEW s \in Senders,
           \/ s \in Logins /\ (Code!Login(s) \/ Code!ReadTotp(s))
           \/ s \in Resends /\ \/ Code!Resend(s) \/ Code!LookForLogin(s)
                               \/ Code!LookForVerify(s) \/ Code!CountResend(s)
           \/ Code!CheckCooldown(s) \/ Code!SetCooldown(s) \/ Code!Stop(s)
    PROVE  CInv'
<1> DEFINE Still == UNCHANGED <<otp, entry, newest, flow, spent>>
           Goes(state, purpose) ==
               send' = [send EXCEPT ![s] = [state |-> state, purpose |-> purpose]]
<1>1. send[s].state \in SendStates /\ send[s].purpose \in Code!Purposes
  BY DEF CInv, CodeTyped
<1>2. \A state : send' = [send EXCEPT ![s].state = state] => Goes(state, send[s].purpose)
  BY ZenonT(60) DEF CInv, CodeTyped
<1>3. /\ "login" \in Code!Purposes /\ "verify_email" \in Code!Purposes
      /\ \A p \in Code!Purposes : p = "login" \/ p = "verify_email"
  BY DEF Code!Purposes
<1>4. Code!Running \subseteq Senders /\ \A p \in Senders : p \in Code!Running <=> Runs(p)
  BY DEF Code!Running, Runs, Senders
<1>5. sendsOverlapped \subseteq Senders
  BY DEF CInv, CodeTyped
<1>6. s \in Resends => s \notin Logins
  BY ServicesAssumption
<1>7. ASSUME NEW state \in {"totp", "store", "done", "pending_login"}, NEW purpose \in Code!Purposes,
             Code!Begin(s, purpose, state), Still, s \in Resends => state \in {"done", "pending_login"}
      PROVE  CInv'
  <2>1. /\ send[s].state = "idle" /\ Goes(state, purpose)
        /\ sendsOverlapped' = sendsOverlapped \cup (IF Code!Running = {} THEN {}
                                                    ELSE Code!Running \cup {s})
    BY <1>7 DEF Code!Begin
  <2>2. /\ sendsOverlapped \subseteq sendsOverlapped' /\ sendsOverlapped' \subseteq Senders
        /\ \/ sendsOverlapped' = sendsOverlapped /\ \A p \in Senders : ~Runs(p)
           \/ \A p \in Senders : Runs(p) \/ p = s => p \in sendsOverlapped'
    BY <2>1, <1>4, <1>5
  <2>3. state \in SendStates /\ Early(s) /\ ~Sending(s)
    BY <2>1 DEF SendStates, EarlyStates, Early, Sending
  <2>. QED
    BY <1>7, <2>1, <2>2, <2>3, SendMoves
<1>8. ASSUME NEW state \in SendStates, NEW purpose \in Code!Purposes, Goes(state, purpose), Still,
             UNCHANGED sendsOverlapped, Runs(s),
             state \in EarlyStates => Early(s),
             state \in {"stored", "cooling"} => Sending(s) /\ purpose = send[s].purpose,
             Sending(s) <=> state \in {"stored", "cooling", "unsent"},
             Calmly /\ s \in Resends =>
                 /\ state \in {"store", "generated"} => flow = purpose
                 /\ state = "pending_verify" /\ purpose = "login" => flow = "login"
      PROVE  CInv'
  <2>1. send[s].state \notin {"done", "unsent"}
    BY <1>8 DEF Runs
  <2>. QED
    BY <1>8, <2>1, <1>5, SendMoves
<1>9. ASSUME Calmly, s \in Resends, Runs(s), otp # Code!NoOtp PROVE otp.purpose = flow
  <2>1. \A p \in Logins : p \in Senders \ sendsOverlapped /\ p # s
    BY <1>9, <1>6 DEF Calmly, Senders, Code!Sends
  <2>2. \A p \in Logins : ~Sending(p)
    BY <2>1, <1>9 DEF CInv, SendsAlone, Runs, Sending
  <2>3. otp.code # "none"
    BY <1>9 DEF CInv, CodesAreFresh
  <2>. QED
    BY <2>2, <2>3, <1>9 DEF CInv, Followed
<1>10. CASE s \in Logins /\ Code!Login(s)
  BY <1>10, <1>3, <1>6, <1>7 DEF Code!Login, Code!redis, Code!user
<1>11. CASE s \in Logins /\ Code!ReadTotp(s)
  <2>1. /\ send[s].state = "totp" /\ Still /\ UNCHANGED sendsOverlapped
        /\ Goes("done", "login") \/ Goes("store", send[s].purpose)
    BY <1>11, <1>2 DEF Code!ReadTotp, Code!End, Code!Move, Code!redis, Code!user
  <2>. QED
    BY <2>1, <1>1, <1>3, <1>6, <1>8, <1>11 DEF SendStates, EarlyStates, Early, Sending, Runs
<1>12. CASE s \in Resends /\ Code!Resend(s)
  BY <1>12, <1>3, <1>7 DEF Code!Resend, Code!redis, Code!user
<1>13. CASE s \in Resends /\ Code!LookForLogin(s)
  <2> DEFINE purpose == IF Code!HasPending("login") THEN "login" ELSE "verify_email"
  <2>1. send[s].state = "pending_login" /\ Still /\ UNCHANGED sendsOverlapped
    BY <1>13 DEF Code!LookForLogin, Code!redis, Code!user
  <2>2. Goes("pending_verify", purpose) /\ purpose \in Code!Purposes
    BY <1>3, <1>13 DEF Code!LookForLogin
  <2>3. Runs(s) /\ Early(s) /\ ~Sending(s)
    BY <2>1 DEF Runs, Early, EarlyStates, Sending
  <2>4. Calmly /\ purpose = "login" => flow = "login"
    BY <2>3, <1>9, <1>13 DEF Code!HasPending
  <2>5. /\ "pending_verify" \in SendStates
        /\ "pending_verify" \notin {"store", "generated", "stored", "cooling", "unsent"}
    BY DEF SendStates, EarlyStates
  <2> HIDE DEF purpose, Goes
  <2>. QED
    BY <2>1, <2>2, <2>3, <2>4, <2>5, <1>8
<1>14. CASE s \in Resends /\ Code!LookForVerify(s)
  <2>1. /\ send[s].state = "pending_verify" /\ Still /\ UNCHANGED sendsOverlapped
        /\ \/ Goes("done", "login")
           \/ /\ Goes("store", send[s].purpose)
              /\ send[s].purpose = "login" \/ Code!HasPending("verify_email")
    BY <1>14, <1>2 DEF Code!LookForVerify, Code!End, Code!Move, Code!redis, Code!user
  <2>2. Runs(s) /\ Early(s) /\ ~Sending(s)
    BY <2>1 DEF Runs, Early, EarlyStates, Sending
  <2>3. CASE Goes("done", "login")
    BY <2>1, <2>2, <2>3, <1>3, <1>8 DEF SendStates, EarlyStates
  <2>4. CASE /\ Goes("store", send[s].purpose)
             /\ send[s].purpose = "login" \/ Code!HasPending("verify_email")
    <3>1. ASSUME Calmly PROVE flow = send[s].purpose
      <4>1. CASE send[s].purpose = "login"
        BY <4>1, <3>1, <2>1, <1>14 DEF CInv, Followed
      <4>2. CASE send[s].purpose # "login" /\ Code!HasPending("verify_email")
        BY <4>2, <3>1, <2>2, <1>1, <1>3, <1>9, <1>14 DEF Code!HasPending
      <4>. QED
        BY <4>1, <4>2, <2>4
    <3>2. /\ "store" \in SendStates
          /\ "store" \notin {"pending_verify", "stored", "cooling", "unsent"}
      BY DEF SendStates, EarlyStates
    <3> HIDE DEF Goes
    <3>. QED
      BY <3>1, <3>2, <2>1, <2>2, <2>4, <1>1, <1>8
  <2>. QED
    BY <2>1, <2>3, <2>4
<1>15. CASE s \in Resends /\ Code!CountResend(s)
  <2>1. send[s].state = "mailed" /\ Still /\ UNCHANGED sendsOverlapped /\ Goes("done", "login")
    BY <1>15 DEF Code!CountResend, Code!End, Code!user
  <2>. QED
    BY <2>1, <1>3, <1>8 DEF SendStates, EarlyStates, Early, Sending, Runs
<1>16. CASE Code!CheckCooldown(s)
  <2>1. /\ send[s].state = "store" /\ Still /\ UNCHANGED sendsOverlapped
        /\ Goes("done", "login") \/ Goes("generated", send[s].purpose)
    BY <1>16, <1>2 DEF Code!CheckCooldown, Code!End, Code!Move, Code!redis, Code!user
  <2>2. Calmly /\ s \in Resends => flow = send[s].purpose
    BY <2>1 DEF CInv, Followed
  <2>. QED
    BY <2>1, <2>2, <1>1, <1>3, <1>8 DEF SendStates, EarlyStates, Early, Sending, Runs
<1>17. CASE Code!SetCooldown(s)
  <2>1. /\ send[s].state = "stored" /\ Still /\ UNCHANGED sendsOverlapped
        /\ Goes("cooling", send[s].purpose)
    BY <1>17, <1>2 DEF Code!SetCooldown, Code!Move, Code!user
  <2>. QED
    BY <2>1, <1>1, <1>8 DEF SendStates, EarlyStates, Sending, Runs
<1>18. CASE Code!Stop(s)
  <2>1. /\ Runs(s) /\ Still /\ UNCHANGED sendsOverlapped
        /\ Goes(IF Sending(s) THEN "unsent" ELSE "done", "login")
    BY <1>18, <1>4 DEF Code!Stop, Code!End, Code!redis, Code!user, Sending
  <2>2. CASE Sending(s)
    BY <2>1, <2>2, <1>3, <1>8 DEF SendStates, EarlyStates
  <2>3. CASE ~Sending(s)
    <3>1. /\ "done" \in SendStates \ EarlyStates
          /\ "done" \notin {"store", "generated", "pending_verify", "stored", "cooling", "unsent"}
      BY DEF SendStates, EarlyStates
    <3>2. Goes("done", "login")
      BY <2>1, <2>3
    <3> HIDE DEF Goes
    <3>. QED
      BY <3>1, <3>2, <2>1, <2>3, <1>3, <1>8
  <2>. QED
    BY <2>2, <2>3
<1>. QED
  BY <1>10, <1>11, <1>12, <1>13, <1>14, <1>15, <1>16, <1>17, <1>18

LEMMA CodeStep == CInv /\ [Code!Next]_(Code!vars) => CInv'
<1> SUFFICES ASSUME CInv, [Code!Next]_(Code!vars) PROVE CInv'
  OBVIOUS
<1>1. Logins \subseteq Senders /\ Resends \subseteq Senders
  BY DEF Senders, Code!Sends
<1>2. ASSUME NEW e \in Two, NEW code, Code!Enter(e, code) PROVE CInv'
  <2>1. UNCHANGED <<send, newest, flow, sendsOverlapped>> /\ otp.code # "none"
    BY <1>2 DEF Code!Enter, Code!user, Code!NoCode
  <2>. QED
    BY <2>1, <1>2, CodeGoes DEF Code!Enter, Code!Redeemed
<1>3. ASSUME NEW e \in Two, Code!MarkVerified(e) \/ Code!Answer(e) \/ Code!StopEntry(e)
      PROVE  CInv'
  <2>1. PICK state \in EntryStates : entry' = [entry EXCEPT ![e].state = state]
    BY <1>3 DEF Code!MarkVerified, Code!Answer, Code!StopEntry, EntryStates
  <2>2. UNCHANGED <<otp, send, newest, flow, spent, sendsOverlapped>>
    BY <1>3 DEF Code!MarkVerified, Code!Answer, Code!StopEntry, Code!redis, Code!user
  <2>3. /\ entry' \in [Two -> [state : EntryStates, code : Senders \cup {"none"}]]
        /\ \A d \in Two : entry'[d].code = entry[d].code
    BY <2>1 DEF CInv, CodeTyped
  <2>. QED
    BY <2>2, <2>3, CodesRest
<1>4. CASE Code!ExpireCode
  <2>1. /\ otp # Code!NoOtp /\ otp' = Code!NoOtp /\ spent' = spent \cup {otp.code}
        /\ UNCHANGED <<send, newest, flow, sendsOverlapped, entry>>
    BY <1>4 DEF Code!ExpireCode, Code!user
  <2>2. otp.code # "none"
    BY <2>1 DEF CInv, CodesAreFresh
  <2>. QED
    BY <2>1, <2>2, CodeGoes
<1>5. CASE Code!ExpireCooldown \/ Code!ExpireHour \/ UNCHANGED Code!vars
  <2>1. UNCHANGED <<otp, send, newest, flow, spent, sendsOverlapped, entry>>
    BY <1>5 DEF Code!ExpireCooldown, Code!ExpireHour, Code!vars, Code!redis, Code!user
  <2>. QED
    BY <2>1, CodesRest DEF CInv, CodeTyped
<1>6. ASSUME NEW s \in Senders,
             Code!CheckCooldown(s) \/ Code!SetCooldown(s) \/ Code!Stop(s)
             \/ Code!StoreCode(s) \/ Code!SendMail(s)
      PROVE  CInv'
  BY <1>6, SendStep, StoreCodeKeeps, SendMailKeeps
<1>7. ASSUME NEW s \in Logins, Code!Login(s) \/ Code!ReadTotp(s) PROVE CInv'
  BY <1>7, <1>1, SendStep
<1>8. ASSUME NEW s \in Resends, \/ Code!Resend(s) \/ Code!LookForLogin(s)
                                \/ Code!LookForVerify(s) \/ Code!CountResend(s)
      PROVE  CInv'
  BY <1>8, <1>1, SendStep
<1>. QED
  BY <1>2, <1>3, <1>4, <1>5, <1>6, <1>7, <1>8 DEF Code!Next, Senders

-------------------------------------------------------------------------------
(* The index: every message is in one place on its way to its document.    *)

BulkType == [state : {"unused", "started", "done"}, ops : Seq(Nat), retries : Nat]

SearchTyped ==
    /\ consumed \in 0..Len(Script) /\ bulkBuffer \in Seq(Nat) /\ Len(bulkBuffer) < BULK_MAX_SIZE
    /\ bulk \in [Search!Bulks -> BulkType]
    /\ \A b \in Search!Bulks : Len(bulk[b].ops) <= BULK_MAX_SIZE /\ bulk[b].retries <= MAX_RETRIES
    /\ documents \in [Search!Events -> Nat] /\ unanswered \in [Search!Events -> Nat]
    /\ faults \in 0..MaxLosses

\* What is in a buffer was consumed, and so was what was lost.
OnlyConsumed ==
    /\ Search!EventsOf(bulkBuffer) \subseteq 1..consumed
    /\ \A b \in Search!Bulks : Search!EventsOf(bulk[b].ops) \subseteq 1..consumed
    /\ eventsLost \subseteq 1..consumed

Sends == {e \in Search!Events : Script[e] = "sent"}

\* A bulk write has one operation of a message.
OpsOnce == \A b \in Search!Started, e \in Sends : Search!Times(e, bulk[b].ops) <= 1

Holding(e) == {b \in Search!Started : e \in Search!EventsOf(bulk[b].ops)}

InOnePlace ==
    \A e \in Sends :
        documents[e] + Search!Times(e, bulkBuffer) + Cardinality(Holding(e))
          = unanswered[e] + IF e <= consumed /\ e \notin eventsLost THEN 1 ELSE 0

\* What an unanswered attempt left is in the index, and only a bulk write that has
\* started makes attempts.
Attempted ==
    \A e \in Sends :
        /\ unanswered[e] <= documents[e] /\ unanswered[e] <= MAX_RETRIES
        /\ consumed < e \/ e \in Search!EventsOf(bulkBuffer) => unanswered[e] = 0

\* The attempts of an operation and the retries that are left are MAX_RETRIES at most.
RetriesLeft ==
    \A b \in Search!Started, e \in Sends :
        e \in Search!EventsOf(bulk[b].ops) => unanswered[e] + bulk[b].retries <= MAX_RETRIES

IndexInv == SearchTyped /\ OnlyConsumed /\ OpsOnce /\ InOnePlace /\ Attempted /\ RetriesLeft

LEMMA SearchCounts == \A S : Search!Cardinality(S) = Cardinality(S)
BY DEF Search!Cardinality, Cardinality

LEMMA TimesAre ==
    ASSUME NEW s \in Seq(Nat), NEW e
    PROVE  /\ Search!Times(e, s) \in Nat
           /\ Search!Times(e, s) = 0 <=> e \notin Search!EventsOf(s)
<1> DEFINE at == {i \in DOMAIN s : s[i] = e}
<1>1. Search!Times(e, s) = Cardinality(at)
  BY SearchCounts DEF Search!Times
<1>2. IsFiniteSet(at)
  <2>1. DOMAIN s = 1..Len(s) /\ Len(s) \in Nat
    OBVIOUS
  <2>2. IsFiniteSet(1..Len(s)) /\ at \subseteq 1..Len(s)
    BY <2>1, FS_Interval
  <2>. QED
    BY <2>2, FS_Subset
<1>3. at = {} <=> e \notin Search!EventsOf(s)
  BY DEF Search!EventsOf
<1> HIDE DEF at
<1>. QED
  BY <1>1, <1>2, <1>3, FS_EmptySet, FS_CardinalityType

LEMMA TimesAppended ==
    ASSUME NEW s \in Seq(Nat), NEW x \in Nat, NEW e
    PROVE  /\ Search!Times(e, Append(s, x)) = Search!Times(e, s) + IF x = e THEN 1 ELSE 0
           /\ Search!EventsOf(Append(s, x)) = Search!EventsOf(s) \cup {x}
<1> DEFINE r == Append(s, x)
           at == {i \in DOMAIN s : s[i] = e}
           atR == {i \in DOMAIN r : r[i] = e}
<1>1. /\ DOMAIN s = 1..Len(s) /\ Len(s) \in Nat /\ DOMAIN r = 1..(Len(s) + 1)
      /\ r[Len(s) + 1] = x /\ \A i \in 1..Len(s) : r[i] = s[i]
  OBVIOUS
<1>2. Search!Times(e, s) = Cardinality(at) /\ Search!Times(e, r) = Cardinality(atR)
  BY SearchCounts DEF Search!Times
<1>3. IsFiniteSet(at) /\ Len(s) + 1 \notin at
  <2>1. IsFiniteSet(1..Len(s)) /\ at \subseteq 1..Len(s)
    BY <1>1, FS_Interval
  <2>. QED
    BY <2>1, <1>1, FS_Subset
<1>4. Search!EventsOf(r) = Search!EventsOf(s) \cup {x}
  <2> HIDE DEF r
  <2>. QED
    BY <1>1 DEF Search!EventsOf
<1>5. atR = IF x = e THEN at \cup {Len(s) + 1} ELSE at
  <2> HIDE DEF r
  <2>. QED
    BY <1>1
<1> HIDE DEF at, atR
<1>6. Cardinality(at \cup {Len(s) + 1}) = Cardinality(at) + 1
  BY <1>3, FS_AddElement
<1>7. Cardinality(at) \in Nat
  BY <1>3, FS_CardinalityType
<1>. QED
  BY <1>2, <1>4, <1>5, <1>6, <1>7

LEMMA NoTimes == \A e : Search!Times(e, <<>>) = 0 /\ Search!EventsOf(<<>>) = {}
<1>1. <<>> \in Seq(Nat) /\ Search!EventsOf(<<>>) = {}
  BY DEF Search!EventsOf
<1>. QED
  BY <1>1, TimesAre

LEMMA ScriptLength == Len(Script) \in Nat /\ Search!Events = 1..Len(Script) /\ Sends \subseteq 1..Len(Script)
BY ServicesAssumption DEF ServicesAssumption, Search!Events, Sends

LEMMA HoldingFinite == \A e : IsFiniteSet(Holding(e)) /\ Cardinality(Holding(e)) \in Nat
<1>. SUFFICES ASSUME NEW e PROVE IsFiniteSet(Holding(e)) /\ Cardinality(Holding(e)) \in Nat
  OBVIOUS
<1>1. IsFiniteSet(1..MaxBulks)
  BY ServicesAssumption, FS_Interval DEF ServicesAssumption
<1>2. Holding(e) \subseteq 1..MaxBulks
  BY DEF Holding, Search!Started, Search!Bulks
<1>. QED
  BY <1>1, <1>2, FS_Subset, FS_CardinalityType

LEMMA HoldingAfter == \A e : IsFiniteSet(Holding(e)') /\ Cardinality(Holding(e)') \in Nat
<1>. SUFFICES ASSUME NEW e PROVE IsFiniteSet(Holding(e)') /\ Cardinality(Holding(e)') \in Nat
  OBVIOUS
<1>1. IsFiniteSet(1..MaxBulks)
  BY ServicesAssumption, FS_Interval DEF ServicesAssumption
<1>2. Holding(e)' \subseteq 1..MaxBulks
  BY DEF Holding, Search!Started, Search!Bulks
<1>. QED
  BY <1>1, <1>2, FS_Subset, FS_CardinalityType

\* A bulk write that starts holds the messages of its operations.
LEMMA StartHolds ==
    ASSUME SearchTyped, OpsOnce, RetriesLeft, NEW ops \in Seq(Nat), Len(ops) <= BULK_MAX_SIZE,
           \A e \in Sends : Search!Times(e, ops) <= 1,
           \A e \in Sends : e \in Search!EventsOf(ops) => unanswered[e] = 0,
           Search!StartBulk(ops), UNCHANGED unanswered
    PROVE  /\ bulk' \in [Search!Bulks -> BulkType]
           /\ \A b \in Search!Bulks : bulk'[b].ops \in {bulk[b].ops, ops}
           /\ \A b \in Search!Bulks : bulk'[b].retries <= MAX_RETRIES
           /\ OpsOnce' /\ RetriesLeft'
           /\ \A e \in Sends :
                Cardinality(Holding(e)') = Cardinality(Holding(e)) + Search!Times(e, ops)
<1>1. PICK b \in Search!Bulks :
        /\ bulk[b].state = "unused"
        /\ bulk' = [bulk EXCEPT ![b] = [state |-> "started", ops |-> ops,
                                        retries |-> MAX_RETRIES]]
  BY DEF Search!StartBulk
<1>2. /\ bulk' \in [Search!Bulks -> BulkType]
      /\ bulk'[b].state = "started" /\ bulk'[b].ops = ops /\ bulk'[b].retries = MAX_RETRIES
      /\ MAX_RETRIES \in Nat
      /\ \A other \in Search!Bulks \ {b} : bulk'[other] = bulk[other]
  BY <1>1, ServicesAssumption DEF ServicesAssumption, SearchTyped, BulkType
<1>3. Search!Started' = Search!Started \cup {b} /\ b \notin Search!Started
  BY <1>1, <1>2 DEF Search!Started
<1>4. OpsOnce'
  BY <1>2, <1>3 DEF OpsOnce, Search!Started
<1>5. ASSUME NEW e \in Sends
      PROVE  Cardinality(Holding(e)') = Cardinality(Holding(e)) + Search!Times(e, ops)
  <2>1. Holding(e)' = IF e \in Search!EventsOf(ops) THEN Holding(e) \cup {b} ELSE Holding(e)
    BY <1>2, <1>3 DEF Holding, Search!Started
  <2>2. b \notin Holding(e)
    BY <1>3 DEF Holding
  <2>3. Cardinality(Holding(e) \cup {b}) = Cardinality(Holding(e)) + 1
    BY <2>2, HoldingFinite, FS_AddElement
  <2>4. /\ Search!Times(e, ops) \in Nat /\ Search!Times(e, ops) <= 1
        /\ Search!Times(e, ops) = 0 <=> e \notin Search!EventsOf(ops)
    BY TimesAre
  <2>. QED
    BY <2>1, <2>3, <2>4, HoldingFinite
<1>6. ASSUME NEW c \in Search!Bulks PROVE bulk'[c].retries <= MAX_RETRIES
  <2>1. CASE c = b
    BY <1>2, <2>1
  <2>2. CASE c # b
    BY <1>2, <2>2 DEF SearchTyped
  <2>. QED
    BY <2>1, <2>2
<1>7. RetriesLeft'
  <2> SUFFICES ASSUME NEW c \in Search!Started', NEW e \in Sends,
                      e \in Search!EventsOf(bulk'[c].ops)
               PROVE  unanswered[e] + bulk'[c].retries <= MAX_RETRIES
    BY DEF RetriesLeft
  <2>1. CASE c = b
    BY <1>2, <2>1
  <2>2. CASE c # b
    <3>1. c \in Search!Started /\ bulk'[c] = bulk[c]
      BY <1>2, <1>3, <2>2 DEF Search!Started
    <3>. QED
      BY <3>1 DEF RetriesLeft
  <2>. QED
    BY <2>1, <2>2
<1>. QED
  BY <1>1, <1>2, <1>4, <1>5, <1>6, <1>7

\* A bulk write that ends holds them no more.
LEMMA EndHolds ==
    ASSUME SearchTyped, OpsOnce, RetriesLeft, NEW b \in Search!Started,
           bulk' = [bulk EXCEPT ![b].state = "done"], UNCHANGED unanswered
    PROVE  /\ bulk' \in [Search!Bulks -> BulkType] /\ bulk[b].ops \in Seq(Nat)
           /\ \A other \in Search!Bulks : /\ bulk'[other].ops = bulk[other].ops
                                         /\ bulk'[other].retries = bulk[other].retries
           /\ OpsOnce' /\ RetriesLeft'
           /\ \A e \in Sends :
                Cardinality(Holding(e)) = Cardinality(Holding(e)') + Search!Times(e, bulk[b].ops)
<1>0. b \in Search!Bulks /\ bulk[b].state = "started"
  BY DEF Search!Started
<1>1. /\ bulk' \in [Search!Bulks -> BulkType] /\ bulk[b].ops \in Seq(Nat)
      /\ bulk'[b].state = "done" /\ bulk'[b].ops = bulk[b].ops
      /\ bulk'[b].retries = bulk[b].retries
      /\ \A other \in Search!Bulks \ {b} : bulk'[other] = bulk[other]
  BY <1>0 DEF SearchTyped, BulkType
<1>2. Search!Started' = Search!Started \ {b}
  BY <1>0, <1>1 DEF Search!Started
<1>3. OpsOnce'
  BY <1>0, <1>1, <1>2 DEF OpsOnce, Search!Started
<1>4. ASSUME NEW e \in Sends
      PROVE  Cardinality(Holding(e)) = Cardinality(Holding(e)') + Search!Times(e, bulk[b].ops)
  <2>1. Holding(e)' = Holding(e) \ {b}
    BY <1>1, <1>2 DEF Holding, Search!Started
  <2>2. b \in Holding(e) <=> e \in Search!EventsOf(bulk[b].ops)
    BY DEF Holding
  <2>3. b \in Holding(e) => Cardinality(Holding(e) \ {b}) = Cardinality(Holding(e)) - 1
    BY HoldingFinite, FS_RemoveElement
  <2>4. /\ Search!Times(e, bulk[b].ops) \in Nat /\ Search!Times(e, bulk[b].ops) <= 1
        /\ Search!Times(e, bulk[b].ops) = 0 <=> e \notin Search!EventsOf(bulk[b].ops)
    BY <1>1, TimesAre DEF OpsOnce
  <2>5. b \notin Holding(e) => Holding(e) \ {b} = Holding(e)
    OBVIOUS
  <2>6. Cardinality(Holding(e)) \in Nat
    BY HoldingFinite
  <2> DEFINE all == Cardinality(Holding(e))
             left == Cardinality(Holding(e) \ {b})
  <2>7. left = IF b \in Holding(e) THEN all - 1 ELSE all
    BY <2>3, <2>5
  <2>8. Cardinality(Holding(e)') = left
    BY <2>1
  <2> HIDE DEF all, left
  <2>9. Cardinality(Holding(e)') = all - Search!Times(e, bulk[b].ops)
    BY <2>2, <2>4, <2>6, <2>7, <2>8 DEF all
  <2>. QED
    BY <2>4, <2>6, <2>9 DEF all
<1>5. RetriesLeft'
  BY <1>0, <1>1, <1>2 DEF RetriesLeft, Search!Started
<1>. QED
  BY <1>0, <1>1, <1>3, <1>4, <1>5

\* What the buffer has, and what the bulk writes have, in numbers.
LEMMA Numbers ==
    ASSUME IndexInv
    PROVE  \A e \in Sends :
             /\ documents[e] \in Nat /\ unanswered[e] \in Nat /\ Cardinality(Holding(e)) \in 0..1
             /\ Search!Times(e, bulkBuffer) \in 0..1
             /\ Search!Times(e, bulkBuffer) = 0 <=> e \notin Search!EventsOf(bulkBuffer)
             /\ Search!Times(e, bulkBuffer) = 1 => (e \notin eventsLost /\ e <= consumed)
<1>. SUFFICES ASSUME NEW e \in Sends
     PROVE   /\ documents[e] \in Nat /\ unanswered[e] \in Nat /\ Cardinality(Holding(e)) \in 0..1
             /\ Search!Times(e, bulkBuffer) \in 0..1
             /\ Search!Times(e, bulkBuffer) = 0 <=> e \notin Search!EventsOf(bulkBuffer)
             /\ Search!Times(e, bulkBuffer) = 1 => (e \notin eventsLost /\ e <= consumed)
  OBVIOUS
<1>1. documents[e] \in Nat /\ unanswered[e] \in Nat /\ Cardinality(Holding(e)) \in Nat
  BY HoldingFinite DEF IndexInv, SearchTyped, Sends
<1>2. /\ Search!Times(e, bulkBuffer) \in Nat
      /\ Search!Times(e, bulkBuffer) = 0 <=> e \notin Search!EventsOf(bulkBuffer)
  BY TimesAre DEF IndexInv, SearchTyped
<1>3. documents[e] + Search!Times(e, bulkBuffer) + Cardinality(Holding(e))
          = unanswered[e] + IF e <= consumed /\ e \notin eventsLost THEN 1 ELSE 0
  BY DEF IndexInv, InOnePlace
<1>4. unanswered[e] <= documents[e]
  BY DEF IndexInv, Attempted
<1>. QED
  BY <1>1, <1>2, <1>3, <1>4

LEMMA IndexInit == Search!Init => IndexInv
<1>. SUFFICES ASSUME Search!Init PROVE IndexInv
  OBVIOUS
<1>1. SearchTyped
  BY ScriptLength, ServicesAssumption DEF ServicesAssumption, Search!Init, SearchTyped, BulkType
<1>2. Search!EventsOf(<<>>) = {} /\ \A e : Search!Times(e, <<>>) = 0
  BY NoTimes
<1>3. \A e : Holding(e) = {} /\ Search!Started = {}
  BY DEF Search!Init, Holding, Search!Started
<1>4. OnlyConsumed /\ OpsOnce /\ RetriesLeft
  BY <1>2, <1>3 DEF OnlyConsumed, OpsOnce, RetriesLeft, Search!Init
<1>5. \A e \in Sends : documents[e] = 0 /\ unanswered[e] = 0
  BY DEF Search!Init, Sends
<1>6. InOnePlace
  <2>1. \A e : Cardinality(Holding(e)) = 0
    BY <1>3, FS_EmptySet
  <2>2. ASSUME NEW e \in Sends PROVE ~(e <= consumed)
    BY ScriptLength DEF Search!Init
  <2>. QED
    BY <1>2, <1>5, <2>1, <2>2 DEF InOnePlace, Search!Init
<1>7. Attempted
  BY <1>5, ServicesAssumption DEF ServicesAssumption, Attempted
<1>. QED
  BY <1>1, <1>4, <1>6, <1>7 DEF IndexInv

\* A handler: its event goes into the buffer, and a full buffer into a bulk write.
LEMMA ConsumeKeeps == ASSUME IndexInv, Search!Consume PROVE IndexInv'
<1> DEFINE next == consumed + 1
           buffer == Append(bulkBuffer, next)
<1>1. /\ consumed \in Nat /\ next \in 1..Len(Script) /\ consumed' = next
      /\ UNCHANGED <<documents, unanswered, eventsLost, faults>>
  BY ScriptLength DEF IndexInv, SearchTyped, Search!Consume
<1>2. bulkBuffer \in Seq(Nat) /\ buffer \in Seq(Nat) /\ Len(buffer) = Len(bulkBuffer) + 1
  BY <1>1 DEF IndexInv, SearchTyped
<1>3. /\ \A e : Search!Times(e, buffer) = Search!Times(e, bulkBuffer) + IF next = e THEN 1 ELSE 0
      /\ Search!EventsOf(buffer) = Search!EventsOf(bulkBuffer) \cup {next}
  BY <1>1, <1>2, TimesAppended
<1>4. next \notin eventsLost /\ ~(next <= consumed)
  BY <1>1 DEF IndexInv, OnlyConsumed
<1>5. \A e \in Sends : (e = next => Script[next] = "sent") /\ e \in 1..Len(Script)
  BY ScriptLength DEF Sends
<1>6. \A e \in Sends :
        documents[e] + Search!Times(e, bulkBuffer) + Cardinality(Holding(e))
          = unanswered[e] + IF e <= consumed /\ e \notin eventsLost THEN 1 ELSE 0
  BY DEF IndexInv, InOnePlace
<1>7. /\ Search!EventsOf(buffer) \subseteq 1..next /\ eventsLost \subseteq 1..next
      /\ Search!EventsOf(bulkBuffer) \subseteq 1..next
      /\ \A b \in Search!Bulks : Search!EventsOf(bulk[b].ops) \subseteq 1..next
  <2>1. 1..consumed \subseteq 1..next /\ next \in 1..next
    BY <1>1
  <2> HIDE DEF next, buffer
  <2>. QED
    BY <2>1, <1>3 DEF IndexInv, OnlyConsumed
<1>13. /\ \A e \in Sends : e \in Search!EventsOf(buffer) \/ next < e => unanswered[e] = 0
      /\ Attempted /\ RetriesLeft
  <2>1. \A e \in Sends : e \in Nat /\ (consumed < e \/ e \in Search!EventsOf(bulkBuffer)
                                          => unanswered[e] = 0)
    BY <1>5 DEF IndexInv, Attempted
  <2>2. \A e \in Sends : (e = next \/ next < e) => consumed < e
    BY <1>1, <2>1
  <2> HIDE DEF buffer, next
  <2>. QED
    BY <1>3, <2>1, <2>2 DEF IndexInv
<1>8. ASSUME Script[next] = "edited", UNCHANGED <<bulkBuffer, bulk>> PROVE IndexInv'
  <2>1. SearchTyped' /\ OpsOnce'
    BY <1>1, <1>8 DEF IndexInv, SearchTyped, OpsOnce, Search!Started
  <2>2. OnlyConsumed'
    BY <1>1, <1>8, <1>7 DEF OnlyConsumed
  <2>3. \A e : Holding(e)' = Holding(e)
    BY <1>8 DEF Holding, Search!Started
  <2>4. InOnePlace'
    BY <1>1, <1>4, <1>5, <1>6, <1>8, <2>3 DEF InOnePlace
  <2>5. Attempted' /\ RetriesLeft'
    <3>1. \A e \in Sends : e \in Search!EventsOf(bulkBuffer) => unanswered[e] = 0
      BY <1>13 DEF Attempted
    <3>. QED
      BY <1>1, <1>8, <1>13, <3>1 DEF Attempted, RetriesLeft, Search!Started
  <2>. QED
    BY <2>1, <2>2, <2>4, <2>5 DEF IndexInv
<1>9. \A e \in Sends : Search!Times(e, buffer) \in 0..1 /\ (e = next => Search!Times(e, bulkBuffer) = 0)
  BY <1>1, <1>3, <1>4, Numbers
<1>10. \A e \in Sends :
        documents[e] + Search!Times(e, buffer) + Cardinality(Holding(e))
          = unanswered[e] + IF e <= next /\ e \notin eventsLost THEN 1 ELSE 0
  BY <1>1, <1>3, <1>4, <1>5, <1>6, <1>9, Numbers
<1>11. ASSUME Len(buffer) >= BULK_MAX_SIZE, Search!StartBulk(buffer), bulkBuffer' = <<>>
       PROVE  IndexInv'
  <2>1. Len(buffer) <= BULK_MAX_SIZE /\ SearchTyped /\ OpsOnce
    BY <1>2, ServicesAssumption DEF ServicesAssumption, IndexInv, SearchTyped
  <2>2. \A e \in Sends : Search!Times(e, buffer) <= 1
    BY <1>9
  <2>3. /\ bulk' \in [Search!Bulks -> BulkType]
        /\ \A b \in Search!Bulks : bulk'[b].ops \in {bulk[b].ops, buffer}
        /\ \A b \in Search!Bulks : bulk'[b].retries <= MAX_RETRIES
        /\ OpsOnce' /\ RetriesLeft'
        /\ \A e \in Sends :
             Cardinality(Holding(e)') = Cardinality(Holding(e)) + Search!Times(e, buffer)
    <3> HIDE DEF buffer
    <3>. QED
      BY <1>1, <1>2, <1>11, <1>13, <2>1, <2>2, StartHolds
  <2>4. Search!EventsOf(<<>>) = {} /\ \A e : Search!Times(e, <<>>) = 0
    BY NoTimes
  <2>5. SearchTyped'
    <3>1. <<>> \in Seq(Nat) /\ Len(<<>>) = 0 /\ BULK_MAX_SIZE \in Nat \ {0}
      BY ServicesAssumption DEF ServicesAssumption
    <3>2. \A b \in Search!Bulks : Len(bulk'[b].ops) <= BULK_MAX_SIZE
      BY <2>1, <2>3 DEF SearchTyped
    <3>. QED
      BY <1>1, <1>11, <2>1, <2>3, <3>1, <3>2, ScriptLength DEF SearchTyped
  <2>6. OnlyConsumed'
    <3>1. \A b \in Search!Bulks : Search!EventsOf(bulk'[b].ops) \subseteq 1..next
      BY <1>7, <2>3
    <3>. QED
      BY <1>1, <1>7, <1>11, <2>4, <3>1 DEF OnlyConsumed
  <2>7. InOnePlace'
    <3> HIDE DEF buffer, next
    <3>. SUFFICES ASSUME NEW e \in Sends
         PROVE documents[e] + 0 + Cardinality(Holding(e)')
                 = unanswered[e] + IF e <= next /\ e \notin eventsLost THEN 1 ELSE 0
      BY <1>1, <1>11, <2>4 DEF InOnePlace
    <3>1. /\ Search!Times(e, buffer) \in Nat /\ documents[e] \in Nat /\ unanswered[e] \in Nat
          /\ Cardinality(Holding(e)) \in Nat
      BY <1>9, Numbers
    <3>2. Cardinality(Holding(e)') = Cardinality(Holding(e)) + Search!Times(e, buffer)
      BY <2>3
    <3>3. documents[e] + Search!Times(e, buffer) + Cardinality(Holding(e))
            = unanswered[e] + IF e <= next /\ e \notin eventsLost THEN 1 ELSE 0
      BY <1>10
    <3>. QED
      BY <3>1, <3>2, <3>3
  <2>8. Attempted'
    BY <1>1, <1>11, <1>13, <2>4 DEF Attempted
  <2>. QED
    BY <2>3, <2>5, <2>6, <2>7, <2>8 DEF IndexInv
<1>12. ASSUME ~(Len(buffer) >= BULK_MAX_SIZE), bulkBuffer' = buffer, bulk' = bulk PROVE IndexInv'
  <2>1. SearchTyped'
    BY <1>1, <1>2, <1>12, ServicesAssumption DEF ServicesAssumption, IndexInv, SearchTyped
  <2>2. OnlyConsumed'
    BY <1>1, <1>7, <1>12 DEF OnlyConsumed
  <2>3. \A e : Holding(e)' = Holding(e)
    BY <1>12 DEF Holding, Search!Started
  <2>4. OpsOnce'
    BY <1>12 DEF IndexInv, OpsOnce, Search!Started
  <2>5. InOnePlace'
    BY <1>1, <1>10, <1>12, <2>3 DEF InOnePlace
  <2>6. Attempted' /\ RetriesLeft'
    BY <1>1, <1>12, <1>13 DEF Attempted, RetriesLeft, Search!Started
  <2>. QED
    BY <2>1, <2>2, <2>4, <2>5, <2>6 DEF IndexInv
<1>. QED
  BY <1>8, <1>11, <1>12 DEF Search!Consume

\* The timer, or the shutdown: the buffer goes into a bulk write.
LEMMA FlushKeeps == ASSUME IndexInv, Search!Flush PROVE IndexInv'
<1>1. /\ Search!StartBulk(bulkBuffer) /\ bulkBuffer' = <<>>
      /\ UNCHANGED <<consumed, documents, unanswered, eventsLost, faults>>
  BY DEF Search!Flush
<1>2. /\ bulkBuffer \in Seq(Nat) /\ Len(bulkBuffer) <= BULK_MAX_SIZE /\ SearchTyped /\ OpsOnce
      /\ \A e \in Sends : Search!Times(e, bulkBuffer) <= 1
      /\ Attempted /\ RetriesLeft
  <2>1. bulkBuffer \in Seq(Nat) /\ SearchTyped /\ OpsOnce /\ Attempted /\ RetriesLeft
    BY DEF IndexInv, SearchTyped
  <2>2. Len(bulkBuffer) <= BULK_MAX_SIZE
    BY SMTT(30), ServicesAssumption DEF ServicesAssumption, IndexInv, SearchTyped
  <2>3. \A e \in Sends : Search!Times(e, bulkBuffer) <= 1
    BY Numbers
  <2>. QED
    BY <2>1, <2>2, <2>3
<1>3. /\ bulk' \in [Search!Bulks -> BulkType]
      /\ \A b \in Search!Bulks : bulk'[b].ops \in {bulk[b].ops, bulkBuffer}
      /\ \A b \in Search!Bulks : bulk'[b].retries <= MAX_RETRIES
      /\ OpsOnce' /\ RetriesLeft'
      /\ \A e \in Sends :
           Cardinality(Holding(e)') = Cardinality(Holding(e)) + Search!Times(e, bulkBuffer)
  <2>1. \A e \in Sends : e \in Search!EventsOf(bulkBuffer) => unanswered[e] = 0
    BY <1>2 DEF Attempted
  <2>. QED
    BY <1>1, <1>2, <2>1, StartHolds
<1>4. Search!EventsOf(<<>>) = {} /\ \A e : Search!Times(e, <<>>) = 0
  BY NoTimes
<1>5. SearchTyped'
  <2>1. <<>> \in Seq(Nat) /\ Len(<<>>) = 0 /\ BULK_MAX_SIZE \in Nat \ {0}
    BY ServicesAssumption DEF ServicesAssumption
  <2>2. \A b \in Search!Bulks : Len(bulk'[b].ops) <= BULK_MAX_SIZE
    BY <1>2, <1>3 DEF SearchTyped
  <2>. QED
    BY <1>1, <1>2, <1>3, <2>1, <2>2 DEF SearchTyped
<1>6. OnlyConsumed'
  <2>1. \A b \in Search!Bulks : Search!EventsOf(bulk'[b].ops) \subseteq 1..consumed
    BY <1>3 DEF IndexInv, OnlyConsumed
  <2>. QED
    BY <1>1, <1>4, <2>1 DEF IndexInv, OnlyConsumed
<1>7. InOnePlace'
  <2>. SUFFICES ASSUME NEW e \in Sends
       PROVE documents[e] + 0 + Cardinality(Holding(e)')
               = unanswered[e] + IF e <= consumed /\ e \notin eventsLost THEN 1 ELSE 0
    BY <1>1, <1>4 DEF InOnePlace
  <2>1. /\ Search!Times(e, bulkBuffer) \in Nat /\ documents[e] \in Nat /\ unanswered[e] \in Nat
        /\ Cardinality(Holding(e)) \in Nat
    BY Numbers
  <2>2. documents[e] + Search!Times(e, bulkBuffer) + Cardinality(Holding(e))
          = unanswered[e] + IF e <= consumed /\ e \notin eventsLost THEN 1 ELSE 0
    BY DEF IndexInv, InOnePlace
  <2>. QED
    BY <1>3, <2>1, <2>2
<1>8. Attempted'
  BY <1>1, <1>2, <1>4 DEF Attempted
<1>. QED
  BY <1>3, <1>5, <1>6, <1>7, <1>8 DEF IndexInv

\* What an attempt leaves in the index.
LEMMA Attempts ==
    ASSUME NEW count \in [Search!Events -> Nat], NEW ops \in Seq(Nat), NEW carried
    PROVE  /\ Search!Indexed(count, ops, carried) \in [Search!Events -> Nat]
           /\ \A e \in Sends :
                Search!Indexed(count, ops, carried)[e]
                  = count[e] + IF e \in carried THEN Search!Times(e, ops) ELSE 0
<1>1. \A e : Search!Times(e, ops) \in Nat
  BY TimesAre
<1>. QED
  BY <1>1 DEF Search!Indexed, Sends

\* A bulk write ends: of its operations some become documents and the others are lost.
LEMMA EndBulkKeeps ==
    ASSUME IndexInv, NEW b \in Search!Bulks, NEW carried, Search!EndBulk(b, carried)
    PROVE  IndexInv'
<1> DEFINE ops == bulk[b].ops
<1>1. /\ b \in Search!Started /\ bulk' = [bulk EXCEPT ![b].state = "done"]
      /\ documents' = Search!Indexed(documents, ops, carried)
      /\ eventsLost' = eventsLost \cup (Search!EventsOf(ops) \ carried)
      /\ UNCHANGED <<consumed, bulkBuffer, unanswered, faults>>
  BY DEF Search!EndBulk
<1>2. /\ bulk' \in [Search!Bulks -> BulkType] /\ ops \in Seq(Nat)
      /\ \A other \in Search!Bulks : /\ bulk'[other].ops = bulk[other].ops
                                    /\ bulk'[other].retries = bulk[other].retries
      /\ OpsOnce' /\ RetriesLeft'
      /\ \A e \in Sends :
           Cardinality(Holding(e)) = Cardinality(Holding(e)') + Search!Times(e, ops)
  BY <1>1, EndHolds DEF IndexInv
<1>3. \A e : /\ Search!Times(e, ops) \in Nat
             /\ Search!Times(e, ops) = 0 <=> e \notin Search!EventsOf(ops)
  BY <1>2, TimesAre
<1>4. Search!EventsOf(ops) \subseteq 1..consumed
  BY DEF IndexInv, OnlyConsumed
<1>5. \A e \in Sends : Search!Times(e, ops) <= 1
  BY <1>1 DEF IndexInv, OpsOnce
<1> HIDE DEF ops
<1>6. /\ documents' \in [Search!Events -> Nat]
      /\ \A e \in Sends :
           documents'[e] = documents[e] + IF e \in carried THEN Search!Times(e, ops) ELSE 0
  <2>1. documents \in [Search!Events -> Nat]
    BY DEF IndexInv, SearchTyped
  <2>. QED
    BY SMTT(30), <1>1, <1>2, <2>1, Attempts
<1>7. SearchTyped'
  BY SMTT(30), <1>1, <1>2, <1>6 DEF IndexInv, SearchTyped
<1>8. OnlyConsumed'
  BY <1>1, <1>2, <1>4 DEF IndexInv, OnlyConsumed
<1>9. ASSUME NEW e \in Sends
      PROVE  documents'[e] + Search!Times(e, bulkBuffer) + Cardinality(Holding(e)')
               = unanswered[e] + IF e <= consumed /\ e \notin eventsLost' THEN 1 ELSE 0
  <2>1. /\ Search!Times(e, bulkBuffer) \in Nat /\ documents[e] \in Nat /\ unanswered[e] \in Nat
        /\ Search!Times(e, ops) \in 0..1
    BY <1>3, <1>5, Numbers
  <2>2. /\ documents[e] + Search!Times(e, bulkBuffer) + Cardinality(Holding(e))
              = unanswered[e] + IF e <= consumed /\ e \notin eventsLost THEN 1 ELSE 0
        /\ unanswered[e] <= documents[e]
    BY DEF IndexInv, InOnePlace, Attempted
  <2>3. /\ Cardinality(Holding(e)') \in Nat
        /\ Cardinality(Holding(e)) = Cardinality(Holding(e)') + Search!Times(e, ops)
    BY <1>2, HoldingAfter
  <2>4. documents'[e] = documents[e] + IF e \in carried THEN Search!Times(e, ops) ELSE 0
    BY <1>6
  <2>5. e \in eventsLost' <=> e \in eventsLost \/ (Search!Times(e, ops) = 1 /\ e \notin carried)
    BY <1>1, <1>3, <2>1
  <2>. QED
    BY <2>1, <2>2, <2>3, <2>4, <2>5
<1>10. InOnePlace'
  BY <1>1, <1>9 DEF InOnePlace
<1>11. Attempted'
  <2>1. ASSUME NEW e \in Sends PROVE unanswered[e] <= documents'[e]
    <3>1. documents'[e] >= documents[e] /\ documents'[e] \in Nat /\ documents[e] \in Nat
      BY <1>3, <1>6, Numbers
    <3>2. unanswered[e] <= documents[e] /\ unanswered[e] \in Nat
      BY Numbers DEF IndexInv, Attempted
    <3>. QED
      BY <3>1, <3>2
  <2>. QED
    BY <1>1, <2>1 DEF IndexInv, Attempted
<1>12. OpsOnce' /\ RetriesLeft'
  BY <1>2
<1>. QED
  BY <1>7, <1>8, <1>10, <1>11, <1>12 DEF IndexInv

\* An attempt has no answer and is made again: whatever it left counts as unanswered.
LEMMA RetryBulkKeeps ==
    ASSUME IndexInv, NEW b \in Search!Bulks, NEW carried, Search!RetryBulk(b, carried)
    PROVE  IndexInv'
<1> DEFINE ops == bulk[b].ops
<1>1. /\ b \in Search!Started /\ bulk[b].retries > 0
      /\ bulk' = [bulk EXCEPT ![b].retries = @ - 1]
      /\ documents' = Search!Indexed(documents, ops, carried)
      /\ unanswered' = Search!Indexed(unanswered, ops, carried)
      /\ UNCHANGED <<consumed, bulkBuffer, eventsLost, faults>>
  BY DEF Search!RetryBulk
<1>2. /\ bulk' \in [Search!Bulks -> BulkType] /\ ops \in Seq(Nat)
      /\ \A c \in Search!Bulks : bulk'[c].ops = bulk[c].ops /\ bulk'[c].state = bulk[c].state
      /\ \A c \in Search!Bulks \ {b} : bulk'[c] = bulk[c]
      /\ bulk'[b].retries = bulk[b].retries - 1 /\ bulk[b].retries \in Nat
  <2>1. bulk \in [Search!Bulks -> BulkType] /\ bulk[b] \in BulkType
    BY DEF IndexInv, SearchTyped
  <2>2. bulk[b].retries \in Nat /\ bulk[b].retries - 1 \in Nat
    BY <1>1, <2>1 DEF BulkType
  <2> DEFINE next == [bulk[b] EXCEPT !.retries = bulk[b].retries - 1]
  <2>3. /\ next \in BulkType /\ next.ops = bulk[b].ops /\ next.state = bulk[b].state
        /\ next.retries = bulk[b].retries - 1 /\ ops \in Seq(Nat)
    BY <2>1, <2>2 DEF BulkType
  <2>4. bulk' = [bulk EXCEPT ![b] = next]
    BY <1>1, <2>1
  <2> HIDE DEF next, ops
  <2>. QED
    BY <2>1, <2>2, <2>3, <2>4
<1>3. Search!Started' = Search!Started /\ \A e : Holding(e)' = Holding(e)
  <2>1. Search!Started' = Search!Started
    BY <1>2 DEF Search!Started
  <2>2. \A e : Holding(e)' = Holding(e)
    BY <1>2, <2>1 DEF Search!Started, Holding
  <2>. QED
    BY <2>1, <2>2
<1>4. \A e : /\ Search!Times(e, ops) \in Nat
             /\ Search!Times(e, ops) = 0 <=> e \notin Search!EventsOf(ops)
  BY <1>2, TimesAre
<1>5. \A e \in Sends : Search!Times(e, ops) <= 1
  BY <1>1 DEF IndexInv, OpsOnce
<1>6. \A e : b \in Holding(e) <=> e \in Search!EventsOf(ops)
  BY <1>1 DEF Holding
<1> DEFINE left(e) == IF e \in carried THEN Search!Times(e, ops) ELSE 0
<1> HIDE DEF ops
<1>7. /\ documents' \in [Search!Events -> Nat] /\ unanswered' \in [Search!Events -> Nat]
      /\ \A e \in Sends : /\ documents'[e] = documents[e] + left(e)
                          /\ unanswered'[e] = unanswered[e] + left(e)
  <2>1. documents \in [Search!Events -> Nat] /\ unanswered \in [Search!Events -> Nat]
    BY DEF IndexInv, SearchTyped
  <2>2. /\ documents' \in [Search!Events -> Nat]
        /\ \A e \in Sends : documents'[e] = documents[e] + left(e)
    BY SMTT(30), <1>1, <1>2, <2>1, Attempts
  <2>3. /\ unanswered' \in [Search!Events -> Nat]
        /\ \A e \in Sends : unanswered'[e] = unanswered[e] + left(e)
    BY SMTT(30), <1>1, <1>2, <2>1, Attempts
  <2>. QED
    BY <2>2, <2>3
<1>8. \A e \in Sends : left(e) \in 0..1 /\ (left(e) = 1 => b \in Holding(e))
  BY <1>4, <1>5, <1>6
<1> HIDE DEF left
<1>9. SearchTyped'
  <2>1. ASSUME NEW c \in Search!Bulks PROVE bulk'[c].retries <= MAX_RETRIES
    <3>1. bulk[c].retries <= MAX_RETRIES /\ MAX_RETRIES \in Nat
      BY ServicesAssumption DEF ServicesAssumption, IndexInv, SearchTyped
    <3>2. CASE c = b
      BY <1>2, <3>1, <3>2
    <3>3. CASE c # b
      BY <1>2, <3>1, <3>3
    <3>. QED
      BY <3>2, <3>3
  <2>. QED
    BY SMTT(30), <1>1, <1>2, <1>7, <2>1 DEF IndexInv, SearchTyped
<1>10. OnlyConsumed' /\ OpsOnce'
  BY <1>1, <1>2, <1>3 DEF IndexInv, OnlyConsumed, OpsOnce, Search!Started
<1>11. InOnePlace'
  <2> SUFFICES ASSUME NEW e \in Sends
               PROVE  documents'[e] + Search!Times(e, bulkBuffer) + Cardinality(Holding(e))
                        = unanswered'[e] + IF e <= consumed /\ e \notin eventsLost THEN 1 ELSE 0
    BY <1>1, <1>3 DEF InOnePlace
  <2>1. documents[e] + Search!Times(e, bulkBuffer) + Cardinality(Holding(e))
          = unanswered[e] + IF e <= consumed /\ e \notin eventsLost THEN 1 ELSE 0
    BY DEF IndexInv, InOnePlace
  <2>. QED
    BY <1>7, <1>8, <2>1, Numbers
<1>12. Attempted'
  <2> SUFFICES ASSUME NEW e \in Sends
               PROVE  /\ unanswered'[e] <= documents'[e] /\ unanswered'[e] <= MAX_RETRIES
                      /\ consumed < e \/ e \in Search!EventsOf(bulkBuffer) => unanswered'[e] = 0
    BY <1>1 DEF Attempted
  <2>1. /\ unanswered[e] <= documents[e] /\ unanswered[e] <= MAX_RETRIES
        /\ consumed < e \/ e \in Search!EventsOf(bulkBuffer) => unanswered[e] = 0
        /\ documents[e] \in Nat /\ unanswered[e] \in Nat /\ MAX_RETRIES \in Nat /\ e \in Nat
        /\ consumed \in Nat
    BY Numbers, ScriptLength, ServicesAssumption
    DEF ServicesAssumption, IndexInv, Attempted, SearchTyped
  <2>2. left(e) = 1 => unanswered[e] + bulk[b].retries <= MAX_RETRIES
    BY <1>1, <1>6, <1>8 DEF IndexInv, RetriesLeft, ops
  <2>3. left(e) = 1 => ~(consumed < e) /\ e \notin Search!EventsOf(bulkBuffer)
    <3>1. left(e) = 1 => e \in 1..consumed
      BY <1>6, <1>8 DEF IndexInv, OnlyConsumed, ops
    <3>2. /\ Search!Times(e, bulkBuffer) \in 0..1 /\ Cardinality(Holding(e)) \in 0..1
          /\ Search!Times(e, bulkBuffer) = 0 <=> e \notin Search!EventsOf(bulkBuffer)
      BY Numbers
    <3>3. b \in Holding(e) => Cardinality(Holding(e)) # 0
      BY HoldingFinite, FS_EmptySet
    <3>4. documents[e] + Search!Times(e, bulkBuffer) + Cardinality(Holding(e))
            = unanswered[e] + IF e <= consumed /\ e \notin eventsLost THEN 1 ELSE 0
      BY DEF IndexInv, InOnePlace
    <3>5. b \in Holding(e) => Search!Times(e, bulkBuffer) = 0
      BY <2>1, <3>2, <3>3, <3>4
    <3>. QED
      BY <1>8, <2>1, <3>1, <3>2, <3>5
  <2>4. /\ unanswered'[e] = unanswered[e] + left(e) /\ documents'[e] = documents[e] + left(e)
        /\ left(e) \in 0..1 /\ consumed' = consumed
        /\ bulk[b].retries \in Nat /\ bulk[b].retries > 0
    BY <1>1, <1>2, <1>7, <1>8
  <2>5. unanswered'[e] <= documents'[e]
    BY <2>1, <2>4
  <2>6. unanswered'[e] <= MAX_RETRIES
    BY <2>1, <2>2, <2>4
  <2>7. consumed < e \/ e \in Search!EventsOf(bulkBuffer) => unanswered'[e] = 0
    BY <2>1, <2>3, <2>4
  <2>. QED
    BY <2>5, <2>6, <2>7
<1>13. RetriesLeft'
  <2> SUFFICES ASSUME NEW c \in Search!Started, NEW e \in Sends,
                      e \in Search!EventsOf(bulk[c].ops)
               PROVE  unanswered'[e] + bulk'[c].retries <= MAX_RETRIES
    <3>1. \A c \in Search!Started : bulk'[c].ops = bulk[c].ops
      BY <1>2 DEF Search!Started
    <3>. QED
      BY <1>3, <3>1 DEF RetriesLeft
  <2>1. /\ unanswered[e] + bulk[c].retries <= MAX_RETRIES /\ unanswered[e] \in Nat
        /\ bulk[c].retries \in Nat /\ MAX_RETRIES \in Nat
    BY Numbers, ServicesAssumption
    DEF ServicesAssumption, IndexInv, RetriesLeft, Search!Started, SearchTyped, BulkType
  <2>2. CASE c = b
    <3>1. unanswered'[e] = unanswered[e] + left(e) /\ left(e) \in 0..1
      BY <1>7, <1>8
    <3>. QED
      BY <1>2, <2>1, <2>2, <3>1
  <2>3. CASE c # b
    <3>1. c \in Holding(e) /\ IsFiniteSet(Holding(e)) /\ Cardinality(Holding(e)) \in 0..1
      BY Numbers, HoldingFinite DEF Holding
    <3>2. b \notin Holding(e)
      <4> SUFFICES ASSUME b \in Holding(e) PROVE FALSE
        OBVIOUS
      <4>1. /\ Cardinality(Holding(e) \ {b}) = Cardinality(Holding(e)) - 1
            /\ IsFiniteSet(Holding(e) \ {b})
        BY <3>1, FS_RemoveElement
      <4>2. Cardinality(Holding(e) \ {b}) \in Nat /\ Holding(e) \ {b} # {}
        BY <2>3, <3>1, <4>1, FS_CardinalityType
      <4>3. Cardinality(Holding(e) \ {b}) # 0
        BY <4>1, <4>2, FS_EmptySet
      <4> DEFINE n == Cardinality(Holding(e))
                 m == Cardinality(Holding(e) \ {b})
      <4>4. n \in 0..1 /\ m = n - 1 /\ m \in Nat /\ m # 0
        BY <3>1, <4>1, <4>2, <4>3
      <4> HIDE DEF n, m
      <4>. QED
        BY <4>4
    <3>3. left(e) = 0
      BY <1>8, <3>2
    <3>4. bulk'[c] = bulk[c]
      BY <1>2, <2>3 DEF Search!Started
    <3>5. unanswered'[e] = unanswered[e]
      <4>1. unanswered'[e] = unanswered[e] + left(e)
        BY <1>7
      <4>. QED
        BY <2>1, <3>3, <4>1
    <3>. QED
      BY <2>1, <3>4, <3>5
  <2>. QED
    BY <2>2, <2>3
<1>. QED
  BY <1>9, <1>10, <1>11, <1>12, <1>13 DEF IndexInv

\* A restart: the buffer is gone, and the events until the worker is back.
LEMMA RestartKeeps == ASSUME IndexInv, Search!Restart PROVE IndexInv'
<1>1. PICK next \in consumed..Len(Script) :
        /\ consumed' = next
        /\ eventsLost' = eventsLost \cup Search!EventsOf(bulkBuffer) \cup (consumed + 1)..next
  BY DEF Search!Restart
<1>2. /\ faults < MaxLosses /\ faults' = faults + 1
      /\ bulkBuffer' = <<>> /\ UNCHANGED <<documents, unanswered>>
      /\ bulk' = [b \in Search!Bulks |-> [bulk[b] EXCEPT !.retries = 0]]
  BY DEF Search!Restart
<1>10. /\ bulk' \in [Search!Bulks -> BulkType]
       /\ \A b \in Search!Bulks : /\ bulk'[b].ops = bulk[b].ops
                                 /\ bulk'[b].state = bulk[b].state /\ bulk'[b].retries = 0
  BY <1>2 DEF IndexInv, SearchTyped, BulkType
<1>3. /\ consumed \in Nat /\ next \in Nat /\ next <= Len(Script) /\ consumed <= next
      /\ consumed <= Len(Script)
  BY <1>1, ScriptLength DEF IndexInv, SearchTyped
<1>4. Search!EventsOf(<<>>) = {} /\ \A e : Search!Times(e, <<>>) = 0
  BY NoTimes
<1>5. SearchTyped'
  <2>1. consumed' \in 0..Len(Script) /\ faults' \in 0..MaxLosses
    <3>1. faults \in Nat /\ MaxLosses \in Nat
      BY ServicesAssumption DEF ServicesAssumption, IndexInv, SearchTyped
    <3>. QED
      BY <1>1, <1>2, <1>3, <3>1
  <2>2. <<>> \in Seq(Nat) /\ Len(<<>>) = 0 /\ BULK_MAX_SIZE \in Nat \ {0} /\ 0 <= MAX_RETRIES
    BY ServicesAssumption DEF ServicesAssumption
  <2>3. \A b \in Search!Bulks : Len(bulk'[b].ops) <= BULK_MAX_SIZE /\ bulk'[b].retries <= MAX_RETRIES
    BY <1>10, <2>2 DEF IndexInv, SearchTyped
  <2>. QED
    BY <1>2, <1>10, <2>1, <2>2, <2>3 DEF IndexInv, SearchTyped
<1>6. OnlyConsumed'
  <2>1. 1..consumed \subseteq 1..next /\ (consumed + 1)..next \subseteq 1..next
    BY <1>3
  <2>. QED
    BY <1>1, <1>2, <1>4, <1>10, <2>1 DEF IndexInv, OnlyConsumed
<1>7. OpsOnce' /\ \A e : Holding(e)' = Holding(e)
  BY <1>10 DEF IndexInv, OpsOnce, Search!Started, Holding
<1>8. ASSUME NEW e \in Sends
      PROVE  documents[e] + 0 + Cardinality(Holding(e))
               = unanswered[e] + IF e <= next /\ e \notin eventsLost' THEN 1 ELSE 0
  <2>1. /\ Search!Times(e, bulkBuffer) \in 0..1 /\ documents[e] \in Nat /\ unanswered[e] \in Nat
        /\ Search!Times(e, bulkBuffer) = 0 <=> e \notin Search!EventsOf(bulkBuffer)
        /\ Cardinality(Holding(e)) \in Nat /\ e \in Nat
    BY Numbers, ScriptLength
  <2>2. documents[e] + Search!Times(e, bulkBuffer) + Cardinality(Holding(e))
          = unanswered[e] + IF e <= consumed /\ e \notin eventsLost THEN 1 ELSE 0
    BY DEF IndexInv, InOnePlace
  <2>3. e \in eventsLost' <=> \/ e \in eventsLost \/ Search!Times(e, bulkBuffer) = 1
                              \/ (consumed < e /\ e <= next)
    BY <1>1, <1>3, <2>1
  <2>4. /\ unanswered[e] <= documents[e]
        /\ Search!Times(e, bulkBuffer) = 1 => e \notin eventsLost /\ e <= consumed
    BY Numbers DEF IndexInv, Attempted
  <2> DEFINE d == documents[e]
             u == unanswered[e]
             n == Search!Times(e, bulkBuffer)
             h == Cardinality(Holding(e))
  <2>5. /\ d \in Nat /\ u \in Nat /\ n \in 0..1 /\ h \in Nat /\ u <= d
        /\ d + n + h = u + IF e <= consumed /\ e \notin eventsLost THEN 1 ELSE 0
    BY <2>1, <2>2, <2>4
  <2> HIDE DEF d, u, n, h
  <2>6. d + 0 + h = u + IF e <= next /\ e \notin eventsLost' THEN 1 ELSE 0
    <3>1. CASE n = 1
      BY <1>3, <2>1, <2>3, <2>4, <2>5, <3>1 DEF n
    <3>2. CASE n = 0
      BY <1>3, <2>1, <2>3, <2>5, <3>2 DEF n
    <3>. QED
      BY <2>5, <3>1, <3>2
  <2>. QED
    BY <2>6 DEF d, u, h
<1>9. InOnePlace'
  BY <1>1, <1>2, <1>4, <1>7, <1>8 DEF InOnePlace
<1>11. Attempted'
  BY <1>1, <1>2, <1>3, <1>4, ScriptLength DEF IndexInv, Attempted
<1>12. RetriesLeft'
  <2>1. \A e \in Sends : unanswered[e] \in Nat /\ unanswered[e] <= MAX_RETRIES
    BY Numbers DEF IndexInv, Attempted
  <2>. QED
    BY <1>2, <1>10, <2>1 DEF RetriesLeft, Search!Started
<1>. QED
  BY <1>5, <1>6, <1>7, <1>9, <1>11, <1>12 DEF IndexInv

LEMMA IndexStep == IndexInv /\ [Search!Next]_(Search!vars) => IndexInv'
<1>1. IndexInv /\ UNCHANGED Search!vars => IndexInv'
  BY DEF Search!vars, IndexInv, SearchTyped, OnlyConsumed, OpsOnce, InOnePlace, Attempted,
         RetriesLeft, Search!Started, Holding
<1>2. ASSUME IndexInv, NEW b \in Search!Bulks, NEW carried,
             Search!EndBulk(b, carried) \/ Search!RetryBulk(b, carried)
      PROVE  IndexInv'
  BY <1>2, EndBulkKeeps, RetryBulkKeeps
<1>3. ASSUME IndexInv, Search!Next PROVE IndexInv'
  <2>1. CASE Search!Consume \/ Search!Flush \/ Search!Restart
    BY <1>3, <2>1, ConsumeKeeps, FlushKeeps, RestartKeeps
  <2>2. CASE \E b \in Search!Bulks : \E carried \in SUBSET Search!EventsOf(bulk[b].ops) :
               Search!EndBulk(b, carried) \/ Search!RetryBulk(b, carried)
    BY <1>2, <1>3, <2>2
  <2>. QED
    BY <1>3, <2>1, <2>2 DEF Search!Next
<1>. QED
  BY <1>1, <1>3

\* Every message that the worker is past is in the index once, or on its way there in
\* one place, or was not carried out by the last attempt of its bulk write, or skipped
\* by a restart; and it is there once more for each attempt that was carried out
\* without its answer, of which there are no more than the client makes retries.
THEOREM SendsAreIndexedOnce == Search!Spec => []Search!SendsIndexedOnce
<1>1. IndexInv => Search!SendsIndexedOnce
  BY SearchCounts DEF IndexInv, InOnePlace, Attempted, Search!SendsIndexedOnce, Sends, Holding
<1>. QED
  BY <1>1, IndexInit, IndexStep, PTL DEF Search!Spec

-------------------------------------------------------------------------------
(* The jetton: tokens are conserved.                                       *)

LEMMA TokenCounts == \A S : Token!Cardinality(S) = Cardinality(S)
BY DEF Token!Cardinality, Cardinality

LEMMA Apart ==
    ASSUME NEW S, NEW T, IsFiniteSet(S), IsFiniteSet(T), S \cap T = {}
    PROVE  IsFiniteSet(S \cup T) /\ Cardinality(S \cup T) = Cardinality(S) + Cardinality(T)
<1>1. Cardinality(S) \in Nat /\ Cardinality(T) \in Nat /\ Cardinality(S \cap T) = 0
  BY FS_CardinalityType, FS_EmptySet
<1>2. IsFiniteSet(S \cup T)
      /\ Cardinality(S \cup T) = Cardinality(S) + Cardinality(T) - Cardinality(S \cap T)
  BY FS_Union
<1>. QED
  BY <1>1, <1>2

\* A pile of a holder's tokens.
LEMMA Pile ==
    ASSUME NEW h, NEW n \in Nat
    PROVE  IsFiniteSet({h} \X (1..n)) /\ Cardinality({h} \X (1..n)) = n
<1>1. IsFiniteSet(1..n) /\ Cardinality(1..n) = n
  BY FS_Interval
<1>2. IsFiniteSet({h}) /\ Cardinality({h}) = 1
  BY FS_Singleton
<1>3. /\ IsFiniteSet({h} \X (1..n))
      /\ Cardinality({h} \X (1..n)) = Cardinality({h}) * Cardinality(1..n)
  BY <1>1, <1>2, FS_Product
<1>. QED
  BY <1>1, <1>2, <1>3

\* The tokens of one holder and those of the others.
LEMMA OneHolder ==
    ASSUME NEW f, NEW h \in DOMAIN f, f[h] \in Nat, NEW Rest,
           Rest = UNION {{x} \X (1..f[x]) : x \in DOMAIN f \ {h}},
           IsFiniteSet(Rest)
    PROVE  /\ IsFiniteSet(Token!Tokens(f))
           /\ Cardinality(Token!Tokens(f)) = Cardinality(Rest) + f[h]
<1> DEFINE mine == {h} \X (1..f[h])
<1>1. Token!Tokens(f) = Rest \cup mine
  BY DEF Token!Tokens
<1>2. Rest \cap mine = {}
  OBVIOUS
<1>3. IsFiniteSet(mine) /\ Cardinality(mine) = f[h]
  BY Pile
<1> HIDE DEF mine
<1>4. IsFiniteSet(Rest \cup mine) /\ Cardinality(Rest \cup mine) = Cardinality(Rest) + f[h]
  BY <1>2, <1>3, Apart
<1>. QED
  BY <1>1, <1>4

\* When only what one holder has changes, so does the number of tokens.
LEMMA HolderChanges ==
    ASSUME NEW f, NEW g, NEW h, DOMAIN f \ {h} = DOMAIN g \ {h},
           \A x \in DOMAIN f \ {h} : f[x] = g[x],
           h \in DOMAIN f => f[h] \in Nat, h \in DOMAIN g => g[h] \in Nat,
           IsFiniteSet(Token!Tokens(f))
    PROVE  /\ IsFiniteSet(Token!Tokens(g)) /\ Cardinality(Token!Tokens(f)) \in Nat
           /\ Cardinality(Token!Tokens(g)) + (IF h \in DOMAIN f THEN f[h] ELSE 0)
                = Cardinality(Token!Tokens(f)) + (IF h \in DOMAIN g THEN g[h] ELSE 0)
<1> DEFINE Rest == UNION {{x} \X (1..f[x]) : x \in DOMAIN f \ {h}}
<1>1. Rest = UNION {{x} \X (1..g[x]) : x \in DOMAIN g \ {h}}
  <2>1. \A t : t \in Rest <=> \E x \in DOMAIN f \ {h} : t \in {x} \X (1..f[x])
    OBVIOUS
  <2>2. \A t : t \in UNION {{x} \X (1..g[x]) : x \in DOMAIN g \ {h}}
                 <=> \E x \in DOMAIN g \ {h} : t \in {x} \X (1..g[x])
    OBVIOUS
  <2> HIDE DEF Rest
  <2>. QED
    BY <2>1, <2>2
<1>2. Rest \subseteq Token!Tokens(f)
  BY DEF Token!Tokens
<1>3. h \notin DOMAIN f => Rest = Token!Tokens(f)
  BY DEF Token!Tokens
<1>4. h \notin DOMAIN g => Rest = Token!Tokens(g)
  BY <1>1 DEF Token!Tokens
<1>5. IsFiniteSet(Rest) /\ Cardinality(Rest) \in Nat
  BY <1>2, FS_Subset, FS_CardinalityType
<1>6. Cardinality(Token!Tokens(f)) \in Nat
  BY FS_CardinalityType
<1>7. ASSUME h \in DOMAIN f PROVE Cardinality(Token!Tokens(f)) = Cardinality(Rest) + f[h]
  BY <1>5, <1>7, OneHolder
<1>8. ASSUME h \in DOMAIN g
      PROVE  IsFiniteSet(Token!Tokens(g)) /\ Cardinality(Token!Tokens(g)) = Cardinality(Rest) + g[h]
  BY <1>1, <1>5, <1>8, OneHolder
<1> HIDE DEF Rest
<1>. QED
  BY <1>3, <1>4, <1>5, <1>6, <1>7, <1>8

TokenTyped ==
    /\ total_supply \in Nat /\ jettonLost \in Nat
    /\ balance \in [Users -> Nat]
    /\ messages \subseteq [id : Token!Ids, op : {"internal_transfer", "burn_notification"},
                           from : Users \cup {"minter"}, to : Users \cup {"minter"},
                           amount : Amounts, bounced : BOOLEAN]
    /\ jettonSent \in 0..MaxMessages /\ faults \in 0..MaxLosses

\* A message is of one operation, and has its wallets.
MessagesAreSent ==
    /\ \A m \in messages : /\ m.id <= jettonSent
                           /\ m.op = "internal_transfer" => m.to \in Users
    /\ \A m, n \in messages : m.id = n.id => m = n

Carried == [m \in messages |-> m.amount]

Counted ==
    /\ IsFiniteSet(Token!Tokens(balance)) /\ IsFiniteSet(Token!Tokens(Carried))
    /\ total_supply = Cardinality(Token!Tokens(balance))
                      + Cardinality(Token!Tokens(Carried)) + jettonLost

CoinInv == TokenTyped /\ MessagesAreSent /\ Counted

\* One wallet and one message change.
LEMMA WalletChanges ==
    ASSUME TokenTyped, Counted, NEW o \in Users, NEW n \in Nat,
           balance' = [balance EXCEPT ![o] = n]
    PROVE  /\ balance' \in [Users -> Nat] /\ balance[o] \in Nat
           /\ IsFiniteSet(Token!Tokens(balance')) /\ Cardinality(Token!Tokens(balance)) \in Nat
           /\ Cardinality(Token!Tokens(balance')) + balance[o]
                = Cardinality(Token!Tokens(balance)) + n
<1> DEFINE f == balance
           g == [balance EXCEPT ![o] = n]
<1>1. f \in [Users -> Nat] /\ g \in [Users -> Nat] /\ IsFiniteSet(Token!Tokens(f))
  BY DEF TokenTyped, Counted
<1>2. g[o] = n /\ \A x \in Users \ {o} : f[x] = g[x]
  BY <1>1
<1>3. balance' = g
  OBVIOUS
<1> HIDE DEF f, g
<1>4. /\ IsFiniteSet(Token!Tokens(g)) /\ Cardinality(Token!Tokens(f)) \in Nat
      /\ Cardinality(Token!Tokens(g)) + (IF o \in DOMAIN f THEN f[o] ELSE 0)
           = Cardinality(Token!Tokens(f)) + (IF o \in DOMAIN g THEN g[o] ELSE 0)
  BY <1>1, <1>2, HolderChanges
<1>. QED
  BY <1>1, <1>2, <1>3, <1>4 DEF f

LEMMA MessageLeaves ==
    ASSUME TokenTyped, NEW S \in SUBSET messages, NEW m \in S,
           IsFiniteSet(Token!Tokens([x \in S |-> x.amount]))
    PROVE  /\ IsFiniteSet(Token!Tokens([x \in S \ {m} |-> x.amount])) /\ m.amount \in Nat
           /\ Cardinality(Token!Tokens([x \in S \ {m} |-> x.amount])) \in Nat
           /\ Cardinality(Token!Tokens([x \in S |-> x.amount]))
                = Cardinality(Token!Tokens([x \in S \ {m} |-> x.amount])) + m.amount
<1> DEFINE f == [x \in S |-> x.amount]
           g == [x \in S \ {m} |-> x.amount]
<1>1. /\ DOMAIN f = S /\ DOMAIN g = S \ {m} /\ f[m] = m.amount
      /\ \A x \in S \ {m} : f[x] = g[x]
  OBVIOUS
<1>2. m.amount \in Nat
  BY ServicesAssumption DEF ServicesAssumption, TokenTyped
<1>3. IsFiniteSet(Token!Tokens(f))
  OBVIOUS
<1> HIDE DEF f, g
<1>4. /\ IsFiniteSet(Token!Tokens(g)) /\ Cardinality(Token!Tokens(f)) \in Nat
      /\ Cardinality(Token!Tokens(g)) + (IF m \in DOMAIN f THEN f[m] ELSE 0)
           = Cardinality(Token!Tokens(f)) + (IF m \in DOMAIN g THEN g[m] ELSE 0)
  BY <1>1, <1>2, <1>3, HolderChanges
<1>5. Cardinality(Token!Tokens(g)) \in Nat
  BY <1>4, FS_CardinalityType
<1>6. Cardinality(Token!Tokens(f)) = Cardinality(Token!Tokens(g)) + m.amount
  BY <1>1, <1>2, <1>4, <1>5
<1>. QED
  BY <1>2, <1>4, <1>5, <1>6 DEF f, g

LEMMA MessageComes ==
    ASSUME NEW S, NEW m, m \notin S, m.amount \in Nat,
           IsFiniteSet(Token!Tokens([x \in S |-> x.amount]))
    PROVE  /\ IsFiniteSet(Token!Tokens([x \in S \cup {m} |-> x.amount]))
           /\ Cardinality(Token!Tokens([x \in S |-> x.amount])) \in Nat
           /\ Cardinality(Token!Tokens([x \in S \cup {m} |-> x.amount]))
                = Cardinality(Token!Tokens([x \in S |-> x.amount])) + m.amount
<1> DEFINE f == [x \in S |-> x.amount]
           g == [x \in S \cup {m} |-> x.amount]
<1>1. /\ DOMAIN f = S /\ DOMAIN g = S \cup {m} /\ g[m] = m.amount
      /\ \A x \in S : f[x] = g[x]
  OBVIOUS
<1>3. IsFiniteSet(Token!Tokens(f))
  OBVIOUS
<1> HIDE DEF f, g
<1>4. /\ IsFiniteSet(Token!Tokens(g)) /\ Cardinality(Token!Tokens(f)) \in Nat
      /\ Cardinality(Token!Tokens(g)) + (IF m \in DOMAIN f THEN f[m] ELSE 0)
           = Cardinality(Token!Tokens(f)) + (IF m \in DOMAIN g THEN g[m] ELSE 0)
  BY <1>1, <1>3, HolderChanges
<1>5. Cardinality(Token!Tokens(g)) \in Nat
  BY <1>4, FS_CardinalityType
<1>6. Cardinality(Token!Tokens(g)) = Cardinality(Token!Tokens(f)) + m.amount
  BY <1>1, <1>4, <1>5
<1>. QED
  BY <1>4, <1>6 DEF f, g

LEMMA CoinInit == Token!Init => CoinInv
<1>. SUFFICES ASSUME Token!Init PROVE CoinInv
  OBVIOUS
<1>1. TokenTyped /\ MessagesAreSent
  BY ServicesAssumption DEF ServicesAssumption, Token!Init, TokenTyped, MessagesAreSent
<1>2. Token!Tokens(balance) = {} /\ Token!Tokens(Carried) = {}
  BY DEF Token!Init, Token!Tokens, Carried
<1>. QED
  BY <1>1, <1>2, FS_EmptySet DEF Token!Init, Counted, CoinInv

\* An operation sends a new message.
LEMMA NewMessage ==
    ASSUME CoinInv, NEW kind \in {"internal_transfer", "burn_notification"},
           NEW from \in Users \cup {"minter"}, NEW to \in Users \cup {"minter"},
           kind = "internal_transfer" => to \in Users, NEW amount \in Amounts,
           Token!SendNew(kind, from, to, amount)
    PROVE  /\ messages' \subseteq [id : Token!Ids, op : {"internal_transfer", "burn_notification"},
                           from : Users \cup {"minter"}, to : Users \cup {"minter"},
                           amount : Amounts, bounced : BOOLEAN]
           /\ jettonSent' \in 0..MaxMessages /\ MessagesAreSent' /\ amount \in Nat
           /\ IsFiniteSet(Token!Tokens(Carried')) /\ Cardinality(Token!Tokens(Carried)) \in Nat
           /\ Cardinality(Token!Tokens(Carried')) = Cardinality(Token!Tokens(Carried)) + amount
<1> DEFINE m == Token!Message(jettonSent + 1, kind, from, to, amount, FALSE)
<1>1. /\ jettonSent \in Nat /\ jettonSent < MaxMessages /\ jettonSent' = jettonSent + 1
      /\ messages' = messages \cup {m} /\ MaxMessages \in Nat
  BY ServicesAssumption DEF ServicesAssumption, CoinInv, TokenTyped, Token!SendNew
<1>2. /\ m.id = jettonSent + 1 /\ m.amount = amount /\ m.to = to /\ m.op = kind
      /\ m \in [id : Token!Ids, op : {"internal_transfer", "burn_notification"},
                from : Users \cup {"minter"}, to : Users \cup {"minter"},
                amount : Amounts, bounced : BOOLEAN]
  BY <1>1 DEF Token!Message, Token!Ids
<1>3. \A n \in messages : n.id \in Nat /\ n.id <= jettonSent
  BY DEF CoinInv, TokenTyped, MessagesAreSent, Token!Ids
<1>4. amount \in Nat
  BY ServicesAssumption DEF ServicesAssumption
<1> HIDE DEF m
<1>5. m \notin messages
  BY <1>1, <1>2, <1>3
<1>6. MessagesAreSent'
  BY <1>1, <1>2, <1>3 DEF CoinInv, MessagesAreSent
<1>7. Carried' = [x \in messages \cup {m} |-> x.amount]
  BY <1>1 DEF Carried
<1>8. IsFiniteSet(Token!Tokens([x \in messages |-> x.amount]))
  BY DEF CoinInv, Counted, Carried
<1>9. /\ IsFiniteSet(Token!Tokens([x \in messages \cup {m} |-> x.amount]))
      /\ Cardinality(Token!Tokens([x \in messages |-> x.amount])) \in Nat
      /\ Cardinality(Token!Tokens([x \in messages \cup {m} |-> x.amount]))
           = Cardinality(Token!Tokens([x \in messages |-> x.amount])) + m.amount
  BY <1>2, <1>4, <1>5, <1>8, MessageComes
<1>. QED
  BY <1>1, <1>2, <1>4, <1>6, <1>7, <1>9 DEF CoinInv, TokenTyped, Carried

\* A message is handled and gone.
LEMMA MessageHandled ==
    ASSUME CoinInv, NEW m \in messages, messages' = messages \ {m}, UNCHANGED jettonSent
    PROVE  /\ messages' \subseteq messages /\ MessagesAreSent' /\ m.amount \in Nat
           /\ IsFiniteSet(Token!Tokens(Carried')) /\ Cardinality(Token!Tokens(Carried')) \in Nat
           /\ Cardinality(Token!Tokens(Carried)) = Cardinality(Token!Tokens(Carried')) + m.amount
<1>1. /\ IsFiniteSet(Token!Tokens([x \in messages |-> x.amount])) /\ TokenTyped
      /\ Carried = [x \in messages |-> x.amount] /\ Carried' = [x \in messages \ {m} |-> x.amount]
  BY DEF CoinInv, Counted, Carried
<1>2. MessagesAreSent'
  BY DEF CoinInv, MessagesAreSent
<1>. QED
  BY <1>1, <1>2, MessageLeaves

LEMMA MintKeeps ==
    ASSUME CoinInv, NEW o \in Users, NEW a \in Amounts, Token!Mint(o, a) PROVE CoinInv'
<1>1. /\ Token!SendNew("internal_transfer", "minter", o, a)
      /\ total_supply' = total_supply + a /\ UNCHANGED <<balance, jettonLost, faults>>
  BY DEF Token!Mint, Token!Minter
<1>2. /\ messages' \subseteq [id : Token!Ids, op : {"internal_transfer", "burn_notification"},
                           from : Users \cup {"minter"}, to : Users \cup {"minter"},
                           amount : Amounts, bounced : BOOLEAN]
      /\ jettonSent' \in 0..MaxMessages /\ MessagesAreSent' /\ a \in Nat
      /\ IsFiniteSet(Token!Tokens(Carried')) /\ Cardinality(Token!Tokens(Carried)) \in Nat
      /\ Cardinality(Token!Tokens(Carried')) = Cardinality(Token!Tokens(Carried)) + a
  BY <1>1, NewMessage
<1>3. TokenTyped'
  BY <1>1, <1>2 DEF CoinInv, TokenTyped
<1>4. Cardinality(Token!Tokens(balance)) \in Nat
  BY FS_CardinalityType DEF CoinInv, Counted
<1>5. Counted'
  BY <1>1, <1>2, <1>4 DEF CoinInv, TokenTyped, Counted
<1>. QED
  BY <1>2, <1>3, <1>5 DEF CoinInv

\* send_tokens and burn_tokens: from the balance into a message.
LEMMA SpendKeeps ==
    ASSUME CoinInv, NEW o \in Users, NEW to \in Users \cup {"minter"}, NEW a \in Amounts,
           NEW kind \in {"internal_transfer", "burn_notification"},
           kind = "internal_transfer" => to \in Users,
           balance[o] >= a, Token!SendNew(kind, o, to, a),
           balance' = [balance EXCEPT ![o] = balance[o] - a],
           UNCHANGED <<total_supply, jettonLost, faults>>
    PROVE  CoinInv'
<1>2. /\ messages' \subseteq [id : Token!Ids, op : {"internal_transfer", "burn_notification"},
                           from : Users \cup {"minter"}, to : Users \cup {"minter"},
                           amount : Amounts, bounced : BOOLEAN]
      /\ jettonSent' \in 0..MaxMessages /\ MessagesAreSent' /\ a \in Nat
      /\ IsFiniteSet(Token!Tokens(Carried')) /\ Cardinality(Token!Tokens(Carried)) \in Nat
      /\ Cardinality(Token!Tokens(Carried')) = Cardinality(Token!Tokens(Carried)) + a
  BY NewMessage
<1>3. balance[o] - a \in Nat /\ balance[o] \in Nat
  BY <1>2 DEF CoinInv, TokenTyped
<1>4. /\ balance' \in [Users -> Nat]
      /\ IsFiniteSet(Token!Tokens(balance')) /\ Cardinality(Token!Tokens(balance)) \in Nat
      /\ Cardinality(Token!Tokens(balance')) + balance[o]
           = Cardinality(Token!Tokens(balance)) + (balance[o] - a)
  BY <1>3, WalletChanges DEF CoinInv
<1>5. Cardinality(Token!Tokens(balance')) \in Nat
  BY <1>4, FS_CardinalityType
<1>6. TokenTyped'
  BY <1>2, <1>4 DEF CoinInv, TokenTyped
<1>7. Counted'
  BY <1>2, <1>3, <1>4, <1>5 DEF CoinInv, TokenTyped, Counted
<1>. QED
  BY <1>2, <1>6, <1>7 DEF CoinInv

\* receive_tokens and on_bounce: from a message into the balance.
LEMMA CreditKeeps ==
    ASSUME CoinInv, NEW m \in messages, NEW o \in Users,
           balance' = [balance EXCEPT ![o] = balance[o] + m.amount],
           messages' = messages \ {m},
           UNCHANGED <<total_supply, jettonSent, jettonLost, faults>>
    PROVE  CoinInv'
<1>1. /\ messages' \subseteq messages /\ MessagesAreSent' /\ m.amount \in Nat
      /\ IsFiniteSet(Token!Tokens(Carried')) /\ Cardinality(Token!Tokens(Carried')) \in Nat
      /\ Cardinality(Token!Tokens(Carried)) = Cardinality(Token!Tokens(Carried')) + m.amount
  BY MessageHandled
<1>2. balance[o] + m.amount \in Nat /\ balance[o] \in Nat
  BY <1>1 DEF CoinInv, TokenTyped
<1>3. /\ balance' \in [Users -> Nat]
      /\ IsFiniteSet(Token!Tokens(balance')) /\ Cardinality(Token!Tokens(balance)) \in Nat
      /\ Cardinality(Token!Tokens(balance')) + balance[o]
           = Cardinality(Token!Tokens(balance)) + (balance[o] + m.amount)
  BY <1>2, WalletChanges DEF CoinInv
<1>4. Cardinality(Token!Tokens(balance')) \in Nat
  BY <1>3, FS_CardinalityType
<1>5. TokenTyped'
  BY <1>1, <1>3 DEF CoinInv, TokenTyped
<1>6. Counted'
  BY <1>1, <1>2, <1>3, <1>4 DEF CoinInv, TokenTyped, Counted
<1>. QED
  BY <1>1, <1>5, <1>6 DEF CoinInv

LEMMA BurnedKeeps ==
    ASSUME CoinInv, NEW m \in messages, Token!BurnNotification(m) PROVE CoinInv'
<1>0. /\ messages' = messages \ {m} /\ total_supply' = total_supply - m.amount
      /\ UNCHANGED <<balance, jettonSent, jettonLost, faults>>
  BY DEF Token!BurnNotification
<1>1. /\ messages' \subseteq messages /\ MessagesAreSent' /\ m.amount \in Nat
      /\ IsFiniteSet(Token!Tokens(Carried')) /\ Cardinality(Token!Tokens(Carried')) \in Nat
      /\ Cardinality(Token!Tokens(Carried)) = Cardinality(Token!Tokens(Carried')) + m.amount
  BY <1>0, MessageHandled
<1>2. Cardinality(Token!Tokens(balance)) \in Nat
  BY FS_CardinalityType DEF CoinInv, Counted
<1>3. Counted' /\ total_supply' \in Nat
  BY <1>0, <1>1, <1>2 DEF CoinInv, TokenTyped, Counted
<1>4. TokenTyped'
  BY <1>0, <1>1, <1>3 DEF CoinInv, TokenTyped
<1>. QED
  BY <1>1, <1>3, <1>4 DEF CoinInv

\* IgnoreBounce and DropBounce: from a message into nothing.
LEMMA LoseKeeps ==
    ASSUME CoinInv, NEW m \in messages, messages' = messages \ {m},
           jettonLost' = jettonLost + m.amount, faults' \in 0..MaxLosses,
           UNCHANGED <<total_supply, balance, jettonSent>>
    PROVE  CoinInv'
<1>1. /\ messages' \subseteq messages /\ MessagesAreSent' /\ m.amount \in Nat
      /\ IsFiniteSet(Token!Tokens(Carried')) /\ Cardinality(Token!Tokens(Carried')) \in Nat
      /\ Cardinality(Token!Tokens(Carried)) = Cardinality(Token!Tokens(Carried')) + m.amount
  BY MessageHandled
<1>2. Cardinality(Token!Tokens(balance)) \in Nat
  BY FS_CardinalityType DEF CoinInv, Counted
<1>3. Counted'
  BY <1>1, <1>2 DEF CoinInv, TokenTyped, Counted
<1>4. TokenTyped'
  BY <1>1 DEF CoinInv, TokenTyped
<1>. QED
  BY <1>1, <1>3, <1>4 DEF CoinInv

LEMMA BounceKeeps == ASSUME CoinInv, NEW m \in messages, Token!Bounce(m) PROVE CoinInv'
<1> DEFINE n == [m EXCEPT !.bounced = TRUE]
<1>1. /\ ~m.bounced /\ faults < MaxLosses /\ faults' = faults + 1
      /\ messages' = (messages \ {m}) \cup {n}
      /\ UNCHANGED <<total_supply, balance, jettonSent, jettonLost>>
  BY DEF Token!Bounce
<1>2. /\ n \in [id : Token!Ids, op : {"internal_transfer", "burn_notification"},
                from : Users \cup {"minter"}, to : Users \cup {"minter"},
                amount : Amounts, bounced : BOOLEAN]
      /\ n.id = m.id /\ n.op = m.op /\ n.to = m.to /\ n.amount = m.amount
  BY DEF CoinInv, TokenTyped
<1> HIDE DEF n
<1>3. n \notin messages \ {m}
  BY <1>2 DEF CoinInv, MessagesAreSent
<1>4. /\ IsFiniteSet(Token!Tokens([x \in messages |-> x.amount])) /\ TokenTyped
      /\ Carried = [x \in messages |-> x.amount]
      /\ Carried' = [x \in (messages \ {m}) \cup {n} |-> x.amount]
  BY <1>1 DEF CoinInv, Counted, Carried
<1>5. /\ IsFiniteSet(Token!Tokens([x \in messages \ {m} |-> x.amount])) /\ m.amount \in Nat
      /\ Cardinality(Token!Tokens([x \in messages \ {m} |-> x.amount])) \in Nat
      /\ Cardinality(Token!Tokens([x \in messages |-> x.amount]))
           = Cardinality(Token!Tokens([x \in messages \ {m} |-> x.amount])) + m.amount
  BY <1>4, MessageLeaves
<1>6. /\ IsFiniteSet(Token!Tokens([x \in (messages \ {m}) \cup {n} |-> x.amount]))
      /\ Cardinality(Token!Tokens([x \in (messages \ {m}) \cup {n} |-> x.amount]))
           = Cardinality(Token!Tokens([x \in messages \ {m} |-> x.amount])) + n.amount
  BY <1>2, <1>3, <1>5, MessageComes
<1>7. IsFiniteSet(Token!Tokens(Carried')) /\ Cardinality(Token!Tokens(Carried')) = Cardinality(Token!Tokens(Carried))
  BY <1>2, <1>4, <1>5, <1>6
<1>8. Counted'
  BY <1>1, <1>7 DEF CoinInv, Counted
<1>9. TokenTyped'
  BY <1>1, <1>2, ServicesAssumption DEF ServicesAssumption, CoinInv, TokenTyped
<1>10. MessagesAreSent'
  BY <1>1, <1>2 DEF CoinInv, MessagesAreSent
<1>. QED
  BY <1>8, <1>9, <1>10 DEF CoinInv

LEMMA CoinStep == CoinInv /\ [Token!Next]_(Token!vars) => CoinInv'
<1>. SUFFICES ASSUME CoinInv, [Token!Next]_(Token!vars) PROVE CoinInv'
  OBVIOUS
<1>1. CASE UNCHANGED Token!vars
  BY <1>1 DEF Token!vars, CoinInv, TokenTyped, MessagesAreSent, Counted, Carried
<1>2. ASSUME NEW o \in Users, NEW a \in Amounts, Token!Mint(o, a) PROVE CoinInv'
  BY <1>2, MintKeeps
<1>3. ASSUME NEW o \in Users, NEW a \in Amounts, Token!BurnTokens(o, a) PROVE CoinInv'
  BY <1>3, SpendKeeps DEF Token!BurnTokens, Token!Minter
<1>4. ASSUME NEW o \in Users, NEW to \in Users, NEW a \in Amounts, Token!SendTokens(o, to, a)
      PROVE  CoinInv'
  BY <1>4, SpendKeeps DEF Token!SendTokens
<1>5. ASSUME NEW m \in messages, Token!ReceiveTokens(m) PROVE CoinInv'
  BY <1>5, CreditKeeps DEF Token!ReceiveTokens, CoinInv, MessagesAreSent
<1>6. ASSUME NEW m \in messages, Token!OnBounce(m) PROVE CoinInv'
  <2>1. m.from \in Users
    BY <1>6 DEF Token!OnBounce, Token!Minter, CoinInv, TokenTyped
  <2>. QED
    BY <1>6, <2>1, CreditKeeps DEF Token!OnBounce
<1>7. ASSUME NEW m \in messages, Token!IgnoreBounce(m) PROVE CoinInv'
  BY <1>7, LoseKeeps DEF Token!IgnoreBounce, CoinInv, TokenTyped
<1>8. ASSUME NEW m \in messages, Token!DropBounce(m) PROVE CoinInv'
  <2>1. faults' \in 0..MaxLosses
    BY <1>8, ServicesAssumption DEF ServicesAssumption, Token!DropBounce, CoinInv, TokenTyped
  <2>. QED
    BY <1>8, <2>1, LoseKeeps DEF Token!DropBounce
<1>. QED
  BY <1>1, <1>2, <1>3, <1>4, <1>5, <1>6, <1>7, <1>8, BurnedKeeps, BounceKeeps DEF Token!Next

\* No operation, bounce or fault makes or destroys a token that is not counted
\* (jetton-minter.fc and jetton-wallet.fc).
THEOREM TokensAreConserved == Token!Spec => []Token!Conserved
<1>1. CoinInv => Token!Conserved
  BY TokenCounts DEF CoinInv, Counted, Token!Conserved, Carried
<1>. QED
  BY <1>1, CoinInit, CoinStep, PTL DEF Token!Spec

-------------------------------------------------------------------------------
(* The chats: what a request to open one finds, and what it creates.       *)

OpeningStates == {"idle", "missing", "chat", "members", "half", "answered", "failed"}

OpeningTyped ==
    /\ chats \subseteq Three
    /\ members \in [Three -> SUBSET Opening!Members] /\ published \in [Three -> SUBSET Opening!Members]
    /\ chatRequest \in [Three -> [state : OpeningStates, chat : Three \cup {Opening!NoChat}]]
    /\ deletion \in [Deletions -> [state : {"idle", "member", "members", "done"},
                                   chat : Three \cup {Opening!NoChat}]]
    /\ complete \in [Three -> SUBSET Three]
    /\ \A d \in Deletions : deletion[d].state = "idle" => deletion[d].chat = Opening!NoChat

\* How far the creation of a chat has come tells which rows there are.
OpeningProgress ==
    \A r \in Three :
        /\ chatRequest[r].state \in {"idle", "missing"} => r \notin chats
        /\ chatRequest[r].state \in {"idle", "missing", "chat"} => members[r] = {} /\ ~Opening!Deleting(r)
        /\ chatRequest[r].state = "chat" => r \in chats
        /\ chatRequest[r].state \in {"members", "half"} => chatRequest[r].chat = r
        /\ chatRequest[r].state \in {"members", "half"} /\ ~Opening!Deleting(r) => r \in Opening!Existing
        /\ r \in chats => \/ chatRequest[r].state \in {"chat", "members", "half", "failed"}
                          \/ published[r] = Opening!Members

\* Whoever inserts a chat has found none.
FoundNone ==
    \A r \in Three : chatRequest[r].state = "missing" \/ r \in chats => complete[r] = {}

\* An answer names a chat that both are in until somebody destroys it.
AnswerExists ==
    \A r \in Three : chatRequest[r].state = "answered" =>
        /\ chatRequest[r].chat \in Three
        /\ Opening!Deleting(chatRequest[r].chat) \/ chatRequest[r].chat \in Opening!Existing

OInv == OpeningTyped /\ OpeningProgress /\ FoundNone /\ AnswerExists

\* There is no chat, and NoChat names none.
LEMMA OpeningInit == Opening!NoChat \notin Three /\ Opening!Init => OInv
<1> SUFFICES ASSUME Opening!NoChat \notin Three, Opening!Init PROVE OInv
  OBVIOUS
<1>1. OpeningTyped
  BY DEF Opening!Init, OpeningTyped, OpeningStates
<1>2. \A r \in Three : ~Opening!Deleting(r) /\ chatRequest[r].state = "idle" /\ members[r] = {}
  BY DEF Opening!Init, Opening!Deleting
<1>. QED
  BY <1>1, <1>2 DEF Opening!Init, OInv, OpeningProgress, FoundNone, AnswerExists

\* What Goto does to the requests.
LEMMA OpeningMoves ==
    ASSUME OpeningTyped, NEW r \in Three, NEW state \in OpeningStates,
           NEW chat \in Three \cup {Opening!NoChat},
           Opening!Goto(r, state, chat)
    PROVE  /\ chatRequest' \in [Three -> [state : OpeningStates, chat : Three \cup {Opening!NoChat}]]
           /\ chatRequest'[r].state = state /\ chatRequest'[r].chat = chat
           /\ \A q \in Three \ {r} : chatRequest'[q] = chatRequest[q]
BY DEF OpeningTyped, Opening!Goto

LEMMA OpeningFindKeeps == ASSUME OInv, NEW r \in Three, Opening!Find(r) PROVE OInv'
<1>1. /\ chatRequest[r].state = "idle" /\ UNCHANGED <<chats, members, published, deletion>>
      /\ complete' = [complete EXCEPT ![r] = {c \in chats : members[c] = Opening!Members}]
  BY DEF Opening!Find
<1>2. PICK state \in {"answered", "missing"}, chat \in Three \cup {Opening!NoChat} :
        /\ Opening!Goto(r, state, chat)
        /\ state = "answered" => chat \in Opening!Existing
        /\ state = "missing" => Opening!Existing = {}
  BY DEF Opening!Find, Opening!Existing, OInv, OpeningTyped
<1>3. /\ chatRequest' \in [Three -> [state : OpeningStates, chat : Three \cup {Opening!NoChat}]]
      /\ chatRequest'[r].state = state /\ chatRequest'[r].chat = chat
      /\ \A q \in Three \ {r} : chatRequest'[q] = chatRequest[q]
  BY <1>2, OpeningMoves DEF OInv, OpeningStates
<1>4. OpeningTyped'
  BY <1>1, <1>3 DEF OInv, OpeningTyped
<1>5. Opening!Existing' = Opening!Existing /\ \A c : Opening!Deleting(c)' <=> Opening!Deleting(c)
  BY <1>1 DEF Opening!Existing, Opening!Deleting
<1>6. r \notin chats /\ members[r] = {} /\ ~Opening!Deleting(r)
  BY <1>1 DEF OInv, OpeningProgress
<1>7. OpeningProgress'
  BY <1>1, <1>3, <1>5, <1>6 DEF OInv, OpeningProgress
<1>8. FoundNone'
  BY <1>1, <1>2, <1>3, <1>6 DEF OInv, OpeningTyped, FoundNone, Opening!Existing
<1>9. AnswerExists'
  BY <1>2, <1>3, <1>5 DEF OInv, OpeningTyped, AnswerExists, Opening!Existing
<1>. QED
  BY <1>4, <1>7, <1>8, <1>9 DEF OInv

LEMMA InsertChatKeeps == ASSUME OInv, NEW r \in Three, Opening!InsertChat(r) PROVE OInv'
<1>1. /\ chatRequest[r].state = "missing" /\ chats' = chats \cup {r}
      /\ UNCHANGED <<members, published, deletion, complete>>
  BY DEF Opening!InsertChat
<1>2. /\ chatRequest' \in [Three -> [state : OpeningStates, chat : Three \cup {Opening!NoChat}]]
      /\ chatRequest'[r].state = "chat" /\ chatRequest'[r].chat = r
      /\ \A q \in Three \ {r} : chatRequest'[q] = chatRequest[q]
  BY OpeningMoves DEF OInv, OpeningStates, Opening!InsertChat
<1>3. OpeningTyped'
  BY <1>1, <1>2 DEF OInv, OpeningTyped
<1>4. members[r] = {} /\ ~Opening!Deleting(r)
  BY <1>1 DEF OInv, OpeningProgress
<1>5. Opening!Existing' = Opening!Existing /\ \A c : Opening!Deleting(c)' <=> Opening!Deleting(c)
  BY <1>1, <1>4 DEF Opening!Existing, Opening!Deleting, Opening!Members
<1>6. OpeningProgress'
  BY <1>1, <1>2, <1>4, <1>5 DEF OInv, OpeningProgress
<1>7. FoundNone' /\ AnswerExists'
  BY <1>1, <1>2, <1>5 DEF OInv, FoundNone, AnswerExists
<1>. QED
  BY <1>3, <1>6, <1>7 DEF OInv

LEMMA InsertMembersKeeps == ASSUME OInv, NEW r \in Three, Opening!InsertMembers(r) PROVE OInv'
<1>1. /\ chatRequest[r].state = "chat" /\ members' = [members EXCEPT ![r] = Opening!Members]
      /\ UNCHANGED <<chats, published, deletion, complete>>
  BY DEF Opening!InsertMembers
<1>2. /\ chatRequest' \in [Three -> [state : OpeningStates, chat : Three \cup {Opening!NoChat}]]
      /\ chatRequest'[r].state = "members" /\ chatRequest'[r].chat = r
      /\ \A q \in Three \ {r} : chatRequest'[q] = chatRequest[q]
  BY OpeningMoves DEF OInv, OpeningStates, Opening!InsertMembers
<1>3. OpeningTyped'
  BY <1>1, <1>2 DEF OInv, OpeningTyped
<1>4. r \in chats
  BY <1>1 DEF OInv, OpeningProgress
<1>5. /\ members'[r] = Opening!Members /\ \A c \in Three \ {r} : members'[c] = members[c]
      /\ \A c : Opening!Deleting(c)' <=> Opening!Deleting(c)
  BY <1>1 DEF OInv, OpeningTyped, Opening!Deleting
<1>6. r \in Opening!Existing' /\ \A c \in Opening!Existing : c \in Opening!Existing'
  BY <1>1, <1>4, <1>5 DEF Opening!Existing, OInv, OpeningTyped
<1>7. OpeningProgress'
  BY <1>1, <1>2, <1>5, <1>6 DEF OInv, OpeningProgress
<1>8. FoundNone' /\ AnswerExists'
  BY <1>1, <1>2, <1>5, <1>6 DEF OInv, FoundNone, AnswerExists
<1>. QED
  BY <1>3, <1>7, <1>8 DEF OInv

LEMMA PublishJoinedKeeps == ASSUME OInv, NEW r \in Three, Opening!PublishJoined(r) PROVE OInv'
<1>1. UNCHANGED <<chats, members, deletion, complete>>
  BY DEF Opening!PublishJoined
<1>2. PICK state \in {"half", "answered"}, who \in SUBSET Opening!Members :
        /\ chatRequest[r].state \in {"members", "half"} /\ Opening!Goto(r, state, r)
        /\ published' = [published EXCEPT ![r] = who]
        /\ state = "answered" => who = Opening!Members
  BY DEF Opening!PublishJoined, Opening!Members
<1>3. /\ chatRequest' \in [Three -> [state : OpeningStates, chat : Three \cup {Opening!NoChat}]]
      /\ chatRequest'[r].state = state /\ chatRequest'[r].chat = r
      /\ \A q \in Three \ {r} : chatRequest'[q] = chatRequest[q]
  BY <1>2, OpeningMoves DEF OInv, OpeningStates
<1>4. OpeningTyped'
  BY <1>1, <1>2, <1>3 DEF OInv, OpeningTyped
<1>5. /\ published'[r] = who /\ \A c \in Three \ {r} : published'[c] = published[c]
      /\ Opening!Existing' = Opening!Existing /\ \A c : Opening!Deleting(c)' <=> Opening!Deleting(c)
  BY <1>1, <1>2 DEF OInv, OpeningTyped, Opening!Deleting, Opening!Existing
<1>6. OpeningProgress'
  BY <1>1, <1>2, <1>3, <1>5 DEF OInv, OpeningProgress
<1>7. FoundNone' /\ AnswerExists'
  BY <1>1, <1>2, <1>3, <1>5 DEF OInv, OpeningProgress, FoundNone, AnswerExists
<1>. QED
  BY <1>4, <1>6, <1>7 DEF OInv

LEMMA OpeningStopKeeps == ASSUME OInv, NEW r \in Three, Opening!Stop(r) PROVE OInv'
<1>1. /\ UNCHANGED <<chats, members, published, deletion, complete>>
      /\ chatRequest[r].chat \in Three \cup {Opening!NoChat}
  BY DEF Opening!Stop, OInv, OpeningTyped
<1>2. /\ chatRequest' \in [Three -> [state : OpeningStates, chat : Three \cup {Opening!NoChat}]]
      /\ chatRequest'[r].state = "failed"
      /\ \A q \in Three \ {r} : chatRequest'[q] = chatRequest[q]
  BY <1>1, OpeningMoves DEF OInv, OpeningStates, Opening!Stop
<1>3. OpeningTyped'
  BY <1>1, <1>2 DEF OInv, OpeningTyped
<1>4. Opening!Existing' = Opening!Existing /\ \A c : Opening!Deleting(c)' <=> Opening!Deleting(c)
  BY <1>1 DEF Opening!Existing, Opening!Deleting
<1>5. OpeningProgress' /\ FoundNone' /\ AnswerExists'
  BY <1>1, <1>2, <1>4 DEF OInv, OpeningProgress, FoundNone, AnswerExists
<1>. QED
  BY <1>3, <1>5 DEF OInv

\* Destroying a chat: nothing but the chat it names changes.
LEMMA DeletionKeeps ==
    ASSUME OInv, Opening!NoChat \notin Three, NEW d \in Deletions,
           Opening!StartDelete(d) \/ Opening!DeleteMembers(d) \/ Opening!DeleteChat(d)
    PROVE  OInv'
<1>1. UNCHANGED <<published, chatRequest, complete>>
  BY DEF Opening!StartDelete, Opening!DeleteMembers, Opening!DeleteChat
<1>2. OpeningTyped'
  <2>1. CASE Opening!StartDelete(d)
    BY <2>1 DEF OInv, OpeningTyped, Opening!StartDelete, Opening!Existing
  <2>2. CASE Opening!DeleteMembers(d)
    BY <2>2 DEF OInv, OpeningTyped, Opening!DeleteMembers
  <2>3. CASE Opening!DeleteChat(d)
    BY <2>3 DEF OInv, OpeningTyped, Opening!DeleteChat
  <2>. QED
    BY <2>1, <2>2, <2>3
<1>3. chats' \subseteq chats
  BY DEF Opening!StartDelete, Opening!DeleteMembers, Opening!DeleteChat
<1>4. \A c \in Three : members'[c] = members[c] \/ members'[c] = {}
  BY DEF OInv, OpeningTyped, Opening!StartDelete, Opening!DeleteMembers, Opening!DeleteChat
<1>5. \A c \in Three : Opening!Deleting(c) => Opening!Deleting(c)'
  <2>1. \A e \in Deletions : deletion[e].chat \in Three => deletion'[e].chat = deletion[e].chat
    BY DEF OInv, OpeningTyped, Opening!StartDelete, Opening!DeleteMembers, Opening!DeleteChat
  <2>. QED
    BY <2>1 DEF Opening!Deleting
<1>6. \A c \in Three : Opening!Deleting(c)' /\ ~Opening!Deleting(c) => c \in Opening!Existing
  <2>1. CASE Opening!StartDelete(d)
    BY <2>1 DEF OInv, OpeningTyped, Opening!StartDelete, Opening!Deleting
  <2>2. CASE Opening!DeleteMembers(d) \/ Opening!DeleteChat(d)
    <3>1. \A e \in Deletions : deletion'[e].chat = deletion[e].chat
      BY <2>2 DEF OInv, OpeningTyped, Opening!DeleteMembers, Opening!DeleteChat
    <3>. QED
      BY <3>1 DEF Opening!Deleting
  <2>. QED
    BY <2>1, <2>2
<1>7. \A c \in Three : ~Opening!Deleting(c) => members'[c] = members[c] /\ (c \in chats' <=> c \in chats)
  BY DEF OInv, OpeningTyped, Opening!StartDelete, Opening!DeleteMembers, Opening!DeleteChat, Opening!Deleting
<1>8. \A c \in Three : ~Opening!Deleting(c)' => (c \in Opening!Existing' <=> c \in Opening!Existing)
  BY <1>5, <1>7 DEF Opening!Existing
<1>9. OpeningProgress'
  <2> SUFFICES ASSUME NEW r \in Three
               PROVE  /\ chatRequest[r].state \in {"idle", "missing"} => r \notin chats'
                      /\ chatRequest[r].state \in {"idle", "missing", "chat"}
                           => members'[r] = {} /\ ~Opening!Deleting(r)'
                      /\ chatRequest[r].state = "chat" => r \in chats'
                      /\ chatRequest[r].state \in {"members", "half"} => chatRequest[r].chat = r
                      /\ chatRequest[r].state \in {"members", "half"} /\ ~Opening!Deleting(r)' => r \in Opening!Existing'
                      /\ r \in chats' => \/ chatRequest[r].state \in {"chat", "members", "half", "failed"}
                                         \/ published[r] = Opening!Members
    BY <1>1 DEF OpeningProgress
  <2>1. members[r] = {} => r \notin Opening!Existing
    BY DEF Opening!Existing, Opening!Members
  <2>. QED
    BY <2>1, <1>3, <1>4, <1>5, <1>6, <1>7, <1>8 DEF OInv, OpeningProgress
<1>10. FoundNone'
  BY <1>1, <1>3 DEF OInv, FoundNone
<1>11. AnswerExists'
  BY <1>1, <1>5, <1>8 DEF OInv, AnswerExists
<1>. QED
  BY <1>2, <1>9, <1>10, <1>11 DEF OInv

LEMMA OpeningStep == Opening!NoChat \notin Three /\ OInv /\ [Opening!Next]_(Opening!vars) => OInv'
<1>1. OInv /\ UNCHANGED Opening!vars => OInv'
  BY DEF Opening!vars, OInv, OpeningTyped, OpeningProgress, FoundNone, AnswerExists,
         Opening!Existing, Opening!Deleting
<1>. QED
  BY <1>1, OpeningFindKeeps, InsertChatKeeps, InsertMembersKeeps, PublishJoinedKeeps,
     OpeningStopKeeps, DeletionKeeps
  DEF Opening!Next

\* An answer names the chat of the two users, complete and announced or on its way to
\* be, and two chats come only of requests that could not see each other's (POST /chats).
THEOREM OneChatOfTwo == Opening!Spec => []Opening!FindOrCreate
<1>. Opening!NoChat \notin Three
  BY ServicesAssumption DEF Opening!NoChat
<1>1. OInv => Opening!FindOrCreate
  <2> SUFFICES ASSUME OInv PROVE Opening!FindOrCreate
    OBVIOUS
  <2>1. ASSUME NEW c \in Opening!Existing
        PROVE  /\ c \in Three /\ complete[c] = {}
               /\ published[c] = Opening!Members \/ chatRequest[c].state \in {"members", "half", "failed"}
    <3>1. c \in Three /\ c \in chats /\ members[c] # {}
      BY DEF OInv, OpeningTyped, Opening!Existing, Opening!Members
    <3>. QED
      BY <3>1 DEF OInv, OpeningProgress, FoundNone
  <2>2. ASSUME NEW r \in Three, chatRequest[r].state = "answered", ~Opening!Deleting(chatRequest[r].chat)
        PROVE  chatRequest[r].chat \in Opening!Existing
    BY <2>2 DEF OInv, AnswerExists
  <2>. QED
    BY <2>1, <2>2 DEF Opening!FindOrCreate
<1>. QED
  BY <1>1, OpeningInit, OpeningStep, PTL DEF Opening!Spec

-------------------------------------------------------------------------------
(* Types: every variable of every component has its type, and what the     *)
(* type invariants say besides.                                            *)

\* Every bound is a number, and nothing has been counted at first.
LEMMA Bounds ==
    \A n \in {MaxPairs, MaxBuilds, MaxSecrets, MaxFaults, MaxLosses} : n \in Nat /\ 0 \in 0..n
<1>1. \A n \in {MaxPairs, MaxBuilds, MaxSecrets, MaxFaults, MaxLosses} : n \in Nat
  BY ServicesAssumption
<1>2. \A n \in Nat : 0 \in 0..n
  OBVIOUS
<1>. QED
  BY <1>1, <1>2

\* Who joins a rebuild joins one that is coming.
TreeComes ==
    /\ treeBuild # 0 => build[treeBuild].state \in {"asked", "read"}
    /\ \A r \in Readers : reader[r].state = "waiting" => reader[r].joined \in Transparency!Builds

LogTypes == Transparency!TypeOK /\ TreeComes

LEMMA LogTypesInit == Transparency!Init => LogTypes
<1> SUFFICES ASSUME Transparency!Init PROVE LogTypes
  OBVIOUS
<1>1. 0 \in 0..MaxBuilds /\ 0 \in 0..1 /\ 1 \in Nat
  BY Bounds
<1>2. /\ log = 1 /\ treeCache = 0 /\ treeBuild = 0 /\ straddled = {}
      /\ publisher = [r \in Two |-> [state |-> "idle", row |-> 0]]
      /\ build = [b \in Transparency!Builds |-> [state |-> "unused", leaves |-> 0]]
      /\ \A r \in Readers : reader[r].state = "idle"
  BY DEF Transparency!Init, Transparency!NoTree
<1>3. Transparency!TypeOK
  BY <1>1, <1>2 DEF Transparency!TypeOK
<1>. QED
  BY <1>2, <1>3 DEF LogTypes, TreeComes

\* The request that appends a row, and the one that drops the tree.
LEMMA LogTypesPublish ==
    ASSUME KInv, LogTypes, NEW r \in Two, Transparency!Append(r) \/ Transparency!Invalidate(r)
    PROVE  LogTypes'
<1>1. log' \in Nat /\ log <= log' /\ log \in Nat
  BY DEF KInv, LogTyped, Transparency!Append, Transparency!Invalidate
<1>2. \A i : i \in 0..log => i \in 0..log'
  BY <1>1
<1>3. publisher' \in [Two -> [state : {"idle", "appended", "done"}, row : 0..log']]
  <2>1. publisher \in [Two -> [state : {"idle", "appended", "done"}, row : 0..log']]
    BY <1>2 DEF LogTypes, Transparency!TypeOK
  <2>2. CASE Transparency!Append(r)
    <3>1. log + 1 \in 0..log'
      BY <2>2, <1>1 DEF Transparency!Append
    <3>. QED
      BY <2>1, <2>2, <3>1 DEF Transparency!Append
  <2>3. CASE Transparency!Invalidate(r)
    BY <2>1, <2>3 DEF Transparency!Invalidate
  <2>. QED
    BY <2>2, <2>3
<1>4. treeCache' \in 0..log' /\ treeBuild' \in 0..MaxBuilds
  <2>1. UNCHANGED <<treeCache, treeBuild>> \/ (treeCache' = 0 /\ treeBuild' = 0)
    BY DEF Transparency!Append, Transparency!Invalidate, Transparency!NoTree
  <2>2. treeCache \in 0..log /\ treeBuild \in 0..MaxBuilds
    BY DEF LogTypes, Transparency!TypeOK
  <2>3. 0 \in 0..MaxBuilds /\ 0 \in 0..log'
    BY <1>1, Bounds
  <2>. QED
    BY <1>2, <2>1, <2>2, <2>3
<1>5. UNCHANGED <<build, reader>> /\ (treeBuild' = treeBuild \/ treeBuild' = 0)
  BY DEF Transparency!Append, Transparency!Invalidate
<1>6. straddled' \subseteq 1..log'
  <2>1. straddled \subseteq 1..log /\ 1..log \subseteq 1..log'
    BY <1>1 DEF LogTypes, Transparency!TypeOK
  <2>2. CASE Transparency!Append(r)
    BY <2>1, <2>2 DEF Transparency!Append
  <2>3. CASE Transparency!Invalidate(r)
    <3>1. publisher[r].row \in 0..log /\ log' = log
      BY <2>3 DEF LogTypes, Transparency!TypeOK, Transparency!Invalidate
    <3>2. Transparency!Lacking(publisher[r].row) => publisher[r].row \in 1..log
      BY <1>1, <3>1 DEF Transparency!Lacking, KInv, LogTyped, Build
    <3>. QED
      BY <2>1, <2>3, <3>1, <3>2 DEF Transparency!Invalidate
  <2>. QED
    BY <2>2, <2>3
<1>. QED
  BY <1>1, <1>2, <1>3, <1>4, <1>5, <1>6 DEF LogTypes, Transparency!TypeOK, TreeComes

\* A reader gets the cached tree, or joins the rebuild there is, or starts one.
LEMMA LogTypesReader ==
    ASSUME KInv, LogTypes, NEW r \in Readers, Transparency!GetEntry(r) \/ Transparency!GetTree(r)
    PROVE  LogTypes'
<1>1. UNCHANGED <<log, publisher, treeCache, straddled>>
  BY DEF Transparency!GetEntry, Transparency!GetTree
<1>2. CASE UNCHANGED <<treeBuild, build>> /\ \A q \in Readers :
             /\ reader'[q].state \in {"idle", "entry", "waiting", "done", "failed"}
             /\ reader'[q].state = "waiting"
                  => \/ reader[q].state = "waiting" /\ reader'[q].joined = reader[q].joined
                     \/ treeBuild # 0 /\ reader'[q].joined = treeBuild
  <2>1. treeBuild # 0 => treeBuild \in Transparency!Builds
    BY DEF KInv, LogTyped
  <2>2. \A q \in Readers : reader'[q].state = "waiting" =>
          /\ build[reader'[q].joined].state \in {"asked", "read"}
          /\ reader'[q].joined \in Transparency!Builds
    BY <1>2, <2>1 DEF LogTypes, Transparency!TypeOK, TreeComes
  <2>. QED
    BY <1>1, <1>2, <2>2 DEF LogTypes, Transparency!TypeOK, TreeComes
<1>3. ASSUME NEW b \in Transparency!Builds, build[b].state = "unused",
             build' = [build EXCEPT ![b].state = "asked"], treeBuild' = b, Transparency!Join(r, b)
      PROVE  LogTypes'
  <2>1. /\ build'[b].state = "asked" /\ build'[b].leaves = build[b].leaves
        /\ \A c \in Transparency!Builds \ {b} : build'[c] = build[c]
    BY <1>3 DEF KInv, LogTyped, Build
  <2>2. /\ reader'[r].state = "waiting" /\ reader'[r].joined = b
        /\ \A q \in Readers \ {r} : reader'[q] = reader[q]
    BY <1>3 DEF Transparency!Join, KInv, LogTyped, Reader
  <2>3. \A q \in Readers : reader'[q].state = "waiting" =>
          /\ build'[reader'[q].joined].state \in {"asked", "read"}
          /\ reader'[q].joined \in Transparency!Builds
    BY <1>3, <2>1, <2>2 DEF LogTypes, Transparency!TypeOK, TreeComes
  <2>4. \A q \in Readers : reader'[q].state \in {"idle", "entry", "waiting", "done", "failed"}
    BY <2>2 DEF LogTypes, Transparency!TypeOK
  <2>5. b \in 0..MaxBuilds
    BY Bounds DEF Transparency!Builds
  <2>. QED
    BY <1>1, <1>3, <2>1, <2>3, <2>4, <2>5 DEF LogTypes, Transparency!TypeOK, TreeComes
<1>4. CASE Transparency!GetEntry(r)
  <2>1. \A q \in Readers : reader'[q].state = (IF q = r THEN "entry" ELSE reader[q].state)
                             /\ reader'[q].joined = reader[q].joined
    BY <1>4 DEF Transparency!GetEntry, KInv, LogTyped, Reader
  <2>2. \A q \in Readers : reader[q].state \in {"idle", "entry", "waiting", "done", "failed"}
    BY DEF LogTypes, Transparency!TypeOK
  <2>3. UNCHANGED <<treeBuild, build>>
    BY <1>4 DEF Transparency!GetEntry
  <2>4. \A q \in Readers :
          /\ reader'[q].state \in {"idle", "entry", "waiting", "done", "failed"}
          /\ reader'[q].state = "waiting"
               => reader[q].state = "waiting" /\ reader'[q].joined = reader[q].joined
    BY <2>1, <2>2
  <2>. QED
    BY <1>2, <2>3, <2>4
<1>5. CASE /\ UNCHANGED <<treeBuild, build>>
           /\ \/ reader' = [reader EXCEPT ![r].state = "done", ![r].leaves = treeCache,
                                  ![r].excused = \/ Transparency!Publishing(reader[r].entry)
                                                 \/ reader[r].entry \in straddled]
              \/ treeBuild # 0 /\ Transparency!Join(r, treeBuild)
  <2>1. \A q \in Readers : reader[q].state \in {"idle", "entry", "waiting", "done", "failed"}
    BY DEF LogTypes, Transparency!TypeOK
  <2>2. \A q \in Readers \ {r} : reader'[q] = reader[q]
    BY <1>5 DEF KInv, LogTyped, Reader, Transparency!Join
  <2>3. \/ reader'[r].state = "done"
        \/ reader'[r].state = "waiting" /\ treeBuild # 0 /\ reader'[r].joined = treeBuild
    BY <1>5 DEF KInv, LogTyped, Reader, Transparency!Join
  <2>. QED
    BY <1>2, <1>5, <2>1, <2>2, <2>3
<1>. QED
  BY <1>3, <1>4, <1>5 DEF Transparency!GetTree

\* A rebuild reads the log, and ends for everyone who joined it.
LEMMA LogTypesBuild ==
    ASSUME KInv, LogTypes, NEW b \in Transparency!Builds,
           \/ Transparency!ReadLeaves(b)
           \/ Transparency!EndBuild(b) \/ Transparency!FailBuild(b)
    PROVE  LogTypes'
<1>1. UNCHANGED <<log, publisher, straddled>> /\ log \in Nat /\ log \in 0..log
  <2>1. UNCHANGED <<log, publisher, straddled>> /\ log \in Nat
    BY DEF Transparency!ReadLeaves, Transparency!EndBuild, Transparency!FailBuild, KInv, LogTyped
  <2>. QED
    BY <2>1
<1>2. CASE Transparency!ReadLeaves(b)
  <2>1. /\ build'[b].state = "read" /\ build'[b].leaves = log
        /\ \A c \in Transparency!Builds \ {b} : build'[c] = build[c]
    BY <1>2 DEF Transparency!ReadLeaves, KInv, LogTyped, Build
  <2>2. treeBuild \in Transparency!Builds \cup {0}
    BY DEF KInv, LogTyped
  <2>. QED
    BY <1>1, <1>2, <2>1, <2>2 DEF Transparency!ReadLeaves, LogTypes, Transparency!TypeOK, TreeComes
<1>3. CASE Transparency!EndBuild(b) \/ Transparency!FailBuild(b)
  <2>1. /\ build'[b].state = "done" /\ build'[b].leaves = build[b].leaves
        /\ \A c \in Transparency!Builds \ {b} : build'[c] = build[c]
    BY <1>3 DEF Transparency!EndBuild, Transparency!FailBuild, KInv, LogTyped, Build
  <2>2. \A q \in Readers :
          IF reader[q].state = "waiting" /\ reader[q].joined = b
          THEN reader'[q].state \in {"done", "failed"}
          ELSE reader'[q] = reader[q]
    <3>1. CASE Transparency!EndBuild(b)
      BY <3>1 DEF Transparency!EndBuild, KInv, LogTyped, Reader
    <3>2. CASE Transparency!FailBuild(b)
      BY <3>2 DEF Transparency!FailBuild, KInv, LogTyped, Reader
    <3>. QED
      BY <1>3, <3>1, <3>2
  <2>3. \A q \in Readers : reader'[q].state = "waiting" =>
          /\ build'[reader'[q].joined].state \in {"asked", "read"}
          /\ reader'[q].joined \in Transparency!Builds
    BY <2>1, <2>2 DEF LogTypes, Transparency!TypeOK, TreeComes
  <2>4. treeCache' \in 0..log /\ treeBuild' = 0 /\ 0 \in 0..MaxBuilds
    <3>1. treeCache' \in {treeCache, build[b].leaves} /\ treeBuild' = 0
      BY <1>3 DEF Transparency!EndBuild, Transparency!FailBuild
    <3>2. treeCache \in 0..log /\ build[b].leaves \in 0..log
      BY DEF LogTypes, Transparency!TypeOK
    <3>. QED
      BY <3>1, <3>2, Bounds
  <2>5. \A q \in Readers : reader'[q].state \in {"idle", "entry", "waiting", "done", "failed"}
    BY <2>2 DEF LogTypes, Transparency!TypeOK
  <2>. QED
    BY <1>1, <1>3, <2>1, <2>3, <2>4, <2>5
    DEF LogTypes, Transparency!TypeOK, TreeComes
<1>. QED
  BY <1>2, <1>3

\* Whoever joins a rebuild is not left with one that has ended or was never asked for
\* (kt.routes.ts getTree).
THEOREM RebuildsAreComing == Transparency!Spec => []Transparency!TypeOK
<1> DEFINE I == KInv /\ LogTypes
<1>1. Transparency!Init => I
  BY KeyLogInit, LogTypesInit
<1>2. I /\ [Transparency!Next]_(Transparency!vars) => I'
  <2>1. LogTypes /\ UNCHANGED Transparency!vars => LogTypes'
    BY DEF Transparency!vars, LogTypes, Transparency!TypeOK, TreeComes
  <2>. QED
    BY <2>1, KeyLogStep, LogTypesPublish, LogTypesReader, LogTypesBuild DEF Transparency!Next
<1>3. I => Transparency!TypeOK
  BY DEF LogTypes
<1> HIDE DEF I
<1>. QED
  BY <1>1, <1>2, <1>3, PTL DEF Transparency!Spec

\* One more handler stops half-way, or none does.
LEMMA FaultsCounted ==
    ASSUME NEW n \in Nat, faults \in 0..n,
           faults' = faults \/ (faults < n /\ faults' = faults + 1)
    PROVE  faults' \in 0..n
OBVIOUS

\* Every operation on presence has its type.
LEMMA PresenceTypes == Watch!Spec => []Watch!TypeOK
<1> DEFINE I == PInv /\ faults \in 0..MaxFaults
<1>1. Watch!Init => I
  BY PresenceInit, Bounds DEF Watch!Init
<1>2. I /\ [Watch!Next]_(Watch!vars) => I'
  <2> SUFFICES ASSUME I, [Watch!Next]_(Watch!vars) PROVE faults' \in 0..MaxFaults
    BY PresenceStep
  <2>1. faults' = faults \/ (faults < MaxFaults /\ faults' = faults + 1)
    BY DEF Watch!Next, Watch!vars, Watch!Look, Watch!List, Watch!CheckHeartbeat, Watch!LookAgain,
       Watch!Write, Watch!Publish, Watch!SetHeartbeat, Watch!EnsureOnline, Watch!Expire, Watch!Fail
  <2>. QED
    BY <2>1, Bounds, FaultsCounted
<1>3. I => Watch!TypeOK
  BY DEF PInv, PresenceTyped, CallType, CallStates, Watch!TypeOK
<1> HIDE DEF I
<1>. QED
  BY <1>1, <1>2, <1>3, PTL DEF Watch!Spec

\* Chats are created and destroyed with both members.
LEMMA OpeningTypes == Opening!Spec => []Opening!TypeOK
<1> DEFINE I == /\ OInv /\ faults \in 0..MaxFaults
                /\ \A c \in Three : members[c] \in {{}, Opening!Members}
<1>0. Opening!NoChat \notin Three
  BY ServicesAssumption DEF Opening!NoChat
<1>1. Opening!Init => I
  BY <1>0, OpeningInit, Bounds DEF Opening!Init
<1>2. I /\ [Opening!Next]_(Opening!vars) => I'
  <2> SUFFICES ASSUME I, [Opening!Next]_(Opening!vars)
               PROVE  /\ faults' \in 0..MaxFaults
                      /\ \A c \in Three : members'[c] \in {{}, Opening!Members}
    BY <1>0, OpeningStep
  <2>1. faults' = faults \/ (faults < MaxFaults /\ faults' = faults + 1)
    BY DEF Opening!Next, Opening!vars, Opening!Find, Opening!InsertChat, Opening!InsertMembers,
       Opening!PublishJoined, Opening!Stop, Opening!StartDelete, Opening!DeleteMembers,
       Opening!DeleteChat
  <2>2. \/ members' = members
        \/ \E c : members' = [members EXCEPT ![c] = Opening!Members]
        \/ \E c : members' = [members EXCEPT ![c] = {}]
    BY DEF Opening!Next, Opening!vars, Opening!Find, Opening!InsertChat, Opening!InsertMembers,
       Opening!PublishJoined, Opening!Stop, Opening!StartDelete, Opening!DeleteMembers,
       Opening!DeleteChat
  <2>3. \A c \in Three : members'[c] \in {{}, Opening!Members}
    BY <2>2 DEF OInv, OpeningTyped
  <2>. QED
    BY <2>1, <2>3, Bounds, FaultsCounted
<1>3. I => Opening!TypeOK
  BY DEF OInv, OpeningTyped, OpeningStates, Opening!TypeOK
<1> HIDE DEF I
<1>. QED
  BY <1>0, <1>1, <1>2, <1>3, PTL DEF Opening!Spec

\* The buffer stays below its limit, and events are what it holds.
LEMMA SearchTypes == Search!Spec => []Search!TypeOK
<1>1. IndexInv => Search!TypeOK
  <2> SUFFICES ASSUME IndexInv PROVE Search!TypeOK
    OBVIOUS
  <2>1. 1..consumed \subseteq Search!Events
    BY ScriptLength DEF IndexInv, SearchTyped
  <2>2. Search!EventsOf(bulkBuffer) \subseteq Search!Events /\ eventsLost \subseteq Search!Events
    BY <2>1 DEF IndexInv, OnlyConsumed
  <2>. QED
    BY <2>2 DEF IndexInv, SearchTyped, BulkType, Search!TypeOK
<1>. QED
  BY <1>1, IndexInit, IndexStep, PTL DEF Search!Spec

\* Balances and messages are of users and of amounts.
LEMMA TokenTypes == Token!Spec => []Token!TypeOK
<1>1. CoinInv => Token!TypeOK
  BY DEF CoinInv, TokenTyped, Token!TypeOK, Token!Minter
<1>. QED
  BY <1>1, CoinInit, CoinStep, PTL DEF Token!Spec

\* The account and its saved messages have their types.
LEMMA AccountTypes == Account!Spec => []Account!TypeOK
<1> DEFINE T == /\ user \in Two \cup {Account!Nobody} /\ userCreated \subseteq Two
                /\ \A r \in Askers : accountRequest[r].state \in {"free", "publish"} => r \in Two
                /\ before \in [Askers -> SUBSET Askers] /\ faults \in 0..MaxFaults
<1> DEFINE I == AInv /\ T
<1>1. Account!Init => I
  BY AccountInit, Bounds DEF Account!Init, Askers
<1>2. I /\ [Account!Next]_(Account!vars) => I'
  <2> SUFFICES ASSUME I, [Account!Next]_(Account!vars) PROVE T'
    BY AccountStep
  <2>1. faults' = faults \/ (faults < MaxFaults /\ faults' = faults + 1)
    BY DEF Account!Next, Account!vars, Account!CheckUsername, Account!InsertUser, Account!Begin,
       Account!LookForSaved, Account!InsertSaved, Account!InsertOwner, Account!PublishCreated,
       Account!Stop
  <2>2. ASSUME NEW r \in Askers, NEW state \in AskerStates, NEW chat, Account!Goto(r, state, chat),
               state \in {"free", "publish"} => r \in Two,
               user' = user \/ (user' = r /\ r \in Two),
               userCreated' = userCreated \/ (userCreated' = userCreated \cup {r} /\ r \in Two),
               before' = before
                 \/ before' = [before EXCEPT ![r] = Account!AnsweredIn(Account!Requests)]
        PROVE  T'
    <3>1. \A q \in Askers : accountRequest'[q].state = IF q = r THEN state
                                                       ELSE accountRequest[q].state
      BY <2>2 DEF Account!Goto, AInv, AccountTyped, Asker
    <3>2. Account!AnsweredIn(Account!Requests) \subseteq Askers
      BY DEF Account!AnsweredIn, Askers
    <3>3. before' \in [Askers -> SUBSET Askers]
      BY <2>2, <3>2
    <3>4. faults' \in 0..MaxFaults
      BY <2>1, Bounds, FaultsCounted
    <3>. QED
      BY <2>2, <3>1, <3>3, <3>4
  <2>3. ASSUME NEW r \in Askers, Account!CheckUsername(r) \/ Account!InsertUser(r) \/ Account!Begin(r)
        PROVE  T'
    <3>1. PICK state \in {"free", "refused", "look", "failed"} :
            Account!Goto(r, state, Account!NoChat) /\ (state = "free" => r \in Two)
      BY <2>3 DEF Account!CheckUsername, Account!InsertUser, Account!Begin
    <3>2. UNCHANGED <<userCreated, before>> /\ (user' = user \/ (user' = r /\ r \in Two))
      BY <2>3 DEF Account!CheckUsername, Account!InsertUser, Account!Begin
    <3>. QED
      BY <2>2, <3>1, <3>2 DEF AskerStates
  <2>4. ASSUME NEW r \in Askers, \/ Account!LookForSaved(r) \/ Account!InsertSaved(r)
                                 \/ Account!InsertOwner(r) \/ Account!Stop(r)
        PROVE  T'
    <3>1. PICK state, chat :
            /\ state \in {"missing", "chat", "failed", "publish", "answered"}
            /\ Account!Goto(r, state, chat) /\ (state = "publish" => r \in Two)
      BY <2>4 DEF Account!LookForSaved, Account!InsertSaved, Account!InsertOwner, Account!Stop,
         Account!Found
    <3>2. /\ UNCHANGED <<user, userCreated>>
          /\ before' = before
               \/ before' = [before EXCEPT ![r] = Account!AnsweredIn(Account!Requests)]
      BY <2>4 DEF Account!LookForSaved, Account!InsertSaved, Account!InsertOwner, Account!Stop
    <3>. QED
      BY <2>2, <3>1, <3>2 DEF AskerStates
  <2>5. ASSUME NEW r \in Askers, Account!PublishCreated(r) PROVE T'
    BY <2>2, <2>5 DEF Account!PublishCreated, AskerStates
  <2>6. CASE UNCHANGED Account!vars
    BY <2>6 DEF Account!vars
  <2>. QED
    BY <2>3, <2>4, <2>5, <2>6 DEF Account!Next, Askers
<1>3. I => Account!TypeOK
  BY DEF AInv, AccountTyped, Asker, AskerStates, Askers, Account!TypeOK, Account!NoChat
<1> HIDE DEF I
<1>. QED
  BY <1>1, <1>2, <1>3, PTL DEF Account!Spec

LEMMA CodeCounts == \A S : Code!Cardinality(S) = Cardinality(S)
BY DEF Code!Cardinality, Cardinality

\* The resends that are over, each of which was counted at most once.
Resent == {s \in Resends : send[s].state = "done"}

CodeLimits ==
    /\ otp.attempts <= MAX_ATTEMPTS /\ cooldown \in BOOLEAN
    /\ hourly \in Nat /\ hourly <= HOURLY_LIMIT + Cardinality(Resent)
    /\ is_verified \in BOOLEAN /\ hasFactor \in BOOLEAN
    /\ inbox \subseteq Senders /\ flow \in Code!Purposes \cup {"none"} /\ faults \in 0..MaxFaults

LEMMA ResentFinite ==
    /\ IsFiniteSet(Resent) /\ Cardinality(Resent) \in Nat
    /\ Cardinality(Resent) <= Cardinality(Resends) /\ Cardinality(Resends) \in Nat
<1>1. Resent \subseteq Resends /\ IsFiniteSet(Resends)
  BY ServicesAssumption DEF Resent
<1>. QED
  BY <1>1, FS_Subset, FS_CardinalityType

\* A resend that is over stays over.
LEMMA ResentGrows ==
    ASSUME CInv, [Code!Next]_(Code!vars)
    PROVE  Resent \subseteq Resent'
<1> SUFFICES ASSUME NEW p \in Resends, send[p].state = "done" PROVE send'[p] = send[p]
  BY DEF Resent
<1>1. p \in Senders /\ p \notin Logins
  BY ServicesAssumption DEF Senders, Code!Sends
<1>2. \/ send' = send
      \/ \E s \in Senders : /\ send[s].state # "done"
                           /\ \E v : send' = [send EXCEPT ![s] = v]
  <2>1. ASSUME NEW s \in Senders, NEW state, send[s].state # "done",
               Code!Move(s, state) \/ Code!End(s, state)
        PROVE  \E v : send' = [send EXCEPT ![s] = v]
    BY <2>1 DEF Code!Move, Code!End
  <2>2. ASSUME NEW s \in Senders, NEW purpose, NEW state, Code!Begin(s, purpose, state)
        PROVE  send[s].state # "done" /\ \E v : send' = [send EXCEPT ![s] = v]
    BY <2>2 DEF Code!Begin
  <2>3. Logins \subseteq Senders /\ Resends \subseteq Senders
    BY DEF Senders, Code!Sends
  <2>4. ASSUME NEW s \in Logins, Code!Login(s) \/ Code!ReadTotp(s) PROVE <1>2
    BY <2>1, <2>2, <2>3, <2>4 DEF Code!Login, Code!ReadTotp
  <2>5. ASSUME NEW s \in Resends, \/ Code!Resend(s) \/ Code!LookForLogin(s)
                                  \/ Code!LookForVerify(s) \/ Code!CountResend(s)
        PROVE  <1>2
    BY <2>1, <2>2, <2>3, <2>5
    DEF Code!Resend, Code!LookForLogin, Code!LookForVerify, Code!CountResend
  <2>6. ASSUME NEW s \in Senders,
               Code!CheckCooldown(s) \/ Code!SetCooldown(s) \/ Code!Stop(s)
               \/ Code!StoreCode(s) \/ Code!SendMail(s)
        PROVE  <1>2
    BY <2>1, <2>6
    DEF Code!CheckCooldown, Code!SetCooldown, Code!Stop, Code!StoreCode, Code!SendMail, Code!Running
  <2>7. CASE \/ \E e \in Two : \/ \E code \in inbox \cup {Code!NoCode} : Code!Enter(e, code)
                               \/ Code!MarkVerified(e) \/ Code!Answer(e) \/ Code!StopEntry(e)
             \/ Code!ExpireCode \/ Code!ExpireCooldown \/ Code!ExpireHour \/ UNCHANGED Code!vars
    BY <2>7 DEF Code!Enter, Code!MarkVerified, Code!Answer, Code!StopEntry, Code!ExpireCode,
       Code!ExpireCooldown, Code!ExpireHour, Code!vars
  <2>. QED
    BY <2>4, <2>5, <2>6, <2>7 DEF Code!Next, Senders
<1>. QED
  BY <1>1, <1>2 DEF CInv, CodeTyped

\* The codes, the counts and the requests have their types, step by step.
LEMMA CodeLimitsHold == Code!Spec => [](CInv /\ CodeLimits)
<1> DEFINE I == CInv /\ CodeLimits
<1>0. HOURLY_LIMIT \in Nat /\ MAX_ATTEMPTS \in Nat
  BY ServicesAssumption
<1>1. Code!Init => I
  <2> SUFFICES ASSUME Code!Init PROVE CodeLimits
    BY CodeInit
  <2>1. /\ otp.attempts = 0 /\ cooldown = FALSE /\ hourly \in {0, HOURLY_LIMIT}
        /\ is_verified \in BOOLEAN /\ hasFactor \in BOOLEAN /\ inbox = {} /\ flow = "none"
        /\ faults = 0
    BY DEF Code!Init, Code!NoOtp
  <2>2. hourly \in Nat /\ hourly <= HOURLY_LIMIT + Cardinality(Resent) /\ 0 <= MAX_ATTEMPTS
    BY <2>1, <1>0, ResentFinite
  <2>3. faults \in 0..MaxFaults
    BY <2>1, Bounds
  <2>. QED
    BY <2>1, <2>2, <2>3 DEF CodeLimits
<1>2. I /\ [Code!Next]_(Code!vars) => I'
  <2> SUFFICES ASSUME CInv, CodeLimits, [Code!Next]_(Code!vars) PROVE CodeLimits'
    BY CodeStep
  <2>1. faults' = faults \/ (faults < MaxFaults /\ faults' = faults + 1)
    BY DEF Code!Next, Code!vars, Code!Login, Code!ReadTotp, Code!Resend, Code!LookForLogin,
       Code!LookForVerify, Code!CheckCooldown, Code!StoreCode, Code!SetCooldown, Code!SendMail,
       Code!CountResend, Code!Stop, Code!Enter, Code!MarkVerified, Code!Answer, Code!StopEntry,
       Code!ExpireCode, Code!ExpireCooldown, Code!ExpireHour
  <2>2. faults' \in 0..MaxFaults
    BY <2>1, Bounds, FaultsCounted DEF CodeLimits
  <2>3. /\ cooldown' \in {cooldown, TRUE, FALSE} /\ is_verified' \in {is_verified, TRUE}
        /\ hasFactor' = hasFactor
        /\ \/ inbox' = inbox
           \/ \E s \in Senders : inbox' = inbox \cup {s}
        /\ \/ flow' = flow
           \/ \E s \in Senders : flow' = send[s].purpose
    BY DEF Code!Next, Code!vars, Code!redis, Code!account, Code!user, Code!Login, Code!ReadTotp,
       Code!Resend, Code!LookForLogin, Code!LookForVerify, Code!CheckCooldown, Code!StoreCode,
       Code!SetCooldown, Code!SendMail, Code!CountResend, Code!Stop, Code!Enter,
       Code!MarkVerified, Code!Answer, Code!StopEntry, Code!ExpireCode, Code!ExpireCooldown,
       Code!ExpireHour, Senders
  <2>4. /\ cooldown' \in BOOLEAN /\ is_verified' \in BOOLEAN /\ hasFactor' \in BOOLEAN
        /\ inbox' \subseteq Senders /\ flow' \in Code!Purposes \cup {"none"}
    <3>1. \A s \in Senders : send[s].purpose \in Code!Purposes
      BY DEF CInv, CodeTyped
    <3>2. inbox' \subseteq Senders /\ flow' \in Code!Purposes \cup {"none"}
      BY <2>3, <3>1 DEF CodeLimits
    <3>3. cooldown' \in BOOLEAN /\ is_verified' \in BOOLEAN /\ hasFactor' \in BOOLEAN
      BY <2>3, Zenon DEF CodeLimits
    <3>. QED
      BY <3>2, <3>3
  <2>5. \/ otp' = otp
        \/ otp'.attempts = 0
        \/ otp.attempts < MAX_ATTEMPTS /\ otp' = [otp EXCEPT !.attempts = @ + 1]
    BY DEF Code!Next, Code!vars, Code!redis, Code!Login, Code!ReadTotp,
       Code!Resend, Code!LookForLogin, Code!LookForVerify, Code!CheckCooldown, Code!StoreCode,
       Code!SetCooldown, Code!SendMail, Code!CountResend, Code!Stop, Code!Enter,
       Code!MarkVerified, Code!Answer, Code!StopEntry, Code!ExpireCode, Code!ExpireCooldown,
       Code!ExpireHour, Code!Redeemed, Code!NoOtp
  <2>6. otp'.attempts <= MAX_ATTEMPTS
    <3>1. otp.attempts \in Nat /\ [otp EXCEPT !.attempts = @ + 1].attempts = otp.attempts + 1
      BY DEF CInv, CodeTyped
    <3>2. otp.attempts <= MAX_ATTEMPTS
      BY DEF CodeLimits
    <3>3. CASE otp' = otp
      BY <3>2, <3>3
    <3>4. CASE otp'.attempts = 0
      BY <3>4, <1>0
    <3>5. CASE otp.attempts < MAX_ATTEMPTS /\ otp' = [otp EXCEPT !.attempts = @ + 1]
      BY <3>1, <3>5, <1>0
    <3>. QED
      BY <2>5, <3>3, <3>4, <3>5
  <2>7. hourly' \in Nat /\ hourly' <= HOURLY_LIMIT + Cardinality(Resent')
    <3>0. /\ IsFiniteSet(Resent') /\ Cardinality(Resent') \in Nat /\ Cardinality(Resent) \in Nat
          /\ Cardinality(Resent) <= Cardinality(Resent')
      <4>1. IsFiniteSet(Resent')
        BY ServicesAssumption, FS_Subset DEF Resent
      <4>. QED
        BY <4>1, ResentGrows, ResentFinite, FS_Subset, FS_CardinalityType
    <3>1. CASE \E s \in Resends : Code!CountResend(s)
      <4>1. PICK s \in Resends : Code!CountResend(s)
        BY <3>1
      <4>2. /\ send[s].state = "mailed" /\ hourly' = hourly + 1
            /\ send' = [send EXCEPT ![s] = [state |-> "done", purpose |-> "login"]]
        BY <4>1 DEF Code!CountResend, Code!End
      <4>3. s \in Senders
        BY DEF Senders, Code!Sends
      <4>4. s \notin Resent /\ Resent' = Resent \cup {s}
        BY <4>2, <4>3 DEF Resent, CInv, CodeTyped
      <4>5. Cardinality(Resent') = Cardinality(Resent) + 1
        BY <4>4, ResentFinite, FS_AddElement
      <4>. QED
        BY <4>2, <4>5, <1>0, ResentFinite DEF CodeLimits
    <3>2. CASE ~\E s \in Resends : Code!CountResend(s)
      <4>1. hourly' = hourly \/ hourly' = 0
        BY <3>2 DEF Code!Next, Code!vars, Code!redis, Code!Login, Code!ReadTotp,
           Code!Resend, Code!LookForLogin, Code!LookForVerify, Code!CheckCooldown, Code!StoreCode,
           Code!SetCooldown, Code!SendMail, Code!Stop, Code!Enter,
           Code!MarkVerified, Code!Answer, Code!StopEntry, Code!ExpireCode, Code!ExpireCooldown,
           Code!ExpireHour
      <4>. QED
        BY <4>1, <3>0, <1>0 DEF CodeLimits
    <3>. QED
      BY <3>1, <3>2
  <2>. QED
    BY <2>2, <2>4, <2>6, <2>7 DEF CodeLimits
<1> HIDE DEF I
<1>3. Code!Spec => []I
  BY <1>1, <1>2, PTL DEF Code!Spec
<1>. QED
  BY <1>3 DEF I

\* Every variable of the codes has its type.
LEMMA CodeTypes == Code!Spec => []Code!TypeOK
<1>0. HOURLY_LIMIT \in Nat /\ MAX_ATTEMPTS \in Nat
  BY ServicesAssumption
<1>1. CInv /\ CodeLimits => Code!TypeOK
  <2> SUFFICES ASSUME CInv, CodeLimits PROVE Code!TypeOK
    OBVIOUS
  <2>1. hourly \in 0..HOURLY_LIMIT + Code!Cardinality(Resends)
    BY CodeCounts, ResentFinite, <1>0 DEF CodeLimits
  <2>2. otp \in [code : Senders \cup {"none"}, purpose : Code!Purposes, attempts : 0..MAX_ATTEMPTS]
    <3>1. /\ otp \in [code : Senders \cup {"none"}, purpose : Code!Purposes, attempts : Nat]
          /\ otp.attempts \in 0..MAX_ATTEMPTS
      BY <1>0 DEF CodeLimits, CInv, CodeTyped
    <3>. QED
      BY <3>1
  <2>. QED
    BY <2>1, <2>2 DEF CodeLimits, CInv, CodeTyped, Code!TypeOK, Code!NoCode, Senders
<1>. QED
  BY <1>1, CodeLimitsHold, PTL

\* A send that moves on or ends is not a resend that has just passed the check.
LEMMA PassedBefore ==
    ASSUME CInv, NEW s \in Senders, s \in Code!Running, NEW state,
           Code!Move(s, state) \/ Code!End(s, state)
    PROVE  Code!Passed' \subseteq Code!Passed
<1>1. \A p \in Senders \ {s} : send'[p] = send[p]
  BY DEF Code!Move, Code!End, CInv, CodeTyped
<1>. QED
  BY <1>1 DEF Code!Passed, Code!Running, Senders

\* Whatever happens at the limit, no resend passes the check, and one that counts has
\* passed it before.
LEMMA PassedOrCounted ==
    ASSUME CInv, CodeLimits, Code!Next, hourly >= HOURLY_LIMIT
    PROVE  \/ hourly' \in {hourly, 0} /\ Code!Passed' \subseteq Code!Passed
           \/ /\ hourly' = hourly + 1
              /\ \E s \in Code!Passed : Code!Passed' \subseteq Code!Passed \ {s}
<1>0. Logins \subseteq Senders /\ Resends \subseteq Senders /\ Logins \cap Resends = {}
  BY ServicesAssumption DEF Senders, Code!Sends
<1>1. ASSUME NEW s \in Resends, Code!CountResend(s)
      PROVE  /\ hourly' = hourly + 1
             /\ s \in Code!Passed /\ Code!Passed' \subseteq Code!Passed \ {s}
  <2>1. send[s].state = "mailed" /\ hourly' = hourly + 1 /\ Code!End(s, "done")
    BY <1>1 DEF Code!CountResend
  <2>2. send'[s].state = "done" /\ \A p \in Senders \ {s} : send'[p] = send[p]
    BY <1>0, <2>1 DEF Code!End, CInv, CodeTyped
  <2>. QED
    BY <1>0, <2>1, <2>2 DEF Code!Passed, Code!Running, Senders
<1>2. ASSUME NEW s \in Logins, Code!Login(s)
      PROVE  hourly' = hourly /\ Code!Passed' \subseteq Code!Passed
  <2>1. hourly' = hourly /\ \A p \in Senders \ {s} : send'[p] = send[p]
    BY <1>0, <1>2 DEF Code!Login, Code!Begin, Code!redis, CInv, CodeTyped
  <2>. QED
    BY <1>0, <2>1 DEF Code!Passed, Code!Running, Senders
<1>3. ASSUME NEW s \in Resends, Code!Resend(s)
      PROVE  hourly' = hourly /\ Code!Passed' \subseteq Code!Passed
  <2>1. /\ hourly' = hourly /\ send'[s].state = "done"
        /\ \A p \in Senders \ {s} : send'[p] = send[p]
    BY <1>0, <1>3 DEF Code!Resend, Code!Begin, Code!redis, CInv, CodeTyped
  <2>. QED
    BY <1>0, <2>1 DEF Code!Passed, Code!Running, Senders
<1>4. ASSUME NEW s \in Senders,
             \/ s \in Logins /\ Code!ReadTotp(s)
             \/ s \in Resends /\ (Code!LookForLogin(s) \/ Code!LookForVerify(s))
             \/ Code!CheckCooldown(s) \/ Code!StoreCode(s) \/ Code!SetCooldown(s)
             \/ Code!SendMail(s) \/ Code!Stop(s)
      PROVE  hourly' = hourly /\ Code!Passed' \subseteq Code!Passed
  <2>1. hourly' = hourly
    BY <1>4 DEF Code!ReadTotp, Code!LookForLogin, Code!LookForVerify, Code!CheckCooldown,
       Code!StoreCode, Code!SetCooldown, Code!SendMail, Code!Stop, Code!redis
  <2>2. s \in Code!Running
    BY <1>4 DEF Code!ReadTotp, Code!LookForLogin, Code!LookForVerify, Code!CheckCooldown,
       Code!StoreCode, Code!SetCooldown, Code!SendMail, Code!Stop, Code!Running, Senders
  <2>3. CASE \E state : Code!Move(s, state) \/ Code!End(s, state)
    BY <2>1, <2>2, <2>3, PassedBefore
  <2>4. CASE Code!LookForLogin(s)
    <3>1. \A p \in Senders \ {s} : send'[p] = send[p]
      BY <2>4 DEF Code!LookForLogin, CInv, CodeTyped
    <3>. QED
      BY <2>1, <2>2, <3>1 DEF Code!Passed, Code!Running, Senders
  <2>. QED
    BY <1>4, <2>3, <2>4
    DEF Code!ReadTotp, Code!LookForVerify, Code!CheckCooldown, Code!StoreCode,
        Code!SetCooldown, Code!SendMail, Code!Stop
<1>5. CASE \/ \E e \in Two : \/ \E code \in inbox \cup {Code!NoCode} : Code!Enter(e, code)
                             \/ Code!MarkVerified(e) \/ Code!Answer(e) \/ Code!StopEntry(e)
           \/ Code!ExpireCode \/ Code!ExpireCooldown \/ Code!ExpireHour
  <2>1. send' = send /\ hourly' \in {hourly, 0}
    BY <1>5 DEF Code!Enter, Code!MarkVerified, Code!Answer, Code!StopEntry, Code!ExpireCode,
       Code!ExpireCooldown, Code!ExpireHour, Code!redis
  <2>. QED
    BY <2>1 DEF Code!Passed, Code!Running
<1>. QED
  BY <1>1, <1>2, <1>3, <1>4, <1>5, <1>0 DEF Code!Next, Senders

\* Once the hour's count is at its limit, no resend that had not looked at it before
\* gets past the check: the count and the resends that are past it, and have not
\* counted, do not grow together until the hour is over (POST /resend-code).
THEOREM ResendsAreLimited == Code!Spec => Code!ResendsLimited
<1>1. ASSUME CInv, CodeLimits, Code!Next, hourly >= HOURLY_LIMIT
      PROVE  hourly' + Code!Cardinality(Code!Passed') <= hourly + Code!Cardinality(Code!Passed)
  <2>1. hourly \in Nat
    BY <1>1 DEF CodeLimits
  <2>2. IsFiniteSet(Code!Passed)
    <3>1. Code!Passed \subseteq Resends /\ IsFiniteSet(Resends)
      BY ServicesAssumption DEF Code!Passed
    <3>. QED
      BY <3>1, FS_Subset
  <2> DEFINE all == Cardinality(Code!Passed)
             after  == Cardinality(Code!Passed')
  <2>3. all \in Nat
    BY <2>2, FS_CardinalityType
  <2>4. CASE hourly' \in {hourly, 0} /\ Code!Passed' \subseteq Code!Passed
    <3>1. after \in Nat /\ after <= all
      BY <2>2, <2>4, FS_Subset, FS_CardinalityType
    <3> HIDE DEF all, after
    <3>2. hourly' + after <= hourly + all
      <4>1. CASE hourly' = hourly
        BY <2>1, <2>3, <3>1, <4>1
      <4>2. CASE hourly' = 0
        BY <2>1, <2>3, <3>1, <4>2
      <4>. QED
        BY <2>4, <4>1, <4>2
    <3>. QED
      BY <3>2, CodeCounts DEF all, after
  <2>5. ASSUME hourly' = hourly + 1, NEW s \in Code!Passed, Code!Passed' \subseteq Code!Passed \ {s}
        PROVE  hourly' + after <= hourly + all
    <3> DEFINE rest == Cardinality(Code!Passed \ {s})
    <3>1. IsFiniteSet(Code!Passed \ {s}) /\ rest = all - 1
      BY <2>2, <2>5, FS_RemoveElement
    <3>2. after \in Nat /\ after <= rest
      BY <3>1, <2>5, FS_Subset, FS_CardinalityType
    <3> HIDE DEF all, after, rest
    <3>. QED
      BY <2>1, <2>3, <2>5, <3>1, <3>2
  <2>. QED
    BY <1>1, <2>4, <2>5, PassedOrCounted, CodeCounts
<1>2. CInv /\ CodeLimits /\ [Code!Next]_(Code!vars)
        => [hourly >= HOURLY_LIMIT
              => hourly' + Code!Cardinality(Code!Passed')
                   <= hourly + Code!Cardinality(Code!Passed)]_(Code!vars)
  BY <1>1
<1>. QED
  BY <1>2, CodeLimitsHold, PTL DEF Code!Spec, Code!ResendsLimited

\* Every secret there is was generated, and no request has another.
FactorLimits ==
    /\ two_factor_enabled \in BOOLEAN /\ challenge \in BOOLEAN
    /\ generatedSecrets <= MaxSecrets
    /\ \A n \in {totp.secret, held, confirmed} : n <= generatedSecrets
    /\ \A r \in Two : factorRequest[r].secret <= generatedSecrets

\* The secrets of a request come from what there is, or are the one it generates.
LEMMA SecretsOfRequests ==
    ASSUME FInv, [Factor!Next]_(Factor!vars), NEW q \in Two
    PROVE  \/ factorRequest'[q].secret \in {factorRequest[q].secret, 0, held}
           \/ /\ factorRequest'[q].secret = generatedSecrets'
              /\ generatedSecrets' = generatedSecrets + 1
<1>0. held \in Nat
  BY DEF FInv, FactorTyped
<1>1. ASSUME NEW r \in Two, NEW next \in Moves, NEW secret \in {0, held},
             NEW step \in Steps \cup {0}, Factor!Begin(r, next, secret, step)
      PROVE  factorRequest'[q].secret \in {factorRequest[q].secret, 0, held}
  <2>1. secret \in Nat
    BY <1>0
  <2>2. /\ factorRequest'[r].secret = secret
        /\ \A p \in Two \ {r} : factorRequest'[p].secret = factorRequest[p].secret
    BY <1>1, <2>1, FactorBegins DEF FInv
  <2>. QED
    BY <2>2
<1>2. ASSUME NEW r \in Two, NEW next \in Moves, Factor!Go(r, next)
      PROVE  factorRequest'[q].secret = factorRequest[q].secret
  BY <1>2, FactorGoes DEF FInv
<1>3. ASSUME NEW r \in Two, Factor!End(r)
      PROVE  factorRequest'[q].secret \in {factorRequest[q].secret, 0}
  BY <1>3 DEF FInv, FactorTyped, Factor!End, Factor!Idle, Factor!NoSecret
<1>4. ASSUME NEW r \in Two, Factor!SaveTotpSecret(r)
      PROVE  \/ factorRequest'[q].secret = factorRequest[q].secret
             \/ /\ factorRequest'[q].secret = generatedSecrets'
                /\ generatedSecrets' = generatedSecrets + 1
  BY <1>4 DEF Factor!SaveTotpSecret, FInv, FactorTyped, FactorRequest
<1>5. 0 \in Steps \cup {0} /\ {"save", "mark", "flag", "disable", "login", "delete", "redeem",
                               "unflag"} \subseteq Moves
  BY DEF Moves
<1>6. ASSUME NEW r \in Two, Factor!Setup(r) \/ Factor!Verify(r)
      PROVE  factorRequest'[q].secret \in {factorRequest[q].secret, 0, held}
  BY <1>1, <1>5, <1>6 DEF Factor!Setup, Factor!Verify, Factor!NoSecret, Factor!NoStep
<1>7. ASSUME NEW r \in Two, NEW step \in Steps, Factor!Disable(r, step) \/ Factor!Login(r, step)
      PROVE  factorRequest'[q].secret \in {factorRequest[q].secret, 0, held}
  BY <1>1, <1>5, <1>7 DEF Factor!Disable, Factor!Login
<1>8. ASSUME NEW r \in Two, \/ Factor!Show(r) \/ Factor!MarkVerified(r) \/ Factor!SetFlag(r)
                            \/ Factor!UseStep(r) \/ Factor!DeleteTotp(r) \/ Factor!ClearFlag(r)
                            \/ Factor!Redeem(r) \/ Factor!Stop(r)
      PROVE  factorRequest'[q].secret \in {factorRequest[q].secret, 0, held}
  BY <1>2, <1>3, <1>5, <1>8
  DEF Factor!Show, Factor!MarkVerified, Factor!SetFlag, Factor!UseStep, Factor!DeleteTotp,
      Factor!ClearFlag, Factor!Redeem, Factor!Stop
<1>9. CASE Factor!Challenge \/ Factor!ExpireChallenge \/ UNCHANGED Factor!vars
  BY <1>9 DEF Factor!Challenge, Factor!ExpireChallenge, Factor!vars
<1>. QED
  BY <1>4, <1>6, <1>7, <1>8, <1>9 DEF Factor!Next

\* The row, the authenticator and the requests have secrets that were generated
\* (POST /2fa/setup).
LEMMA FactorTypes == Factor!Spec => []Factor!TypeOK
<1> DEFINE I == FInv /\ FactorLimits /\ faults \in 0..MaxFaults
<1>0. MaxSecrets \in Nat
  BY Bounds
<1>1. Factor!Init => I
  <2> SUFFICES ASSUME Factor!Init PROVE FactorLimits /\ faults \in 0..MaxFaults
    BY FactorInit
  <2>1. /\ totp.secret = 0 /\ generatedSecrets = 0 /\ held = 0 /\ confirmed = 0
        /\ two_factor_enabled = FALSE /\ challenge = FALSE /\ faults = 0
        /\ \A r \in Two : factorRequest[r].secret = 0
    BY DEF Factor!Init, Factor!NoSecret, Factor!Idle
  <2>2. two_factor_enabled \in BOOLEAN /\ challenge \in BOOLEAN
    BY <2>1
  <2>3. /\ generatedSecrets <= MaxSecrets
        /\ \A n \in {totp.secret, held, confirmed} : n <= generatedSecrets
        /\ \A r \in Two : factorRequest[r].secret <= generatedSecrets
    BY <2>1, <1>0
  <2>4. faults \in 0..MaxFaults
    BY <2>1, Bounds
  <2>. QED
    BY <2>2, <2>3, <2>4 DEF FactorLimits
<1>2. I /\ [Factor!Next]_(Factor!vars) => I'
  <2> SUFFICES ASSUME FInv, FactorLimits, faults \in 0..MaxFaults, [Factor!Next]_(Factor!vars)
               PROVE  FactorLimits' /\ faults' \in 0..MaxFaults
    BY FactorStep
  <2>1. faults' = faults \/ (faults < MaxFaults /\ faults' = faults + 1)
    BY DEF Factor!Next, Factor!vars, Factor!Read, Factor!Setup, Factor!SaveTotpSecret, Factor!Show,
       Factor!Verify, Factor!MarkVerified, Factor!SetFlag, Factor!Challenge, Factor!Disable,
       Factor!Login, Factor!UseStep, Factor!DeleteTotp, Factor!ClearFlag, Factor!Redeem,
       Factor!ExpireChallenge, Factor!Stop
  <2>2. /\ two_factor_enabled' \in {two_factor_enabled, TRUE, FALSE}
        /\ challenge' \in {challenge, TRUE, FALSE}
        /\ \/ generatedSecrets' = generatedSecrets
           \/ generatedSecrets < MaxSecrets /\ generatedSecrets' = generatedSecrets + 1
        /\ \/ held' = held
           \/ \E r \in Two : held' = factorRequest[r].secret
        /\ \/ confirmed' \in {confirmed, 0}
           \/ \E r \in Two : confirmed' = factorRequest[r].secret
    BY DEF Factor!Next, Factor!vars, Factor!Read, Factor!Setup, Factor!SaveTotpSecret, Factor!Show,
       Factor!Verify, Factor!MarkVerified, Factor!SetFlag, Factor!Challenge, Factor!Disable,
       Factor!Login, Factor!UseStep, Factor!DeleteTotp, Factor!ClearFlag, Factor!Redeem,
       Factor!ExpireChallenge, Factor!Stop, Factor!NoSecret
  <2>3. \/ totp'.secret \in {totp.secret, 0}
        \/ totp'.secret = generatedSecrets' /\ generatedSecrets' = generatedSecrets + 1
    <3>1. \/ totp' = totp
          \/ /\ totp' = [secret |-> generatedSecrets', is_verified |-> FALSE]
             /\ generatedSecrets' = generatedSecrets + 1
          \/ \E b : totp' = [totp EXCEPT !.is_verified = b]
          \/ totp' = [secret |-> 0, is_verified |-> FALSE]
      BY DEF Factor!Next, Factor!vars, Factor!Read, Factor!Setup, Factor!SaveTotpSecret,
         Factor!Show, Factor!Verify, Factor!MarkVerified, Factor!SetFlag, Factor!Challenge,
         Factor!Disable, Factor!Login, Factor!UseStep, Factor!DeleteTotp, Factor!ClearFlag,
         Factor!Redeem, Factor!ExpireChallenge, Factor!Stop, Factor!NoSecret
    <3>. QED
      BY <3>1 DEF FInv, FactorTyped
  <2>4. /\ generatedSecrets \in Nat /\ held \in Nat /\ totp.secret \in Nat /\ confirmed \in Nat
        /\ \A r \in Two : factorRequest[r].secret \in Nat
    BY DEF FInv, FactorTyped, FactorRequest
  <2>5. /\ generatedSecrets' \in Nat /\ generatedSecrets <= generatedSecrets'
        /\ generatedSecrets' <= MaxSecrets
    BY <2>2, <2>4, <1>0 DEF FactorLimits
  <2>6. \A n \in {totp'.secret, held', confirmed'} : n <= generatedSecrets'
    BY <2>2, <2>3, <2>4, <2>5 DEF FactorLimits
  <2>7. \A r \in Two : factorRequest'[r].secret <= generatedSecrets'
    BY <2>4, <2>5, SecretsOfRequests DEF FactorLimits
  <2>8. two_factor_enabled' \in BOOLEAN /\ challenge' \in BOOLEAN
    BY <2>2 DEF FactorLimits
  <2>. QED
    BY <2>1, <2>5, <2>6, <2>7, <2>8, Bounds, FaultsCounted DEF FactorLimits
<1>3. I => Factor!TypeOK
  <2> SUFFICES ASSUME FInv, FactorLimits, faults \in 0..MaxFaults PROVE Factor!TypeOK
    OBVIOUS
  <2>1. /\ generatedSecrets \in 0..MaxSecrets /\ held \in 0..generatedSecrets
        /\ confirmed \in 0..generatedSecrets /\ totp.secret \in {0} \cup 1..MaxSecrets
        /\ \A r \in Two : factorRequest[r].secret \in 0..generatedSecrets
    BY <1>0 DEF FInv, FactorLimits, FactorTyped, FactorRequest
  <2>2. totp \in [secret : {0} \cup 1..MaxSecrets, is_verified : BOOLEAN]
    BY <2>1 DEF FInv, FactorTyped
  <2>3. \A r \in Two : factorRequest[r].overlapped \in BOOLEAN
    BY DEF FInv, FactorTyped, FactorRequest
  <2>. QED
    BY <2>1, <2>2, <2>3
    DEF FInv, FactorLimits, FactorTyped, Factor!TypeOK, Factor!NoSecret, Factor!Secrets
<1> HIDE DEF I
<1>. QED
  BY <1>1, <1>2, <1>3, PTL DEF Factor!Spec

-------------------------------------------------------------------------------
(* The whole.  A behaviour of MCServices is one of the component it starts *)
(* with, so what is proved of a component holds of the whole.              *)

SecretProved == INSTANCE Ratchet_proofs WITH sent <- ratchetSent
BallotProved == INSTANCE Votes_proofs WITH
    Requests <- Two, request <- voteRequest, announced <- announcedVotes
LoginProved == INSTANCE Sessions_proofs WITH
    Tabs <- {1}, Requests <- Two,
    request <- sessionRequest, crossed <- sessionCrossed

\* The component of a behaviour stays.
LEMMA ComponentStays == [Next]_vars => component' = component
BY DEF Next, vars

\* A request for a proof gets a tree that has the entry it has read, in every behaviour
\* of the whole, unless the publish of that entry was still before invalidateTree when
\* the request took the tree or joined its rebuild, or it took a cached tree that a
\* rebuild without the entry had stored after the invalidation (kt.routes.ts).
THEOREM ProofsHaveEntries == Spec => []TreeHasEntry
<1> DEFINE Here == component = "transparency"
<1>1. Init /\ Here => Transparency!Init
  BY DEF Init
<1>2. Here /\ [Next]_vars => [Transparency!Next]_(Transparency!vars) /\ Here'
  BY DEF Next, vars, keyLogVars, Transparency!vars
<1>3. ~Here /\ [Next]_vars => ~Here'
  BY ComponentStays
<1>4. (Here => Transparency!TreeHasEntry) => TreeHasEntry
  BY DEF TreeHasEntry
<1> HIDE DEF Here
<1>. QED
  BY <1>1, <1>2, <1>3, <1>4, ProofsOfPresentEntries, PTL DEF Spec, Transparency!Spec

\* What the others were told of a user agrees with presence:online, in every
\* behaviour of the whole (presence.manager.ts).
THEOREM PresenceIsAnnounced == Spec => []AnnouncedPresence
<1> DEFINE Here == component = "watch"
<1>1. Init /\ Here => Watch!Init
  BY DEF Init
<1>2. Here /\ [Next]_vars => [Watch!Next]_(Watch!vars) /\ Here'
  BY DEF Next, vars, presenceVars, Watch!vars
<1>3. ~Here /\ [Next]_vars => ~Here'
  BY ComponentStays
<1>4. (Here => Watch!AnnouncedPresence) => AnnouncedPresence
  BY DEF AnnouncedPresence
<1> HIDE DEF Here
<1>. QED
  BY <1>1, <1>2, <1>3, <1>4, PresenceAnnounced, PTL DEF Spec, Watch!Spec

\* Every message is in the index once, on its way there in one place, or lost, in every
\* behaviour of the whole; what the index has of it beyond that was left by attempts
\* whose answer was lost and which the client made again, as often as it does at most
\* (search-worker).
THEOREM SendsAreOnce == Spec => []SendsIndexedOnce
<1> DEFINE Here == component = "search"
<1>1. Init /\ Here => Search!Init
  BY DEF Init
<1>2. Here /\ [Next]_vars => [Search!Next]_(Search!vars) /\ Here'
  BY DEF Next, vars, searchVars, Search!vars
<1>3. ~Here /\ [Next]_vars => ~Here'
  BY ComponentStays
<1>4. (Here => Search!SendsIndexedOnce) => SendsIndexedOnce
  BY DEF SendsIndexedOnce
<1> HIDE DEF Here
<1>. QED
  BY <1>1, <1>2, <1>3, <1>4, SendsAreIndexedOnce, PTL DEF Spec, Search!Spec

\* The supply is what the wallets, the messages and the losses hold, in every behaviour
\* of the whole (jetton-minter.fc).
THEOREM SupplyIsCounted == Spec => []Conserved
<1> DEFINE Here == component = "token"
<1>1. Init /\ Here => Token!Init
  BY DEF Init
<1>2. Here /\ [Next]_vars => [Token!Next]_(Token!vars) /\ Here'
  BY DEF Next, vars, jettonVars, Token!vars
<1>3. ~Here /\ [Next]_vars => ~Here'
  BY ComponentStays
<1>4. (Here => Token!Conserved) => Conserved
  BY DEF Conserved
<1> HIDE DEF Here
<1>. QED
  BY <1>1, <1>2, <1>3, <1>4, TokensAreConserved, PTL DEF Spec, Token!Spec

\* Two users who are opening their chat get the one there is, complete, in every
\* behaviour of the whole (POST /chats).
THEOREM ChatIsFoundOrCreated == Spec => []FindOrCreate
<1> DEFINE Here == component = "opening"
<1>1. Init /\ Here => Opening!Init
  BY DEF Init
<1>2. Here /\ [Next]_vars => [Opening!Next]_(Opening!vars) /\ Here'
  BY DEF Next, vars, chatVars, Opening!vars
<1>3. ~Here /\ [Next]_vars => ~Here'
  BY ComponentStays
<1>4. (Here => Opening!FindOrCreate) => FindOrCreate
  BY DEF FindOrCreate
<1> HIDE DEF Here
<1>. QED
  BY <1>1, <1>2, <1>3, <1>4, OneChatOfTwo, PTL DEF Spec, Opening!Spec

\* The theorems of the other modules are about copies of the same definitions.
LEMMA BallotSame ==
    /\ Ballot!Init => BallotProved!Init
    /\ [Ballot!Next]_(Ballot!vars) => [BallotProved!Next]_(BallotProved!vars)
    /\ BallotProved!AnswersHold /\ BallotProved!AnnouncedIsStored
         => Ballot!AnswersHold /\ Ballot!AnnouncedIsStored
    /\ BallotProved!TypeOK => Ballot!TypeOK
    /\ BallotProved!UsersFinite
<1>0. \A S : BallotProved!Cardinality(S) = Ballot!Cardinality(S)
  BY DEF Ballot!Cardinality, BallotProved!Cardinality
<1>1. \A votes : BallotProved!Tally(votes) = Ballot!Tally(votes)
                  /\ BallotProved!Voters(votes) = Ballot!Voters(votes)
  BY <1>0 DEF Ballot!Tally, BallotProved!Tally, Ballot!Voters, BallotProved!Voters
<1>2. BallotProved!NoRequest = Ballot!NoRequest
  BY <1>1 DEF Ballot!NoRequest, BallotProved!NoRequest
<1>3. \A r : (BallotProved!UnderWay(r) <=> Ballot!UnderWay(r))
              /\ BallotProved!Others(r) = Ballot!Others(r)
  BY DEF Ballot!UnderWay, BallotProved!UnderWay, Ballot!Others, BallotProved!Others
<1>4. UNCHANGED Ballot!rows => UNCHANGED BallotProved!rows
  BY DEF Ballot!rows, BallotProved!rows
<1>5. \A r : BallotProved!Finish(r) <=> Ballot!Finish(r)
  BY <1>2 DEF Ballot!Finish, BallotProved!Finish
<1>6. \A r : BallotProved!Overlap(r) <=> Ballot!Overlap(r)
  BY <1>3 DEF Ballot!Overlap, BallotProved!Overlap
<1>7. \A r, kind, u, option, state, read :
        BallotProved!Begin(r, kind, u, option, state, read)
          <=> Ballot!Begin(r, kind, u, option, state, read)
  BY <1>2 DEF Ballot!Begin, BallotProved!Begin, Ballot!Others, BallotProved!Others,
     Ballot!UnderWay, BallotProved!UnderWay
<1>8. Ballot!Init => BallotProved!Init
  BY <1>2 DEF Ballot!Init, BallotProved!Init
<1>9. ASSUME NEW r \in Two, Ballot!Find(r) PROVE BallotProved!Find(r)
  BY <1>0, <1>1, <1>3, <1>4, <1>5, <1>6, <1>7, <1>9
  DEF Ballot!Find, BallotProved!Find, Ballot!Refuses, BallotProved!Refuses
<1>10. ASSUME NEW r \in Two, Ballot!LookForAnswer(r) PROVE BallotProved!LookForAnswer(r)
  BY <1>0, <1>1, <1>3, <1>4, <1>5, <1>6, <1>7, <1>10
  DEF Ballot!LookForAnswer, BallotProved!LookForAnswer
<1>11. ASSUME NEW r \in Two, Ballot!WritePoll(r) PROVE BallotProved!WritePoll(r)
  BY <1>0, <1>1, <1>3, <1>4, <1>5, <1>6, <1>7, <1>11 DEF Ballot!WritePoll, BallotProved!WritePoll
<1>12. ASSUME NEW r \in Two, Ballot!Count(r) PROVE BallotProved!Count(r)
  BY <1>0, <1>1, <1>3, <1>4, <1>5, <1>6, <1>7, <1>12 DEF Ballot!Count, BallotProved!Count
<1>13. ASSUME NEW r \in Two, Ballot!CountVoters(r) PROVE BallotProved!CountVoters(r)
  BY <1>0, <1>1, <1>3, <1>4, <1>5, <1>6, <1>7, <1>13
  DEF Ballot!CountVoters, BallotProved!CountVoters
<1>14. ASSUME NEW r \in Two, Ballot!PublishPoll(r) PROVE BallotProved!PublishPoll(r)
  BY <1>0, <1>1, <1>3, <1>4, <1>5, <1>6, <1>7, <1>14
  DEF Ballot!PublishPoll, BallotProved!PublishPoll
<1>15. ASSUME NEW r \in Two, Ballot!AnswerRetraction(r) PROVE BallotProved!AnswerRetraction(r)
  BY <1>0, <1>1, <1>3, <1>4, <1>5, <1>6, <1>7, <1>15
  DEF Ballot!AnswerRetraction, BallotProved!AnswerRetraction
<1>16. ASSUME NEW r \in Two, Ballot!LookForReaction(r) PROVE BallotProved!LookForReaction(r)
  BY <1>0, <1>1, <1>3, <1>4, <1>5, <1>6, <1>7, <1>16
  DEF Ballot!LookForReaction, BallotProved!LookForReaction
<1>17. ASSUME NEW r \in Two, Ballot!Toggle(r) PROVE BallotProved!Toggle(r)
  BY <1>0, <1>1, <1>3, <1>4, <1>5, <1>6, <1>7, <1>17 DEF Ballot!Toggle, BallotProved!Toggle
<1>18. ASSUME NEW r \in Two, Ballot!CountReactions(r) PROVE BallotProved!CountReactions(r)
  BY <1>0, <1>1, <1>3, <1>4, <1>5, <1>6, <1>7, <1>18
  DEF Ballot!CountReactions, BallotProved!CountReactions
<1>19. ASSUME NEW r \in Two, Ballot!PublishReaction(r) PROVE BallotProved!PublishReaction(r)
  BY <1>0, <1>1, <1>3, <1>4, <1>5, <1>6, <1>7, <1>19
  DEF Ballot!PublishReaction, BallotProved!PublishReaction
<1>20. ASSUME NEW r \in Two, Ballot!Stop(r) PROVE BallotProved!Stop(r)
  BY <1>0, <1>1, <1>3, <1>4, <1>5, <1>6, <1>7, <1>20 DEF Ballot!Stop, BallotProved!Stop
<1>21. Ballot!Next => BallotProved!Next
  BY <1>9, <1>10, <1>11, <1>12, <1>13, <1>14,
     <1>15, <1>16, <1>17, <1>18, <1>19, <1>20
  DEF Ballot!Next, BallotProved!Next, Ballot!Due, BallotProved!Due
<1>22. UNCHANGED Ballot!vars => UNCHANGED BallotProved!vars
  BY DEF Ballot!vars, BallotProved!vars, Ballot!rows, BallotProved!rows
<1>23. BallotProved!AnswersHold => Ballot!AnswersHold
  BY <1>3 DEF Ballot!AnswersHold, BallotProved!AnswersHold
<1>24. BallotProved!AnnouncedIsStored => Ballot!AnnouncedIsStored
  BY <1>0, <1>1 DEF Ballot!AnnouncedIsStored, BallotProved!AnnouncedIsStored
<1>25. BallotProved!UsersFinite
  BY ServicesAssumption DEF BallotProved!UsersFinite, BallotProved!IsFiniteSet, IsFiniteSet
<1>26. BallotProved!TypeOK => Ballot!TypeOK
  BY DEF Ballot!TypeOK, BallotProved!TypeOK
<1>. QED
  BY <1>8, <1>21, <1>22, <1>23, <1>24, <1>25, <1>26

\* Votes and reactions are stored as they were answered and shown as they are stored,
\* in every behaviour of the whole (POST /polls/:id/vote, POST /reactions).
THEOREM BallotStands == Spec => []BallotHolds
<1> DEFINE Here == component = "ballot"
<1>1. Init /\ Here => BallotProved!Init
  BY BallotSame DEF Init
<1>2. Here /\ [Next]_vars => [BallotProved!Next]_(BallotProved!vars) /\ Here'
  <2>1. Here /\ [Next]_vars => [Ballot!Next]_(Ballot!vars) /\ Here'
    BY DEF Next, vars, voteVars, Ballot!vars, Ballot!rows
  <2>. QED
    BY <2>1, BallotSame
<1>3. ~Here /\ [Next]_vars => ~Here'
  BY ComponentStays
<1>4. (Here => BallotProved!AnswersHold /\ BallotProved!AnnouncedIsStored) => BallotHolds
  BY BallotSame DEF BallotHolds
<1>5. BallotProved!Spec => []BallotProved!AnswersHold /\ []BallotProved!AnnouncedIsStored
  BY BallotSame, BallotProved!AnswersAreStored, BallotProved!EventsAreTrue
<1> HIDE DEF Here
<1>. QED
  BY <1>1, <1>2, <1>3, <1>4, <1>5, PTL DEF Spec, BallotProved!Spec

LEMMA SecretSame ==
    /\ SecretChat!Init => SecretProved!Init
    /\ [SecretChat!Next]_(SecretChat!vars) => [SecretProved!Next]_(SecretProved!vars)
    /\ SecretProved!ReadOnArrivalOnly => SecretChat!ReadOnArrivalOnly
    /\ SecretProved!TypeOK => SecretChat!TypeOK
<1>1. SecretProved!Parties = SecretChat!Parties /\ SecretProved!NoKey = SecretChat!NoKey
      /\ SecretProved!NoChain = SecretChat!NoChain
  BY DEF SecretProved!Parties, SecretChat!Parties, SecretProved!NoKey, SecretChat!NoKey,
     SecretProved!NoChain, SecretChat!NoChain, SecretProved!Key, SecretChat!Key
<1>2. \A p, k : SecretProved!Key(p, k) = SecretChat!Key(p, k)
                /\ SecretProved!MessageKey(p, k) = SecretChat!MessageKey(p, k)
                /\ SecretProved!Peer(p) = SecretChat!Peer(p)
  BY DEF SecretProved!Key, SecretChat!Key, SecretProved!MessageKey, SecretChat!MessageKey,
     SecretProved!Peer, SecretChat!Peer
<1>3. \A root, mine, theirs :
        SecretProved!KdfRoot(root, mine, theirs) = SecretChat!KdfRoot(root, mine, theirs)
  BY DEF SecretProved!KdfRoot, SecretChat!KdfRoot
<1>4. SecretProved!InitSender = SecretChat!InitSender
      /\ SecretProved!InitReceiver = SecretChat!InitReceiver
  BY <1>1, <1>2, <1>3 DEF SecretProved!InitSender, SecretChat!InitSender,
     SecretProved!InitReceiver, SecretChat!InitReceiver
<1>5. SecretProved!NoOp = SecretChat!NoOp
  BY <1>4 DEF SecretProved!NoOp, SecretChat!NoOp
<1>6. \A s : SecretProved!Sealed(s) = SecretChat!Sealed(s)
             /\ SecretProved!Encrypted(s) = SecretChat!Encrypted(s)
  BY <1>2 DEF SecretProved!Sealed, SecretChat!Sealed, SecretProved!Encrypted, SecretChat!Encrypted
<1>7. \A s, until : SecretProved!TooMany(s, until) <=> SecretChat!TooMany(s, until)
  BY <1>1 DEF SecretProved!TooMany, SecretChat!TooMany
<1>8. \A s, until : SecretProved!SkipMessageKeys(s, until) = SecretChat!SkipMessageKeys(s, until)
  BY DEF SecretProved!SkipMessageKeys, SecretChat!SkipMessageKeys,
     SecretProved!MessageKey, SecretChat!MessageKey, SecretProved!NoChain, SecretChat!NoChain
<1>9. \A s, remote, fresh :
        SecretProved!DhRatchetStep(s, remote, fresh) = SecretChat!DhRatchetStep(s, remote, fresh)
  BY ZenonT(60), <1>3 DEF SecretProved!DhRatchetStep, SecretChat!DhRatchetStep
<1>10. \A s, m : SecretProved!Cached(s, m) = SecretChat!Cached(s, m)
  BY DEF SecretProved!Cached, SecretChat!Cached
<1>11. \A s, m : SecretProved!OpenNext(s, m) = SecretChat!OpenNext(s, m)
  BY <1>2, <1>7, <1>8 DEF SecretProved!OpenNext, SecretChat!OpenNext
<1>12. \A s, m, fresh : SecretProved!Decrypt(s, m, fresh) = SecretChat!Decrypt(s, m, fresh)
  BY ZenonT(60), <1>7, <1>8, <1>9, <1>10, <1>11 DEF SecretProved!Decrypt, SecretChat!Decrypt
<1>13. SecretChat!Init => SecretProved!Init
  BY <1>1, <1>4, <1>5 DEF SecretChat!Init, SecretProved!Init
<1>14. \A p, slot, state : SecretChat!Put(p, slot, state) <=> SecretProved!Put(p, slot, state)
  BY <1>5 DEF SecretChat!Put, SecretProved!Put
<1>15. \A p, slot : SecretChat!GetToEncrypt(p, slot) => SecretProved!GetToEncrypt(p, slot)
  BY <1>1 DEF SecretChat!GetToEncrypt, SecretProved!GetToEncrypt
<1>16. \A p, slot : SecretChat!PutEncrypted(p, slot) => SecretProved!PutEncrypted(p, slot)
  BY <1>6, <1>14 DEF SecretChat!PutEncrypted, SecretProved!PutEncrypted
<1>17. \A p, slot : SecretChat!GetToDecrypt(p, slot) => SecretProved!GetToDecrypt(p, slot)
  BY <1>2 DEF SecretChat!GetToDecrypt, SecretProved!GetToDecrypt
<1>18. \A p, slot : SecretChat!PutDecrypted(p, slot) => SecretProved!PutDecrypted(p, slot)
  <2> TAKE p, slot
  <2>1. SecretProved!Key(p, generated[p] + 1) = SecretChat!Key(p, generated[p] + 1)
    BY <1>2
  <2>2. SecretProved!Decrypt(op[p][slot].state, ratchetSent[op[p][slot].msg].sealed,
                             SecretProved!Key(p, generated[p] + 1))
          = SecretChat!Decrypt(op[p][slot].state, ratchetSent[op[p][slot].msg].sealed,
                               SecretChat!Key(p, generated[p] + 1))
    BY <1>12, <2>1
  <2>3. \A state : SecretChat!Put(p, slot, state) <=> SecretProved!Put(p, slot, state)
    BY <1>14
  <2>. QED
    BY <1>5, <2>1, <2>2, <2>3 DEF SecretChat!PutDecrypted, SecretProved!PutDecrypted
<1>19. SecretChat!Next => SecretProved!Next
  BY <1>1, <1>15, <1>16, <1>17, <1>18 DEF SecretChat!Next, SecretProved!Next
<1>20. UNCHANGED SecretChat!vars => UNCHANGED SecretProved!vars
  BY DEF SecretChat!vars, SecretProved!vars
<1>21. SecretProved!ReadOnArrivalOnly => SecretChat!ReadOnArrivalOnly
  BY <1>2 DEF SecretChat!ReadOnArrivalOnly, SecretProved!ReadOnArrivalOnly
<1>22. SecretProved!TypeOK => SecretChat!TypeOK
  BY <1>1 DEF SecretChat!TypeOK, SecretProved!TypeOK
<1>. QED
  BY <1>13, <1>19, <1>20, <1>21, <1>22

\* A message of a secret chat is read when it first arrives, in whatever order, and never
\* again, in every behaviour of the whole (ratchetDecrypt, decryptFromPeer).
THEOREM SecretsAreReadOnce == Spec => []ReadOnArrivalOnly
<1> DEFINE Here == component = "ratchet"
<1>1. Init /\ Here => SecretProved!Init
  BY SecretSame DEF Init
<1>2. Here /\ [Next]_vars => [SecretProved!Next]_(SecretProved!vars) /\ Here'
  <2>1. Here /\ [Next]_vars => [SecretChat!Next]_(SecretChat!vars) /\ Here'
    BY DEF Next, vars, ratchetVars, SecretChat!vars
  <2>. QED
    BY <2>1, SecretSame
<1>3. ~Here /\ [Next]_vars => ~Here'
  BY ComponentStays
<1>4. (Here => SecretProved!ReadOnArrivalOnly) => ReadOnArrivalOnly
  BY SecretSame DEF ReadOnArrivalOnly
<1>5. SecretProved!Spec => []SecretProved!ReadOnArrivalOnly
  BY ServicesAssumption, SecretProved!MessagesAreReadOnce
<1> HIDE DEF Here
<1>. QED
  BY <1>1, <1>2, <1>3, <1>4, <1>5, PTL DEF Spec, SecretProved!Spec

LEMMA LoginSame ==
    /\ Login!Init => LoginProved!Init
    /\ [Login!Next]_(Login!vars) => [LoginProved!Next]_(LoginProved!vars)
    /\ LoginProved!NoNeedlessBounce => Login!NoNeedlessBounce
    /\ LoginProved!LoggedOutStaysOut => Login!LoggedOutStaysOut
    /\ LoginProved!TypeOK => Login!TypeOK
<1>1. /\ LoginProved!None = Login!None /\ LoginProved!Pairs = Login!Pairs
      /\ LoginProved!Handlers = Login!Handlers /\ LoginProved!Idle = Login!Idle
  BY DEF Login!None, LoginProved!None, Login!Pairs, LoginProved!Pairs,
     Login!Handlers, LoginProved!Handlers, Login!Idle, LoginProved!Idle
<1>2. /\ UNCHANGED Login!redis => UNCHANGED LoginProved!redis
      /\ UNCHANGED Login!browser => UNCHANGED LoginProved!browser
      /\ UNCHANGED Login!client => UNCHANGED LoginProved!client
      /\ UNCHANGED Login!history => UNCHANGED LoginProved!history
  BY DEF Login!redis, LoginProved!redis, Login!browser, LoginProved!browser,
     Login!client, LoginProved!client, Login!history, LoginProved!history
<1>3. /\ Login!Disturb => LoginProved!Disturb
      /\ \A h, from, to : Login!Step(h, from, to) => LoginProved!Step(h, from, to)
  BY DEF Login!Disturb, LoginProved!Disturb, Login!Step, LoginProved!Step
<1>4. \A h, renewed : Login!Settle(h, renewed) => LoginProved!Settle(h, renewed)
  BY <1>1 DEF Login!Settle, LoginProved!Settle, Login!Sharing, LoginProved!Sharing
<1>5. Login!Init => LoginProved!Init
  BY <1>1 DEF Login!Init, LoginProved!Init
<1>6. ASSUME NEW p \in Login!Pairs, Login!Expire(p) PROVE LoginProved!Expire(p)
  BY <1>1, <1>2, <1>3, <1>4, <1>6 DEF Login!Expire, LoginProved!Expire
<1>7. ASSUME NEW t \in {1}, NEW r \in Two, Login!Send(t, r) PROVE LoginProved!Send(t, r)
  BY <1>1, <1>2, <1>3, <1>4, <1>7
  DEF Login!Send, LoginProved!Send, Login!Bearer, LoginProved!Bearer
<1>8. ASSUME NEW t \in {1}, NEW r \in Two, Login!Serve(t, r) PROVE LoginProved!Serve(t, r)
  BY <1>1, <1>2, <1>3, <1>4, <1>8
  DEF Login!Serve, LoginProved!Serve, Login!Accepts, LoginProved!Accepts
<1>9. ASSUME NEW t \in {1}, NEW r \in Two, Login!Denied(t, r) PROVE LoginProved!Denied(t, r)
  BY <1>1, <1>2, <1>3, <1>4, <1>9
  DEF Login!Denied, LoginProved!Denied, Login!StartRefresh, LoginProved!StartRefresh
<1>10. ASSUME NEW h \in Login!Handlers, Login!ReadSession(h) PROVE LoginProved!ReadSession(h)
  BY <1>1, <1>2, <1>3, <1>4, <1>10 DEF Login!ReadSession, LoginProved!ReadSession
<1>11. ASSUME NEW h \in Login!Handlers, Login!DeleteSession(h) PROVE LoginProved!DeleteSession(h)
  BY <1>1, <1>2, <1>3, <1>4, <1>11 DEF Login!DeleteSession, LoginProved!DeleteSession
<1>12. ASSUME NEW h \in Login!Handlers, Login!StoreSession(h) PROVE LoginProved!StoreSession(h)
  BY <1>1, <1>2, <1>3, <1>4, <1>12 DEF Login!StoreSession, LoginProved!StoreSession
<1>13. ASSUME NEW h \in Login!Handlers, Login!Refreshed(h) PROVE LoginProved!Refreshed(h)
  BY <1>1, <1>2, <1>3, <1>4, <1>13 DEF Login!Refreshed, LoginProved!Refreshed
<1>14. ASSUME NEW h \in Login!Handlers, Login!RefreshRefused(h) PROVE LoginProved!RefreshRefused(h)
  BY <1>1, <1>2, <1>3, <1>4, <1>14 DEF Login!RefreshRefused, LoginProved!RefreshRefused
<1>15. ASSUME NEW h \in Login!Handlers, Login!RefreshFails(h) PROVE LoginProved!RefreshFails(h)
  BY <1>1, <1>2, <1>3, <1>4, <1>15 DEF Login!RefreshFails, LoginProved!RefreshFails
<1>16. ASSUME NEW t \in {1}, Login!Logout(t) PROVE LoginProved!Logout(t)
  BY <1>1, <1>2, <1>3, <1>4, <1>16
  DEF Login!Logout, LoginProved!Logout, Login!Bearer, LoginProved!Bearer
<1>17. ASSUME NEW t \in {1}, Login!Reload(t) PROVE LoginProved!Reload(t)
  BY <1>1, <1>2, <1>3, <1>4, <1>17 DEF Login!Reload, LoginProved!Reload
<1>18. ASSUME Login!LogoutDelete PROVE LoginProved!LogoutDelete
  BY <1>1, <1>2, <1>3, <1>4, <1>18 DEF Login!LogoutDelete, LoginProved!LogoutDelete
<1>19. ASSUME Login!LogoutRevoke PROVE LoginProved!LogoutRevoke
  BY <1>1, <1>2, <1>3, <1>4, <1>19 DEF Login!LogoutRevoke, LoginProved!LogoutRevoke
<1>20. ASSUME Login!LogoutAnswered PROVE LoginProved!LogoutAnswered
  BY <1>1, <1>2, <1>3, <1>4, <1>20 DEF Login!LogoutAnswered, LoginProved!LogoutAnswered
<1>21. ASSUME Login!LogoutFails PROVE LoginProved!LogoutFails
  BY <1>1, <1>2, <1>3, <1>4, <1>21 DEF Login!LogoutFails, LoginProved!LogoutFails
<1>22. Login!Next => LoginProved!Next
  BY <1>1, <1>6, <1>7, <1>8, <1>9, <1>10, <1>11, <1>12, <1>13,
     <1>14, <1>15, <1>16, <1>17, <1>18, <1>19, <1>20, <1>21
  DEF Login!Next, LoginProved!Next
<1>23. UNCHANGED Login!vars => UNCHANGED LoginProved!vars
  BY <1>2 DEF Login!vars, LoginProved!vars, Login!redis, LoginProved!redis,
     Login!browser, LoginProved!browser, Login!client, LoginProved!client,
     Login!history, LoginProved!history
<1>24. LoginProved!NoNeedlessBounce => Login!NoNeedlessBounce
  BY DEF Login!NoNeedlessBounce, LoginProved!NoNeedlessBounce
<1>25. LoginProved!LoggedOutStaysOut => Login!LoggedOutStaysOut
  BY <1>1 DEF Login!LoggedOutStaysOut, LoginProved!LoggedOutStaysOut, Login!Accepts,
     LoginProved!Accepts
<1>26. LoginProved!TypeOK => Login!TypeOK
  BY <1>1 DEF Login!TypeOK, LoginProved!TypeOK
<1>. QED
  BY <1>5, <1>22, <1>23, <1>24, <1>25, <1>26

\* With one page nobody is sent to /login without cause, in every behaviour of the
\* whole (api.ts, H-14).
THEOREM NobodyIsBounced == Spec => []NoNeedlessBounce
<1> DEFINE Here == component = "login"
<1>1. Init /\ Here => LoginProved!Init
  BY LoginSame DEF Init
<1>2. Here /\ [Next]_vars => [LoginProved!Next]_(LoginProved!vars) /\ Here'
  <2>1. Here /\ [Next]_vars => [Login!Next]_(Login!vars) /\ Here'
    BY DEF Next, vars, sessionVars, Login!vars, Login!redis, Login!browser, Login!client,
       Login!history
  <2>. QED
    BY <2>1, LoginSame
<1>3. ~Here /\ [Next]_vars => ~Here'
  BY ComponentStays
<1>4. (Here => LoginProved!NoNeedlessBounce) => NoNeedlessBounce
  BY LoginSame DEF NoNeedlessBounce
<1>5. LoginProved!Spec => []LoginProved!NoNeedlessBounce
  <2>1. LoginProved!OneTab
    BY DEF LoginProved!OneTab
  <2>. QED
    BY <2>1, ServicesAssumption, LoginProved!NoBounceWithOneTab
<1> HIDE DEF Here
<1>. QED
  BY <1>1, <1>2, <1>3, <1>4, <1>5, PTL DEF Spec, LoginProved!Spec

\* With one page, logging out ends the session, in every behaviour of the whole
\* (auth.routes.ts, H-03).
THEOREM LoggingOutIsFinal == Spec => []LoggedOutStaysOut
<1> DEFINE Here == component = "login"
<1>1. Init /\ Here => LoginProved!Init
  BY LoginSame DEF Init
<1>2. Here /\ [Next]_vars => [LoginProved!Next]_(LoginProved!vars) /\ Here'
  <2>1. Here /\ [Next]_vars => [Login!Next]_(Login!vars) /\ Here'
    BY DEF Next, vars, sessionVars, Login!vars, Login!redis, Login!browser, Login!client,
       Login!history
  <2>. QED
    BY <2>1, LoginSame
<1>3. ~Here /\ [Next]_vars => ~Here'
  BY ComponentStays
<1>4. (Here => LoginProved!LoggedOutStaysOut) => LoggedOutStaysOut
  BY LoginSame DEF LoggedOutStaysOut
<1>5. LoginProved!Spec => []LoginProved!LoggedOutStaysOut
  <2>1. LoginProved!OneTab
    BY DEF LoginProved!OneTab
  <2>. QED
    BY <2>1, ServicesAssumption, LoginProved!LogoutIsFinalWithOneTab
<1> HIDE DEF Here
<1>. QED
  BY <1>1, <1>2, <1>3, <1>4, <1>5, PTL DEF Spec, LoginProved!Spec

\* The second factor stays as it was confirmed and a code counts once, in every
\* behaviour of the whole (POST /2fa/verify, verifyTotpOnce).
THEOREM FactorStaysOn == Spec => []FactorAsConfirmed
<1> DEFINE Here == component = "factor"
<1>1. Init /\ Here => Factor!Init
  BY DEF Init
<1>2. Here /\ [Next]_vars => [Factor!Next]_(Factor!vars) /\ Here'
  BY DEF Next, vars, factorVars, Factor!vars
<1>3. ~Here /\ [Next]_vars => ~Here'
  BY ComponentStays
<1>4. (Here => FInv) => FactorAsConfirmed
  <2>1. FInv => Factor!FactorAsConfirmed
    <3> SUFFICES ASSUME FInv PROVE Factor!FactorAsConfirmed
      OBVIOUS
    <3>1. totp = [secret |-> totp.secret, is_verified |-> totp.is_verified]
      BY DEF FInv, FactorTyped
    <3>2. totp.is_verified => totp.is_verified = TRUE
      BY DEF FInv, FactorTyped
    <3>. QED
      BY <3>1, <3>2 DEF FInv, Confirmed, CodesOnce, Factor!FactorAsConfirmed, Factor!NoSecret
  <2>. QED
    BY <2>1 DEF FactorAsConfirmed
<1> HIDE DEF Here
<1>. QED
  BY <1>1, <1>2, <1>3, <1>4, FactorInit, FactorStep, PTL DEF Spec

\* The chat Saved Messages of a user is one, whichever of the two services answers
\* (getOrCreateSavedMessages, ensureSavedChat): whatever else the requests do, a later
\* answer names the chat of an earlier one unless one of them was found while a request
\* was creating a chat, or a creation was cut short between its two rows.
THEOREM SavedChatIsOne == Spec => []OneSavedChat
<1> DEFINE Here == component = "account"
           Account1 == AInv /\ AnsweredBefore
<1>1. Init /\ Here => Account!Init
  BY DEF Init
<1>2. Account!Init => Account1
  BY AccountInit DEF Account!Init, AnsweredBefore, Askers
<1>3. Here /\ [Next]_vars => [Account!Next]_(Account!vars) /\ Here'
  BY DEF Next, vars, accountVars, Account!vars
<1>4. Account1 /\ [Account!Next]_(Account!vars) => Account1'
  BY AccountStep, AnsweredBeforeKeeps
<1>5. ~Here /\ [Next]_vars => ~Here'
  BY ComponentStays
<1>6. (Here => Account1) => OneSavedChat
  BY SavedIsOne DEF OneSavedChat
<1> HIDE DEF Here, Account1
<1>. QED
  BY <1>1, <1>2, <1>3, <1>4, <1>5, <1>6, PTL DEF Spec

\* An e-mailed code is redeemed once, and the code of the newest mail works until it
\* is redeemed or expires, unless its send overlapped another, or a code was stored
\* that the flow of the user does not redeem (storeAndSendEmailOtp, OTP_VERIFY_LUA,
\* POST /login, /resend-code, /verify-login, /verify-email).
THEOREM NewestCodeWorks == Spec => []CodeWorksOnce
<1> DEFINE Here == component = "code"
<1>1. Init /\ Here => Code!Init
  BY DEF Init
<1>2. Here /\ [Next]_vars => [Code!Next]_(Code!vars) /\ Here'
  BY DEF Next, vars, codeVars, Code!vars, Code!redis, Code!account, Code!user
<1>3. ~Here /\ [Next]_vars => ~Here'
  BY ComponentStays
<1>4. (Here => CInv) => CodeWorksOnce
  <2>1. CInv => Code!CodeWorksOnce
    BY DEF CInv, CodesAreFresh, NewestWorks, Code!CodeWorksOnce, Code!NoCode
  <2>. QED
    BY <2>1 DEF CodeWorksOnce
<1> HIDE DEF Here
<1>. QED
  BY <1>1, <1>2, <1>3, <1>4, CodeInit, CodeStep, PTL DEF Spec

\* Each component keeps its types in the behaviours that are its own.
LEMMA TransparencyStays == Spec => [](component = "transparency" => Transparency!TypeOK)
<1> DEFINE Here == component = "transparency"
<1>1. Init /\ Here => Transparency!Init
  BY DEF Init
<1>2. Here /\ [Next]_vars => [Transparency!Next]_(Transparency!vars) /\ Here'
  BY DEF Next, vars, keyLogVars, Transparency!vars
<1>3. ~Here /\ [Next]_vars => ~Here'
  BY ComponentStays
<1> HIDE DEF Here
<1>4. Spec => [](Here => Transparency!TypeOK)
  BY <1>1, <1>2, <1>3, RebuildsAreComing, PTL DEF Spec, Transparency!Spec
<1>. QED
  BY <1>4 DEF Here

LEMMA TokenStays == Spec => [](component = "token" => Token!TypeOK)
<1> DEFINE Here == component = "token"
<1>1. Init /\ Here => Token!Init
  BY DEF Init
<1>2. Here /\ [Next]_vars => [Token!Next]_(Token!vars) /\ Here'
  BY DEF Next, vars, jettonVars, Token!vars
<1>3. ~Here /\ [Next]_vars => ~Here'
  BY ComponentStays
<1> HIDE DEF Here
<1>4. Spec => [](Here => Token!TypeOK)
  BY <1>1, <1>2, <1>3, TokenTypes, PTL DEF Spec, Token!Spec
<1>. QED
  BY <1>4 DEF Here

LEMMA OpeningStays == Spec => [](component = "opening" => Opening!TypeOK)
<1> DEFINE Here == component = "opening"
<1>1. Init /\ Here => Opening!Init
  BY DEF Init
<1>2. Here /\ [Next]_vars => [Opening!Next]_(Opening!vars) /\ Here'
  BY DEF Next, vars, chatVars, Opening!vars
<1>3. ~Here /\ [Next]_vars => ~Here'
  BY ComponentStays
<1> HIDE DEF Here
<1>4. Spec => [](Here => Opening!TypeOK)
  BY <1>1, <1>2, <1>3, OpeningTypes, PTL DEF Spec, Opening!Spec
<1>. QED
  BY <1>4 DEF Here

LEMMA SearchStays == Spec => [](component = "search" => Search!TypeOK)
<1> DEFINE Here == component = "search"
<1>1. Init /\ Here => Search!Init
  BY DEF Init
<1>2. Here /\ [Next]_vars => [Search!Next]_(Search!vars) /\ Here'
  BY DEF Next, vars, searchVars, Search!vars
<1>3. ~Here /\ [Next]_vars => ~Here'
  BY ComponentStays
<1> HIDE DEF Here
<1>4. Spec => [](Here => Search!TypeOK)
  BY <1>1, <1>2, <1>3, SearchTypes, PTL DEF Spec, Search!Spec
<1>. QED
  BY <1>4 DEF Here

LEMMA WatchStays == Spec => [](component = "watch" => Watch!TypeOK)
<1> DEFINE Here == component = "watch"
<1>1. Init /\ Here => Watch!Init
  BY DEF Init
<1>2. Here /\ [Next]_vars => [Watch!Next]_(Watch!vars) /\ Here'
  BY DEF Next, vars, presenceVars, Watch!vars
<1>3. ~Here /\ [Next]_vars => ~Here'
  BY ComponentStays
<1> HIDE DEF Here
<1>4. Spec => [](Here => Watch!TypeOK)
  BY <1>1, <1>2, <1>3, PresenceTypes, PTL DEF Spec, Watch!Spec
<1>. QED
  BY <1>4 DEF Here

LEMMA AccountStays == Spec => [](component = "account" => Account!TypeOK)
<1> DEFINE Here == component = "account"
<1>1. Init /\ Here => Account!Init
  BY DEF Init
<1>2. Here /\ [Next]_vars => [Account!Next]_(Account!vars) /\ Here'
  BY DEF Next, vars, accountVars, Account!vars
<1>3. ~Here /\ [Next]_vars => ~Here'
  BY ComponentStays
<1> HIDE DEF Here
<1>4. Spec => [](Here => Account!TypeOK)
  BY <1>1, <1>2, <1>3, AccountTypes, PTL DEF Spec, Account!Spec
<1>. QED
  BY <1>4 DEF Here

LEMMA CodeStays == Spec => [](component = "code" => Code!TypeOK)
<1> DEFINE Here == component = "code"
<1>1. Init /\ Here => Code!Init
  BY DEF Init
<1>2. Here /\ [Next]_vars => [Code!Next]_(Code!vars) /\ Here'
  BY DEF Next, vars, codeVars, Code!vars, Code!redis, Code!account, Code!user
<1>3. ~Here /\ [Next]_vars => ~Here'
  BY ComponentStays
<1> HIDE DEF Here
<1>4. Spec => [](Here => Code!TypeOK)
  BY <1>1, <1>2, <1>3, CodeTypes, PTL DEF Spec, Code!Spec
<1>. QED
  BY <1>4 DEF Here

LEMMA FactorStays == Spec => [](component = "factor" => Factor!TypeOK)
<1> DEFINE Here == component = "factor"
<1>1. Init /\ Here => Factor!Init
  BY DEF Init
<1>2. Here /\ [Next]_vars => [Factor!Next]_(Factor!vars) /\ Here'
  BY DEF Next, vars, factorVars, Factor!vars
<1>3. ~Here /\ [Next]_vars => ~Here'
  BY ComponentStays
<1> HIDE DEF Here
<1>4. Spec => [](Here => Factor!TypeOK)
  BY <1>1, <1>2, <1>3, FactorTypes, PTL DEF Spec, Factor!Spec
<1>. QED
  BY <1>4 DEF Here

LEMMA BallotStays == Spec => [](component = "ballot" => Ballot!TypeOK)
<1> DEFINE Here == component = "ballot"
<1>1. Init /\ Here => BallotProved!Init
  BY BallotSame DEF Init
<1>2. Here /\ [Next]_vars => [BallotProved!Next]_(BallotProved!vars) /\ Here'
  <2>1. Here /\ [Next]_vars => [Ballot!Next]_(Ballot!vars) /\ Here'
    BY DEF Next, vars, voteVars, Ballot!vars, Ballot!rows
  <2>. QED
    BY <2>1, BallotSame
<1>3. ~Here /\ [Next]_vars => ~Here'
  BY ComponentStays
<1>4. BallotProved!Spec => []BallotProved!TypeOK
  BY BallotSame, Bounds, BallotProved!BallotTyped
<1>5. BallotProved!TypeOK => Ballot!TypeOK
  BY BallotSame
<1> HIDE DEF Here
<1>6. Spec => [](Here => Ballot!TypeOK)
  BY <1>1, <1>2, <1>3, <1>4, <1>5, PTL DEF Spec, BallotProved!Spec
<1>. QED
  BY <1>6 DEF Here

LEMMA SecretChatStays == Spec => [](component = "ratchet" => SecretChat!TypeOK)
<1> DEFINE Here == component = "ratchet"
<1>1. Init /\ Here => SecretProved!Init
  BY SecretSame DEF Init
<1>2. Here /\ [Next]_vars => [SecretProved!Next]_(SecretProved!vars) /\ Here'
  <2>1. Here /\ [Next]_vars => [SecretChat!Next]_(SecretChat!vars) /\ Here'
    BY DEF Next, vars, ratchetVars, SecretChat!vars
  <2>. QED
    BY <2>1, SecretSame
<1>3. ~Here /\ [Next]_vars => ~Here'
  BY ComponentStays
<1>4. SecretProved!Spec => []SecretProved!TypeOK
  BY ServicesAssumption, SecretProved!CacheIsBounded
<1>5. SecretProved!TypeOK => SecretChat!TypeOK
  BY SecretSame
<1> HIDE DEF Here
<1>6. Spec => [](Here => SecretChat!TypeOK)
  BY <1>1, <1>2, <1>3, <1>4, <1>5, PTL DEF Spec, SecretProved!Spec
<1>. QED
  BY <1>6 DEF Here

LEMMA LoginStays == Spec => [](component = "login" => Login!TypeOK)
<1> DEFINE Here == component = "login"
<1>1. Init /\ Here => LoginProved!Init
  BY LoginSame DEF Init
<1>2. Here /\ [Next]_vars => [LoginProved!Next]_(LoginProved!vars) /\ Here'
  <2>1. Here /\ [Next]_vars => [Login!Next]_(Login!vars) /\ Here'
    BY DEF Next, vars, sessionVars, Login!vars, Login!redis, Login!browser, Login!client,
       Login!history
  <2>. QED
    BY <2>1, LoginSame
<1>3. ~Here /\ [Next]_vars => ~Here'
  BY ComponentStays
<1>4. LoginProved!Spec => []LoginProved!TypeOK
  <2>1. MaxPairs \in Nat /\ MaxPairs >= 1 /\ MaxFaults \in Nat
    BY ServicesAssumption
  <2>. QED
    BY <2>1, LoginProved!WaitersAreAnswered
<1>5. LoginProved!TypeOK => Login!TypeOK
  BY LoginSame
<1> HIDE DEF Here
<1>6. Spec => [](Here => Login!TypeOK)
  BY <1>1, <1>2, <1>3, <1>4, <1>5, PTL DEF Spec, LoginProved!Spec
<1>. QED
  BY <1>6 DEF Here

\* Every variable of every component has its type, in every behaviour of the whole; the
\* types also say that no request waits for an answer that nobody owes it, that counts stay
\* below their limits, and that what one variable names is there in another (kt.routes.ts
\* getTree, api.ts, POST /resend-code, ratchet.ts, search-worker).
THEOREM EverythingIsTyped == Spec => []TypeOK
<1>1. /\ component = "login" => Login!TypeOK
      /\ component = "ratchet" => SecretChat!TypeOK
      /\ component = "transparency" => Transparency!TypeOK
      /\ component = "token" => Token!TypeOK
      /\ component = "opening" => Opening!TypeOK
      /\ component = "search" => Search!TypeOK
      /\ component = "ballot" => Ballot!TypeOK
      /\ component = "watch" => Watch!TypeOK
      /\ component = "account" => Account!TypeOK
      /\ component = "code" => Code!TypeOK
      /\ component = "factor" => Factor!TypeOK
      => TypeOK
  BY DEF TypeOK
<1>. QED
  BY <1>1, LoginStays, SecretChatStays, TransparencyStays, TokenStays, OpeningStays,
     SearchStays, BallotStays, WatchStays, AccountStays, CodeStays, FactorStays, PTL
===============================================================================
