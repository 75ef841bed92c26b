-------------------------------- MODULE Votes --------------------------------
(***************************************************************************)
(* A message with a poll and a reaction (messaging-core-service:           *)
(* POST /polls/:id/vote, DELETE /polls/:id/vote, POST /polls/:id/close and *)
(* POST /reactions).  Every handler reads, writes, counts and publishes in *)
(* separate statements; the others run in between.                         *)
(*                                                                         *)
(* The poll allows a single choice; the reaction is one emoji.  What the   *)
(* routes check of members and input is left out.                          *)
(***************************************************************************)
EXTENDS Naturals, FiniteSets

CONSTANTS
    Users,
    Options,
    Requests,
    NoVote,         \* distinct from the options
    MaxFaults       \* bounds the handlers that stop half-way

VARIABLES
    is_quiz, is_closed, due,    \* the row of polls; due: closes_at has passed
    poll_votes,     \* user -> the option of the row, or NoVote
    reactions,      \* the users with a row
    request,        \* request -> what it is, its state and what it has read
    announced,      \* the poll and the reactions in the latest events of each
    told,           \* user -> history: the latest vote (of a quiz, the first) and toggle
                    \* that were answered with success
    excusedPoll, excusedReactions,      \* history: the latest event may be wrong
    overlapped,     \* history: users of whom two requests wrote while both were under way
    faults

rows == <<is_quiz, is_closed, due, poll_votes, reactions>>
vars == <<rows, request, announced, told, excusedPoll, excusedReactions, overlapped, faults>>

Tally(votes)  == [o \in Options |-> Cardinality({u \in Users : votes[u] = o})]
Voters(votes) == Cardinality({u \in Users : votes[u] # NoVote})

NoRequest ==
    [kind |-> "none", state |-> "idle", user |-> CHOOSE u \in Users : TRUE, option |-> NoVote,
     read |-> FALSE, counts |-> Tally([u \in Users |-> NoVote]), total |-> 0, alone |-> FALSE]

Init ==
    /\ is_quiz \in BOOLEAN /\ is_closed = FALSE /\ due = FALSE
    /\ poll_votes = [u \in Users |-> NoVote] /\ reactions = {}
    /\ request = [r \in Requests |-> NoRequest]
    /\ announced = [closed |-> FALSE, counts |-> NoRequest.counts, total |-> 0, reactions |-> 0]
    /\ told = [u \in Users |-> [vote |-> NoVote, added |-> FALSE]]
    /\ excusedPoll = FALSE /\ excusedReactions = FALSE /\ overlapped = {}
    /\ faults = 0

\* closes_at passes.
Due ==
    /\ ~due /\ due' = TRUE
    /\ UNCHANGED <<is_quiz, is_closed, poll_votes, reactions, request, announced, told,
                   excusedPoll, excusedReactions, overlapped, faults>>

UnderWay(r) == request[r].state \notin {"idle", "done"}
Others(r)   == {s \in Requests \ {r} : UnderWay(s)}
Finish(r)   == request' = [request EXCEPT ![r] = [NoRequest EXCEPT !.state = "done"]]

-------------------------------------------------------------------------------
\* findPoll, and what the route makes of it.  Retracting does not ask for closes_at.
Refuses(kind) ==
    \/ kind = "vote" /\ (is_closed \/ due)
    \/ kind = "retract" /\ (is_quiz \/ is_closed)

Begin(r, kind, user, option, state, read) ==
    request' = [s \in Requests |->
        IF s = r THEN [NoRequest EXCEPT !.kind = kind, !.state = state, !.user = user,
                                        !.option = option, !.read = read, !.alone = Others(r) = {}]
        ELSE [request[s] EXCEPT !.alone = FALSE]]

Find(r) ==
    /\ request[r].state = "idle"
    /\ \E kind \in {"vote", "retract", "close"}, u \in Users, o \in Options \cup {NoVote} :
          /\ ~Refuses(kind) /\ (kind = "vote") = (o \in Options)
          /\ Begin(r, kind, u, o, IF kind = "vote" /\ is_quiz THEN "found" ELSE "checked", is_closed)
    /\ UNCHANGED <<rows, announced, told, excusedPoll, excusedReactions, overlapped, faults>>

\* Mutant of LookForAnswer: a quiz is answered like any poll.
LookAway(r) ==
    /\ request[r].state = "found"
    /\ request' = [request EXCEPT ![r].state = "checked"]
    /\ UNCHANGED <<rows, announced, told, excusedPoll, excusedReactions, overlapped, faults>>

\* "Quiz answers cannot be changed".
LookForAnswer(r) ==
    /\ request[r].state = "found"
    /\ IF poll_votes[request[r].user] # NoVote THEN Finish(r)
       ELSE request' = [request EXCEPT ![r].state = "checked"]
    /\ UNCHANGED <<rows, announced, told, excusedPoll, excusedReactions, overlapped, faults>>

\* The user has another request under way that writes the same rows.
Overlap(r) ==
    overlapped' = IF \E s \in Others(r) : /\ request[s].user = request[r].user
                                          /\ (request[s].kind = "toggle") = (request[r].kind = "toggle")
                  THEN overlapped \cup {request[r].user} ELSE overlapped

\* The upsert, the DELETE or the UPDATE.
WritePoll(r) ==
    LET q == request[r] IN
    /\ q.state = "checked" /\ q.kind # "toggle"
    /\ is_closed' = (is_closed \/ q.kind = "close")
    /\ poll_votes' = CASE q.kind = "vote"    -> [poll_votes EXCEPT ![q.user] = q.option]
                       [] q.kind = "retract" -> [poll_votes EXCEPT ![q.user] = NoVote]
                       [] q.kind = "close"   -> poll_votes
    /\ request' = [request EXCEPT ![r].state = "written",
                                  ![r].read = q.read \/ q.kind = "close"]
    /\ excusedPoll' = TRUE
    /\ Overlap(r)
    /\ UNCHANGED <<is_quiz, due, reactions, announced, told, excusedReactions, faults>>

\* pollResults, its first statement and its second.
Count(r) ==
    /\ request[r].state = "written" /\ request[r].kind # "toggle"
    /\ request' = [request EXCEPT ![r].state = "counted", ![r].counts = Tally(poll_votes)]
    /\ UNCHANGED <<rows, announced, told, excusedPoll, excusedReactions, overlapped, faults>>

CountVoters(r) ==
    /\ request[r].state = "counted" /\ request[r].kind # "toggle"
    /\ request' = [request EXCEPT ![r].state = "totalled", ![r].total = Voters(poll_votes)]
    /\ UNCHANGED <<rows, announced, told, excusedPoll, excusedReactions, overlapped, faults>>

\* MESSAGE_EDITED, with the row as it was read before the vote, or as the UPDATE left it.
PublishPoll(r) ==
    LET q == request[r] IN
    /\ q.state = "totalled" /\ q.kind # "retract"
    /\ announced' = [announced EXCEPT !.closed = q.read, !.counts = q.counts, !.total = q.total]
    /\ told' = IF q.kind = "vote" /\ ~(is_quiz /\ told[q.user].vote # NoVote)
               THEN [told EXCEPT ![q.user].vote = q.option] ELSE told
    /\ Finish(r)
    /\ excusedPoll' = ~q.alone
    /\ UNCHANGED <<rows, excusedReactions, overlapped, faults>>

\* DELETE /polls/:id/vote answers without an event.
AnswerRetraction(r) ==
    /\ request[r].state = "totalled" /\ request[r].kind = "retract"
    /\ told' = [told EXCEPT ![request[r].user].vote = NoVote]
    /\ Finish(r)
    /\ UNCHANGED <<rows, announced, excusedPoll, excusedReactions, overlapped, faults>>

-------------------------------------------------------------------------------
\* POST /reactions: the message and the member are there; "existing" is read.
LookForReaction(r) ==
    /\ request[r].state = "idle"
    /\ \E u \in Users : Begin(r, "toggle", u, NoVote, "checked", u \in reactions)
    /\ UNCHANGED <<rows, announced, told, excusedPoll, excusedReactions, overlapped, faults>>

\* DELETE, or INSERT ... ON CONFLICT DO NOTHING.
Toggle(r) ==
    LET q == request[r] IN
    /\ q.state = "checked" /\ q.kind = "toggle"
    /\ reactions' = IF q.read THEN reactions \ {q.user} ELSE reactions \cup {q.user}
    /\ request' = [request EXCEPT ![r].state = "written"]
    /\ excusedReactions' = TRUE
    /\ Overlap(r)
    /\ UNCHANGED <<is_quiz, is_closed, due, poll_votes, announced, told, excusedPoll, faults>>

CountReactions(r) ==
    /\ request[r].state = "written" /\ request[r].kind = "toggle"
    /\ request' = [request EXCEPT ![r].state = "counted", ![r].total = Cardinality(reactions)]
    /\ UNCHANGED <<rows, announced, told, excusedPoll, excusedReactions, overlapped, faults>>

PublishReaction(r) ==
    LET q == request[r] IN
    /\ q.state = "counted" /\ q.kind = "toggle"
    /\ announced' = [announced EXCEPT !.reactions = q.total]
    /\ told' = [told EXCEPT ![q.user].added = ~q.read]
    /\ Finish(r)
    /\ excusedReactions' = ~q.alone
    /\ UNCHANGED <<rows, excusedPoll, overlapped, faults>>

\* A statement or the publish fails, or the process stops.
Stop(r) ==
    /\ UnderWay(r)
    /\ faults < MaxFaults /\ faults' = faults + 1
    /\ Finish(r)
    /\ overlapped' = IF request[r].state \in {"found", "checked"} THEN overlapped
                     ELSE overlapped \cup {request[r].user}
    /\ UNCHANGED <<rows, announced, told, excusedPoll, excusedReactions>>

Next ==
    \/ Due
    \/ \E r \in Requests :
          \/ Find(r) \/ LookForAnswer(r) \/ WritePoll(r) \/ Count(r) \/ CountVoters(r)
          \/ PublishPoll(r) \/ AnswerRetraction(r) \/ LookForReaction(r) \/ Toggle(r)
          \/ CountReactions(r) \/ PublishReaction(r) \/ Stop(r)

Spec == Init /\ [][Next]_vars

-------------------------------------------------------------------------------
(* Properties.                                                             *)

\* Every variable has its type.
TypeOK ==
    /\ is_quiz \in BOOLEAN /\ is_closed \in BOOLEAN /\ due \in BOOLEAN
    /\ poll_votes \in [Users -> Options \cup {NoVote}] /\ reactions \subseteq Users
    /\ \A r \in Requests : request[r].state \in {"idle", "found", "checked", "written", "counted",
                                                 "totalled", "done"}
    /\ overlapped \subseteq Users /\ faults \in 0..MaxFaults

\* "Quiz answers cannot be changed", and what a user was last told of a vote or
\* of a reaction ("added") is what is stored (of a quiz, what the first answer
\* told), unless two requests of the user overlapped or one of them stopped after
\* it had written.
AnswersHold ==
    \A u \in Users \ overlapped :
        (\A r \in Requests : UnderWay(r) => request[r].user # u) =>
            /\ poll_votes[u] = told[u].vote
            /\ (u \in reactions) = told[u].added

\* The latest event shows the poll as it is, closed or not and with its votes,
\* and the number of reactions, unless the request that published it had company,
\* a vote was retracted since (nothing is published), or a request stopped.
AnnouncedIsStored ==
    /\ ~excusedPoll => /\ announced.closed = is_closed
                       /\ announced.counts = Tally(poll_votes)
                       /\ announced.total = Voters(poll_votes)
    /\ ~excusedReactions => announced.reactions = Cardinality(reactions)
===============================================================================
