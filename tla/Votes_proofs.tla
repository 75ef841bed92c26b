---------------------------- MODULE Votes_proofs ----------------------------
(***************************************************************************)
(* Votes and reactions are stored as they were answered, and shown as they *)
(* are stored, for any users, options and requests.                        *)
(***************************************************************************)
EXTENDS Votes, FiniteSetTheorems, TLAPS

\* The users are known and finitely many.
UsersFinite == IsFiniteSet(Users) /\ Users # {}

States == {"idle", "found", "checked", "written", "counted", "totalled", "done"}

Request == [kind : {"none", "vote", "retract", "close", "toggle"}, state : States, user : Users,
            option : Options \cup {NoVote}, read : BOOLEAN, counts : [Options -> Nat],
            total : Nat, alone : BOOLEAN]

Typed ==
    /\ is_quiz \in BOOLEAN /\ is_closed \in BOOLEAN
    /\ poll_votes \in [Users -> Options \cup {NoVote}] /\ reactions \subseteq Users
    /\ request \in [Requests -> Request]
    /\ told \in [Users -> [vote : Options \cup {NoVote}, added : BOOLEAN]]
    /\ overlapped \subseteq Users

Wrote(r)   == request[r].state \in {"written", "counted", "totalled"}
Toggles(r) == request[r].kind = "toggle"
Of(r)      == request[r].user

\* While nobody's requests overlap, one of the user's requests is between its write
\* and its answer.
OneWriter ==
    \A r, s \in Requests :
        (Wrote(r) /\ Wrote(s) /\ Of(r) = Of(s) /\ (Toggles(r) <=> Toggles(s)) /\ Of(r) \notin overlapped)
          => r = s

\* What is stored is what was answered, or is about to be.
VoteHolds ==
    \A u \in Users \ overlapped :
        (\A r \in Requests : Of(r) = u /\ ~Toggles(r) => ~Wrote(r)) => poll_votes[u] = told[u].vote

VoteWritten ==
    \A r \in Requests : (Wrote(r) /\ Of(r) \notin overlapped) =>
        /\ request[r].kind = "vote" => /\ poll_votes[Of(r)] = request[r].option
                                       /\ is_quiz => told[Of(r)].vote = NoVote
        /\ request[r].kind = "retract" => poll_votes[Of(r)] = NoVote
        /\ request[r].kind = "close" => poll_votes[Of(r)] = told[Of(r)].vote

\* "Quiz answers cannot be changed": past the look there is no vote.
QuizUnanswered ==
    \A r \in Requests :
        (request[r].state = "checked" /\ request[r].kind = "vote" /\ is_quiz /\ Of(r) \notin overlapped)
          => poll_votes[Of(r)] = NoVote

ReactionHolds ==
    \A u \in Users \ overlapped :
        (\A r \in Requests : Of(r) = u /\ Toggles(r) => ~Wrote(r))
          => (u \in reactions <=> told[u].added)

ReactionRead ==
    \A r \in Requests : (Toggles(r) /\ Of(r) \notin overlapped) =>
        /\ request[r].state = "checked" => (request[r].read <=> Of(r) \in reactions)
        /\ Wrote(r) => (request[r].read <=> Of(r) \notin reactions)

\* A request has a kind as soon as it writes, and only a poll has voters to count.
KindKnown == \A r \in Requests :
    /\ (Wrote(r) \/ request[r].state = "checked") => request[r].kind # "none"
    /\ request[r].state = "totalled" => ~Toggles(r)
    /\ request[r].state = "found" => request[r].kind = "vote"

VInv ==
    /\ Typed /\ KindKnown /\ OneWriter
    /\ VoteHolds /\ VoteWritten /\ QuizUnanswered
    /\ ReactionHolds /\ ReactionRead

-------------------------------------------------------------------------------
\* What a count is written to is a request again.
LEMMA CountedIsRequest ==
    ASSUME NEW q \in Request, NEW state \in States, NEW total \in Nat
    PROVE  [q EXCEPT !.state = state, !.total = total] \in Request
BY DEF Request

LEMMA TallyType ==
    ASSUME UsersFinite, NEW votes PROVE Tally(votes) \in [Options -> Nat] /\ Voters(votes) \in Nat
<1>1. \A S \in SUBSET Users : Cardinality(S) \in Nat
  BY FS_Subset, FS_CardinalityType DEF UsersFinite
<1>. QED
  BY <1>1 DEF Tally, Voters

LEMMA NoRequestType ==
    ASSUME UsersFinite
    PROVE  /\ NoRequest \in Request /\ NoRequest.state = "idle" /\ NoRequest.kind = "none"
           /\ [NoRequest EXCEPT !.state = "done"] \in Request
           /\ [NoRequest EXCEPT !.state = "done"].state = "done"
BY TallyType DEF NoRequest, Request, States, UsersFinite

\* Nobody has voted or reacted.
LEMMA VotesInit == UsersFinite /\ Init => VInv
<1> SUFFICES ASSUME UsersFinite, Init PROVE VInv
  OBVIOUS
<1>1. Typed
  BY NoRequestType DEF Init, Typed
<1>2. \A r \in Requests : request[r].state = "idle" /\ request[r].kind = "none"
  BY NoRequestType DEF Init
<1>3. \A u \in Users : poll_votes[u] = NoVote /\ told[u].vote = NoVote /\ ~told[u].added
                       /\ u \notin reactions
  BY DEF Init
<1>. QED
  BY <1>1, <1>2, <1>3 DEF VInv, KindKnown, OneWriter, VoteHolds, VoteWritten, QuizUnanswered,
     ReactionHolds, ReactionRead, Wrote, Toggles, Of

\* What the invariant reads of a request.
Shows(q, p) == /\ q.kind = p.kind /\ q.user = p.user /\ q.option = p.option /\ q.read = p.read

Rest == <<is_quiz, is_closed, poll_votes, reactions, told, overlapped>>

\* A step that moves one request, without a write and without an answer: to another state
\* between write and answer, or from none to its beginning or its end.
LEMMA Moves ==
    ASSUME VInv, NEW r \in Requests, request' \in [Requests -> Request],
           UNCHANGED Rest,
           \A s \in Requests \ {r} : Shows(request'[s], request[s])
                                     /\ request'[s].state = request[s].state,
           \/ /\ Wrote(r) /\ Wrote(r)' /\ Shows(request'[r], request[r])
              /\ request'[r].state = "totalled" => ~Toggles(r)
           \/ /\ ~Wrote(r) /\ ~Wrote(r)' /\ request'[r].state # "checked"
              /\ request'[r].state = "found" => request'[r].kind = "vote"
           \/ /\ ~Wrote(r) /\ request'[r].state = "checked" /\ request'[r].kind # "none"
              /\ (request'[r].kind = "vote" /\ is_quiz) => poll_votes[request'[r].user] = NoVote
              /\ request'[r].kind = "toggle"
                   => (request'[r].read <=> request'[r].user \in reactions)
    PROVE  VInv'
<1>1. Typed'
  BY DEF VInv, Typed, Rest
<1>2. \A s \in Requests :
        \/ /\ Wrote(s)' /\ Wrote(s) /\ Shows(request'[s], request[s])
        \/ ~Wrote(s)' /\ ~Wrote(s)
  BY DEF Wrote
<1>3. \A s \in Requests : request'[s].state = "checked" =>
        \/ request[s].state = "checked" /\ Shows(request'[s], request[s])
        \/ /\ request'[s].kind # "none"
           /\ (request'[s].kind = "vote" /\ is_quiz) => poll_votes[request'[s].user] = NoVote
           /\ request'[s].kind = "toggle"
                => (request'[s].read <=> request'[s].user \in reactions)
  BY DEF Wrote
<1>4. KindKnown'
  BY <1>2, <1>3 DEF VInv, KindKnown, Shows, Toggles, Wrote
<1>5. OneWriter'
  BY <1>2 DEF VInv, OneWriter, Shows, Rest, Of, Toggles
<1>6. VoteHolds' /\ ReactionHolds'
  BY <1>2 DEF VInv, VoteHolds, ReactionHolds, Shows, Rest, Of, Toggles
<1>7. VoteWritten'
  BY <1>2 DEF VInv, VoteWritten, Shows, Rest, Of
<1>8. QuizUnanswered'
  BY <1>3 DEF VInv, QuizUnanswered, Shows, Rest, Of
<1>9. ReactionRead'
  BY <1>2, <1>3 DEF VInv, ReactionRead, Shows, Rest, Of, Toggles
<1>. QED
  BY <1>1, <1>4, <1>5, <1>6, <1>7, <1>8, <1>9 DEF VInv
\* A request writes (WritePoll, Toggle): whoever has company in it is recorded.
LEMMA OverlapMoves ==
    ASSUME Typed, NEW r \in Requests, Overlap(r)
    PROVE  /\ overlapped \subseteq overlapped' /\ overlapped' \subseteq overlapped \cup {Of(r)}
           /\ \A s \in Requests \ {r} :
                (UnderWay(s) /\ Of(s) = Of(r) /\ (Toggles(s) <=> Toggles(r))) => Of(r) \in overlapped'
BY DEF Typed, Overlap, Others, Of, Toggles, Request

LEMMA WritePollKeeps == ASSUME VInv, NEW r \in Requests, WritePoll(r) PROVE VInv'
<1> DEFINE q == request[r]
<1>1. /\ q.state = "checked" /\ q.kind # "toggle" /\ q.kind # "none" /\ q \in Request /\ q.user \in Users
      /\ UNCHANGED <<is_quiz, reactions, told>>
  BY DEF WritePoll, VInv, Typed, KindKnown, Request
<1>2. /\ overlapped \subseteq overlapped' /\ overlapped' \subseteq overlapped \cup {Of(r)}
      /\ \A s \in Requests \ {r} :
            (UnderWay(s) /\ Of(s) = Of(r) /\ ~Toggles(s)) => Of(r) \in overlapped'
  BY <1>1, OverlapMoves DEF WritePoll, VInv, Toggles
<1>3. request' = [request EXCEPT ![r] = [q EXCEPT !.state = "written",
                                                  !.read = q.read \/ q.kind = "close"]]
  BY DEF WritePoll, VInv, Typed, Request
<1>4. /\ request' \in [Requests -> Request]
      /\ request'[r].state = "written" /\ request'[r].kind = q.kind
      /\ request'[r].user = q.user /\ request'[r].option = q.option
      /\ \A s \in Requests \ {r} : request'[s] = request[s]
  <2>1. (q.read \/ q.kind = "close") \in BOOLEAN
    OBVIOUS
  <2>. QED
    BY <1>1, <1>3, <2>1 DEF VInv, Typed, Request, States
<1>5. /\ poll_votes' \in [Users -> Options \cup {NoVote}]
      /\ \A u \in Users \ {q.user} : poll_votes'[u] = poll_votes[u]
      /\ q.kind = "vote" => poll_votes'[q.user] = q.option
      /\ q.kind = "retract" => poll_votes'[q.user] = NoVote
      /\ q.kind = "close" => poll_votes'[q.user] = poll_votes[q.user]
  <2>1. q.kind \in {"vote", "retract", "close"} /\ q.option \in Options \cup {NoVote}
    BY <1>1 DEF Request
  <2>2. CASE q.kind = "vote"
    BY <2>1, <2>2, <1>1 DEF WritePoll, VInv, Typed
  <2>3. CASE q.kind = "retract"
    BY <2>1, <2>3, <1>1 DEF WritePoll, VInv, Typed
  <2>4. CASE q.kind = "close"
    BY <2>1, <2>4, <1>1 DEF WritePoll, VInv, Typed
  <2>. QED
    BY <2>1, <2>2, <2>3, <2>4
<1>6. Typed'
  <2>1. is_closed' \in BOOLEAN
    BY DEF WritePoll, VInv, Typed
  <2>. QED
    BY <2>1, <1>1, <1>2, <1>4, <1>5 DEF VInv, Typed, Of
<1>7. ASSUME q.user \notin overlapped'
      PROVE  /\ \A s \in Requests \ {r} : UnderWay(s) /\ Of(s) = q.user => Toggles(s)
             /\ poll_votes[q.user] = told[q.user].vote
             /\ (q.kind = "vote" /\ is_quiz) => poll_votes[q.user] = NoVote
  <2>1. \A s \in Requests \ {r} : UnderWay(s) /\ Of(s) = q.user => Toggles(s)
    BY <1>2, <1>7 DEF Of
  <2>2. \A s \in Requests : Of(s) = q.user /\ ~Toggles(s) => ~Wrote(s)
    BY <1>1, <2>1 DEF Wrote, UnderWay
  <2>. QED
    BY <1>1, <1>2, <1>7, <2>1, <2>2 DEF VInv, VoteHolds, QuizUnanswered, Of
<1> HIDE DEF q
<1>8. KindKnown'
  BY <1>1, <1>4 DEF VInv, KindKnown, Wrote, Toggles
<1>9. \A s \in Requests \ {r} : /\ Wrote(s)' <=> Wrote(s)
                                /\ Of(s)' = Of(s) /\ (Toggles(s)' <=> Toggles(s))
                                /\ Wrote(s) \/ request[s].state = "checked" => UnderWay(s)
  BY <1>4 DEF Wrote, Of, Toggles, UnderWay
<1>10. Of(r)' = q.user /\ ~Toggles(r)' /\ Wrote(r)' /\ Of(r) = q.user /\ ~Toggles(r) /\ ~Wrote(r)
  BY <1>1, <1>4 DEF Of, Toggles, Wrote, q
<1>11. OneWriter'
  <2> SUFFICES ASSUME NEW s \in Requests, NEW t \in Requests, s # t, Wrote(s)', Wrote(t)',
                      Of(s)' = Of(t)', Toggles(s)' <=> Toggles(t)', Of(s)' \notin overlapped'
               PROVE  FALSE
    BY DEF OneWriter
  <2>1. CASE s # r /\ t # r
    BY <2>1, <1>2, <1>9 DEF VInv, OneWriter
  <2>2. CASE s = r
    BY <2>2, <1>7, <1>9, <1>10
  <2>3. CASE t = r
    BY <2>3, <1>7, <1>9, <1>10
  <2>. QED
    BY <2>1, <2>2, <2>3
<1>12. VoteHolds'
  BY <1>1, <1>2, <1>5, <1>9, <1>10 DEF VInv, VoteHolds
<1>13. VoteWritten'
  <2> SUFFICES ASSUME NEW s \in Requests, Wrote(s)', Of(s)' \notin overlapped'
               PROVE  /\ request'[s].kind = "vote" => /\ poll_votes'[Of(s)'] = request'[s].option
                                                      /\ is_quiz => told[Of(s)'].vote = NoVote
                      /\ request'[s].kind = "retract" => poll_votes'[Of(s)'] = NoVote
                      /\ request'[s].kind = "close" => poll_votes'[Of(s)'] = told[Of(s)'].vote
    BY <1>1 DEF VoteWritten
  <2>1. CASE s = r
    BY <2>1, <1>1, <1>4, <1>5, <1>7, <1>10
  <2>2. CASE s # r /\ Of(s) # q.user
    BY <2>2, <1>2, <1>4, <1>5, <1>9 DEF VInv, Typed, VoteWritten, Of, Request
  <2>3. CASE s # r /\ Of(s) = q.user
    BY <2>3, <1>4, <1>7, <1>9 DEF Toggles
  <2>. QED
    BY <2>1, <2>2, <2>3
<1>14. QuizUnanswered'
  <2> SUFFICES ASSUME NEW s \in Requests, request'[s].state = "checked", request'[s].kind = "vote",
                      is_quiz, Of(s)' \notin overlapped'
               PROVE  poll_votes'[Of(s)'] = NoVote
    BY <1>1 DEF QuizUnanswered
  <2>1. s # r
    BY <1>4
  <2>2. Of(s) # q.user
    BY <2>1, <1>4, <1>7, <1>9 DEF Toggles
  <2>. QED
    BY <2>1, <2>2, <1>2, <1>4, <1>5, <1>9 DEF VInv, Typed, QuizUnanswered, Of, Request
<1>15. ReactionHolds'
  BY <1>1, <1>2, <1>9, <1>10 DEF VInv, ReactionHolds
<1>16. ReactionRead'
  BY <1>1, <1>2, <1>4, <1>9, <1>10 DEF VInv, ReactionRead
<1>. QED
  BY <1>6, <1>8, <1>11, <1>12, <1>13, <1>14, <1>15, <1>16 DEF VInv
LEMMA ToggleKeeps == ASSUME VInv, NEW r \in Requests, Toggle(r) PROVE VInv'
<1> DEFINE q == request[r]
<1>1. /\ q.state = "checked" /\ q.kind = "toggle" /\ q \in Request /\ q.user \in Users
      /\ UNCHANGED <<is_quiz, is_closed, poll_votes, told>>
  BY DEF Toggle, VInv, Typed, Request
<1>2. /\ overlapped \subseteq overlapped' /\ overlapped' \subseteq overlapped \cup {Of(r)}
      /\ \A s \in Requests \ {r} :
            (UnderWay(s) /\ Of(s) = Of(r) /\ Toggles(s)) => Of(r) \in overlapped'
  BY <1>1, OverlapMoves DEF Toggle, VInv, Toggles
<1>3. request' = [request EXCEPT ![r] = [q EXCEPT !.state = "written"]]
  BY DEF Toggle, VInv, Typed, Request
<1>4. /\ request' \in [Requests -> Request]
      /\ request'[r].state = "written" /\ request'[r].kind = q.kind
      /\ request'[r].user = q.user /\ request'[r].read = q.read
      /\ \A s \in Requests \ {r} : request'[s] = request[s]
  BY <1>1, <1>3 DEF VInv, Typed, Request, States
<1>5. /\ reactions' \subseteq Users
      /\ \A u \in Users \ {q.user} : u \in reactions' <=> u \in reactions
      /\ q.read <=> q.user \notin reactions'
  <2>1. reactions' = IF q.read THEN reactions \ {q.user} ELSE reactions \cup {q.user}
    BY DEF Toggle
  <2>2. q.read \in BOOLEAN
    BY <1>1 DEF Request
  <2>. QED
    BY <2>1, <2>2, <1>1 DEF VInv, Typed
<1>6. Typed'
  BY <1>1, <1>2, <1>4, <1>5 DEF VInv, Typed, Of
<1>7. ASSUME q.user \notin overlapped'
      PROVE  \A s \in Requests \ {r} : UnderWay(s) /\ Of(s) = q.user => ~Toggles(s)
  BY <1>2, <1>7 DEF Of
<1> HIDE DEF q
<1>8. KindKnown'
  BY <1>1, <1>4 DEF VInv, KindKnown, Wrote, Toggles
<1>9. \A s \in Requests \ {r} : /\ Wrote(s)' <=> Wrote(s)
                                /\ Of(s)' = Of(s) /\ (Toggles(s)' <=> Toggles(s))
                                /\ Wrote(s) \/ request[s].state = "checked" => UnderWay(s)
  BY <1>4 DEF Wrote, Of, Toggles, UnderWay
<1>10. Of(r)' = q.user /\ Toggles(r)' /\ Wrote(r)' /\ Of(r) = q.user /\ Toggles(r) /\ ~Wrote(r)
  BY <1>1, <1>4 DEF Of, Toggles, Wrote, q
<1>11. OneWriter'
  <2> SUFFICES ASSUME NEW s \in Requests, NEW t \in Requests, s # t, Wrote(s)', Wrote(t)',
                      Of(s)' = Of(t)', Toggles(s)' <=> Toggles(t)', Of(s)' \notin overlapped'
               PROVE  FALSE
    BY DEF OneWriter
  <2>1. CASE s # r /\ t # r
    BY <2>1, <1>2, <1>9 DEF VInv, OneWriter
  <2>2. CASE s = r
    BY <2>2, <1>7, <1>9, <1>10
  <2>3. CASE t = r
    BY <2>3, <1>7, <1>9, <1>10
  <2>. QED
    BY <2>1, <2>2, <2>3
<1>12. VoteHolds'
  BY <1>1, <1>2, <1>9, <1>10 DEF VInv, VoteHolds
<1>13. VoteWritten' /\ QuizUnanswered'
  BY <1>1, <1>2, <1>4, <1>9, <1>10 DEF VInv, VoteWritten, QuizUnanswered
<1>14. ReactionHolds'
  BY <1>1, <1>2, <1>5, <1>9, <1>10 DEF VInv, ReactionHolds
<1>15. ReactionRead'
  <2> SUFFICES ASSUME NEW s \in Requests, Toggles(s)', Of(s)' \notin overlapped'
               PROVE  /\ request'[s].state = "checked" => (request'[s].read <=> Of(s)' \in reactions')
                      /\ Wrote(s)' => (request'[s].read <=> Of(s)' \notin reactions')
    BY DEF ReactionRead
  <2>1. CASE s = r
    BY <2>1, <1>4, <1>5, <1>10
  <2>2. CASE s # r /\ Of(s) # q.user
    BY <2>2, <1>2, <1>4, <1>5, <1>9 DEF VInv, Typed, ReactionRead, Of, Request
  <2>3. CASE s # r /\ Of(s) = q.user
    BY <2>3, <1>4, <1>7, <1>9
  <2>. QED
    BY <2>1, <2>2, <2>3
<1>. QED
  BY <1>6, <1>8, <1>11, <1>12, <1>13, <1>14, <1>15 DEF VInv

\* An answer (PublishPoll, AnswerRetraction, PublishReaction) tells what the request has written.
LEMMA AnswerKeeps ==
    ASSUME VInv, UsersFinite, NEW r \in Requests, Wrote(r), Finish(r),
           UNCHANGED <<is_quiz, is_closed, poll_votes, reactions, overlapped>>,
           NEW vote \in Options \cup {NoVote}, NEW added \in BOOLEAN,
           told' = [told EXCEPT ![Of(r)] = [vote |-> vote, added |-> added]],
           IF Toggles(r) THEN vote = told[Of(r)].vote ELSE added = told[Of(r)].added,
           Of(r) \notin overlapped =>
              IF Toggles(r) THEN added <=> Of(r) \in reactions ELSE vote = poll_votes[Of(r)]
    PROVE  VInv'
<1>1. Of(r) \in Users
  BY DEF VInv, Typed, Request, Of
<1>2. /\ request' \in [Requests -> Request] /\ request'[r].state = "done"
      /\ \A s \in Requests \ {r} : request'[s] = request[s]
  BY NoRequestType DEF VInv, Typed, Finish
<1>3. Typed'
  BY <1>2 DEF VInv, Typed
<1>4. /\ told'[Of(r)].vote = vote /\ told'[Of(r)].added = added
      /\ \A u \in Users \ {Of(r)} : told'[u] = told[u]
  BY <1>1 DEF VInv, Typed
<1>5. /\ ~Wrote(r)' /\ request'[r].state # "checked"
      /\ \A s \in Requests \ {r} : /\ Wrote(s)' <=> Wrote(s)
                                   /\ Of(s)' = Of(s) /\ (Toggles(s)' <=> Toggles(s))
  BY <1>2 DEF Wrote, Of, Toggles
<1>6. \A s \in Requests \ {r} :
        (Wrote(s) /\ Of(s) = Of(r) /\ (Toggles(s) <=> Toggles(r))) => Of(r) \in overlapped
  BY DEF VInv, OneWriter
<1>7. KindKnown' /\ OneWriter'
  BY <1>2, <1>5 DEF VInv, KindKnown, OneWriter
<1>8. VoteHolds'
  <2> SUFFICES ASSUME NEW u \in Users \ overlapped,
                      \A s \in Requests : Of(s)' = u /\ ~Toggles(s)' => ~Wrote(s)'
               PROVE  poll_votes[u] = told'[u].vote
    BY DEF VoteHolds
  <2>1. CASE u = Of(r) /\ ~Toggles(r)
    BY <2>1, <1>4
  <2>2. CASE u = Of(r) /\ Toggles(r)
    BY <2>2, <1>4, <1>5 DEF VInv, VoteHolds
  <2>3. CASE u # Of(r)
    BY <2>3, <1>4, <1>5 DEF VInv, VoteHolds
  <2>. QED
    BY <2>1, <2>2, <2>3
<1>9. ReactionHolds'
  <2> SUFFICES ASSUME NEW u \in Users \ overlapped,
                      \A s \in Requests : Of(s)' = u /\ Toggles(s)' => ~Wrote(s)'
               PROVE  u \in reactions <=> told'[u].added
    BY DEF ReactionHolds
  <2>1. CASE u = Of(r) /\ Toggles(r)
    BY <2>1, <1>4
  <2>2. CASE u = Of(r) /\ ~Toggles(r)
    BY <2>2, <1>4, <1>5 DEF VInv, ReactionHolds
  <2>3. CASE u # Of(r)
    BY <2>3, <1>4, <1>5 DEF VInv, ReactionHolds
  <2>. QED
    BY <2>1, <2>2, <2>3
<1>10. VoteWritten'
  <2> SUFFICES ASSUME NEW s \in Requests, Wrote(s)', Of(s)' \notin overlapped
               PROVE  /\ request'[s].kind = "vote" => /\ poll_votes[Of(s)'] = request'[s].option
                                                      /\ is_quiz => told'[Of(s)'].vote = NoVote
                      /\ request'[s].kind = "retract" => poll_votes[Of(s)'] = NoVote
                      /\ request'[s].kind = "close" => poll_votes[Of(s)'] = told'[Of(s)'].vote
    BY DEF VoteWritten
  <2>1. s # r /\ request'[s] = request[s] /\ Of(s)' = Of(s) /\ Wrote(s) /\ Of(s) \in Users
    BY <1>2, <1>5 DEF VInv, Typed, Request, Of
  <2>2. CASE Of(s) # Of(r)
    BY <2>1, <2>2, <1>4 DEF VInv, VoteWritten
  <2>3. CASE Of(s) = Of(r) /\ Toggles(s)
    BY <2>1, <2>3 DEF Toggles
  <2>4. CASE Of(s) = Of(r) /\ ~Toggles(s)
    <3>1. Toggles(r)
      BY <2>1, <2>4, <1>6
    <3>. QED
      BY <2>1, <2>4, <3>1, <1>4 DEF VInv, VoteWritten
  <2>. QED
    BY <2>2, <2>3, <2>4
<1>11. QuizUnanswered' /\ ReactionRead'
  BY <1>2, <1>5 DEF VInv, QuizUnanswered, ReactionRead
<1>. QED
  BY <1>3, <1>7, <1>8, <1>9, <1>10, <1>11 DEF VInv

\* A request that stops after its write excuses its user.
LEMMA StopKeeps == ASSUME VInv, UsersFinite, NEW r \in Requests, Stop(r) PROVE VInv'
<1>1. /\ request' \in [Requests -> Request] /\ request'[r].state = "done"
      /\ \A s \in Requests \ {r} : request'[s] = request[s]
  BY NoRequestType DEF VInv, Typed, Finish, Stop
<1>2. UNCHANGED <<is_quiz, is_closed, poll_votes, reactions, told>>
  BY DEF Stop, rows
<1>3. CASE ~Wrote(r)
  <2>1. UNCHANGED overlapped
    BY <1>3 DEF Stop, UnderWay, Wrote, VInv, Typed, Request, States
  <2>. QED
    BY <2>1, <1>1, <1>2, <1>3, Moves DEF Rest, Shows, Wrote
<1>4. CASE Wrote(r)
  <2>1. overlapped' = overlapped \cup {Of(r)} /\ Of(r) \in Users
    BY <1>4 DEF Stop, Wrote, Of, VInv, Typed, Request
  <2>2. Typed'
    BY <2>1, <1>1, <1>2 DEF VInv, Typed
  <2>3. /\ ~Wrote(r)' /\ request'[r].state # "checked"
        /\ \A s \in Requests \ {r} : /\ Wrote(s)' <=> Wrote(s)
                                     /\ Of(s)' = Of(s) /\ (Toggles(s)' <=> Toggles(s))
    BY <1>1 DEF Wrote, Of, Toggles
  <2>4. KindKnown' /\ OneWriter'
    BY <2>1, <2>3, <1>1 DEF VInv, KindKnown, OneWriter
  <2>5. VoteHolds' /\ ReactionHolds'
    BY <2>1, <2>3, <1>2 DEF VInv, VoteHolds, ReactionHolds
  <2>6. VoteWritten'
    BY <2>1, <2>3, <1>1, <1>2 DEF VInv, VoteWritten
  <2>7. QuizUnanswered' /\ ReactionRead'
    BY <2>1, <2>3, <1>1, <1>2 DEF VInv, QuizUnanswered, ReactionRead
  <2>. QED
    BY <2>2, <2>4, <2>5, <2>6, <2>7 DEF VInv
<1>. QED
  BY <1>3, <1>4
-------------------------------------------------------------------------------
(* One step per action.                                                    *)

LEMMA AloneCleared ==
    ASSUME NEW q \in Request
    PROVE  /\ [q EXCEPT !.alone = FALSE] \in Request
           /\ Shows([q EXCEPT !.alone = FALSE], q)
           /\ [q EXCEPT !.alone = FALSE].state = q.state
<1>1. [q EXCEPT !.alone = FALSE] \in Request
  BY DEF Request
<1>2. /\ [q EXCEPT !.alone = FALSE].kind = q.kind /\ [q EXCEPT !.alone = FALSE].user = q.user
      /\ [q EXCEPT !.alone = FALSE].option = q.option
      /\ [q EXCEPT !.alone = FALSE].state = q.state
  BY DEF Request
<1>3. [q EXCEPT !.alone = FALSE].read = q.read
  BY DEF Request
<1>. QED
  BY <1>1, <1>2, <1>3 DEF Shows

\* findPoll, and the look for a reaction.
LEMMA BeginMoves ==
    ASSUME VInv, UsersFinite, NEW r \in Requests, NEW kind \in {"vote", "retract", "close", "toggle"},
           NEW user \in Users, NEW option \in Options \cup {NoVote}, NEW state \in {"found", "checked"},
           NEW read \in BOOLEAN, Begin(r, kind, user, option, state, read)
    PROVE  /\ request' \in [Requests -> Request]
           /\ request'[r].kind = kind /\ request'[r].state = state /\ request'[r].user = user
           /\ request'[r].read = read
           /\ \A s \in Requests \ {r} : Shows(request'[s], request[s])
                                        /\ request'[s].state = request[s].state
<1> DEFINE lone == Others(r) = {}
           new  == [NoRequest EXCEPT !.kind = kind, !.state = state, !.user = user,
                                     !.option = option, !.read = read, !.alone = lone]
<1>1. lone \in BOOLEAN
  OBVIOUS
<1> HIDE DEF lone
<1>2. new \in Request /\ new.kind = kind /\ new.state = state /\ new.user = user /\ new.read = read
  BY ZenonT(60), <1>1, NoRequestType DEF Request, States
<1>3. request' = [s \in Requests |-> IF s = r THEN new ELSE [request[s] EXCEPT !.alone = FALSE]]
  BY DEF Begin, lone
<1> HIDE DEF new
<1>4. \A s \in Requests \ {r} : /\ request'[s] \in Request
                                /\ Shows(request'[s], request[s])
                                /\ request'[s].state = request[s].state
  BY <1>3, AloneCleared DEF VInv, Typed
<1>5. request'[r] = new
  BY <1>3
<1>6. request' \in [Requests -> Request]
  <2>1. \A s \in Requests : request'[s] \in Request
    BY <1>2, <1>4, <1>5
  <2>. QED
    BY <2>1, <1>3
<1>7. request'[r].kind = kind /\ request'[r].state = state /\ request'[r].user = user
  BY <1>2, <1>5
<1>8. request'[r].read = read
  BY <1>2, <1>5
<1>. QED
  BY <1>4, <1>6, <1>7, <1>8

LEMMA VotesStep == UsersFinite /\ VInv /\ [Next]_vars => VInv'
<1> SUFFICES ASSUME UsersFinite, VInv, [Next]_vars PROVE VInv'
  OBVIOUS
<1>1. CASE Due
  BY <1>1 DEF Due, VInv, Typed, KindKnown, OneWriter, VoteHolds, VoteWritten, QuizUnanswered,
     ReactionHolds, ReactionRead, Wrote, Toggles, Of
<1>2. ASSUME NEW r \in Requests, Find(r) PROVE VInv'
  <2>1. PICK kind \in {"vote", "retract", "close"}, u \in Users, o \in Options \cup {NoVote},
             state \in {"found", "checked"} :
          /\ Begin(r, kind, u, o, state, is_closed)
          /\ kind = "vote" /\ is_quiz => state = "found"
          /\ state = "found" => kind = "vote"
    BY <1>2 DEF Find
  <2>2. UNCHANGED Rest /\ request[r].state = "idle" /\ is_closed \in BOOLEAN
    BY <1>2 DEF Find, rows, Rest, VInv, Typed
  <2>3. /\ request' \in [Requests -> Request]
        /\ request'[r].kind = kind /\ request'[r].state = state
        /\ \A s \in Requests \ {r} : Shows(request'[s], request[s])
                                     /\ request'[s].state = request[s].state
    BY <2>1, <2>2, BeginMoves
  <2>. QED
    BY <2>1, <2>2, <2>3, Moves DEF Wrote
<1>3. ASSUME NEW r \in Requests, LookForReaction(r) PROVE VInv'
  <2>1. PICK u \in Users, read \in BOOLEAN : /\ read <=> u \in reactions
                                           /\ Begin(r, "toggle", u, NoVote, "checked", read)
    <3>1. PICK u \in Users : Begin(r, "toggle", u, NoVote, "checked", u \in reactions)
      BY <1>3 DEF LookForReaction
    <3>2. CASE u \in reactions
      <4>1. (u \in reactions) = TRUE
        BY <3>2
      <4>2. Begin(r, "toggle", u, NoVote, "checked", TRUE)
        BY <3>1, <4>1, Zenon
      <4>. QED
        BY <4>2, <3>2
    <3>3. CASE u \notin reactions
      <4>1. (u \in reactions) = FALSE
        BY <3>3
      <4>2. Begin(r, "toggle", u, NoVote, "checked", FALSE)
        BY <3>1, <4>1, Zenon
      <4>. QED
        BY <4>2, <3>3
    <3>. QED
      BY <3>2, <3>3
  <2>2. UNCHANGED Rest /\ request[r].state = "idle"
    BY <1>3 DEF LookForReaction, rows, Rest
  <2>3. /\ request' \in [Requests -> Request]
        /\ request'[r].kind = "toggle" /\ request'[r].state = "checked" /\ request'[r].user = u
        /\ request'[r].read = read
        /\ \A s \in Requests \ {r} : Shows(request'[s], request[s])
                                     /\ request'[s].state = request[s].state
    BY <2>1, <2>2, BeginMoves
  <2>. QED
    BY <2>1, <2>2, <2>3, Moves DEF Wrote
<1>4. ASSUME NEW r \in Requests, LookForAnswer(r) PROVE VInv'
  <2>1. UNCHANGED Rest /\ request[r].state = "found"
    BY <1>4 DEF LookForAnswer, rows, Rest
  <2>2. CASE Finish(r)
    <3>1. /\ request' \in [Requests -> Request] /\ request'[r].state = "done"
          /\ \A s \in Requests \ {r} : request'[s] = request[s]
      BY <2>2, NoRequestType DEF VInv, Typed, Finish
    <3>. QED
      BY <3>1, <2>1, Moves DEF Wrote, Shows
  <2>3. CASE poll_votes[request[r].user] = NoVote /\ request' = [request EXCEPT ![r].state = "checked"]
    <3>1. /\ request' \in [Requests -> Request] /\ request'[r].state = "checked"
          /\ Shows(request'[r], request[r])
          /\ \A s \in Requests \ {r} : request'[s] = request[s]
      <4>1. request' = [request EXCEPT ![r] = [request[r] EXCEPT !.state = "checked"]]
        BY <2>3 DEF VInv, Typed, Request
      <4>2. [request[r] EXCEPT !.state = "checked"] \in Request
        BY SMTT(30) DEF VInv, Typed, Request, States
      <4>. QED
        BY <4>1, <4>2 DEF VInv, Typed, Request, Shows
    <3>2. request[r].kind = "vote"
      BY <2>1 DEF VInv, KindKnown
    <3>. QED
      BY <3>1, <3>2, <2>1, <2>3, Moves DEF Wrote, Shows
  <2>. QED
    BY <2>2, <2>3, <1>4 DEF LookForAnswer
<1>5. ASSUME NEW r \in Requests, Count(r) \/ CountVoters(r) \/ CountReactions(r) PROVE VInv'
  <2>1. UNCHANGED Rest
    BY <1>5 DEF Count, CountVoters, CountReactions, rows, Rest
  <2>2. /\ request' \in [Requests -> Request] /\ Shows(request'[r], request[r])
        /\ Wrote(r) /\ request'[r].state \in {"counted", "totalled"}
        /\ request'[r].state = "totalled" => ~Toggles(r)
        /\ \A s \in Requests \ {r} : request'[s] = request[s]
    <3>1. CASE Count(r)
      <4>1. request' = [request EXCEPT ![r] = [request[r] EXCEPT !.state = "counted", !.counts = Tally(poll_votes)]]
        BY <3>1 DEF Count, VInv, Typed, Request
      <4>2. [request[r] EXCEPT !.state = "counted", !.counts = Tally(poll_votes)] \in Request
        BY ZenonT(60), TallyType DEF VInv, Typed, Request, States
      <4>3. Wrote(r) /\ ~Toggles(r)
        BY <3>1 DEF Count, Wrote, Toggles
      <4>. QED
        BY <4>1, <4>2, <4>3 DEF VInv, Typed, Request, Shows
    <3>2. CASE CountVoters(r)
      <4>1. request' = [request EXCEPT ![r] = [request[r] EXCEPT !.state = "totalled", !.total = Voters(poll_votes)]]
        BY <3>2 DEF CountVoters, VInv, Typed, Request
      <4>2. [request[r] EXCEPT !.state = "totalled", !.total = Voters(poll_votes)] \in Request
        <5>1. request[r] \in Request /\ "totalled" \in States
          BY DEF VInv, Typed, States
        <5>. QED
          BY <5>1, TallyType, CountedIsRequest
      <4>3. Wrote(r) /\ ~Toggles(r)
        BY <3>2 DEF CountVoters, Wrote, Toggles
      <4>. QED
        BY <4>1, <4>2, <4>3 DEF VInv, Typed, Request, Shows
    <3>3. CASE CountReactions(r)
      <4>0. Cardinality(reactions) \in Nat
        BY FS_Subset, FS_CardinalityType DEF UsersFinite, VInv, Typed
      <4>1. request' = [request EXCEPT ![r] = [request[r] EXCEPT !.state = "counted", !.total = Cardinality(reactions)]]
        BY <3>3 DEF CountReactions, VInv, Typed, Request
      <4>2. [request[r] EXCEPT !.state = "counted", !.total = Cardinality(reactions)] \in Request
        BY ZenonT(60), <4>0 DEF VInv, Typed, Request, States
      <4>3. Wrote(r)
        BY <3>3 DEF CountReactions, Wrote, Toggles
      <4>. QED
        BY <4>1, <4>2, <4>3 DEF VInv, Typed, Request, Shows
    <3>. QED
      BY <3>1, <3>2, <3>3, <1>5
  <2>. QED
    BY <2>1, <2>2, Moves DEF Wrote, Shows
<1>6. ASSUME NEW r \in Requests, PublishPoll(r) PROVE VInv'
  <2> DEFINE q   == request[r]
             new == IF q.kind = "vote" /\ ~(is_quiz /\ told[q.user].vote # NoVote)
                    THEN q.option ELSE told[q.user].vote
  <2>1. /\ Wrote(r) /\ ~Toggles(r) /\ Finish(r) /\ q.kind # "retract" /\ q.kind # "none"
        /\ UNCHANGED <<is_quiz, is_closed, poll_votes, reactions, overlapped>>
    BY <1>6 DEF PublishPoll, Wrote, VInv, KindKnown, rows
  <2>2. q.user \in Users /\ q.option \in Options \cup {NoVote} /\ q.kind \in {"vote", "close"}
    BY <2>1 DEF VInv, Typed, Request, Toggles
  <2>3. told[q.user] = [vote |-> told[q.user].vote, added |-> told[q.user].added]
        /\ told[q.user].vote \in Options \cup {NoVote} /\ told[q.user].added \in BOOLEAN
    BY <2>2 DEF VInv, Typed
  <2>4. told' = [told EXCEPT ![Of(r)] = [vote |-> new, added |-> told[Of(r)].added]]
    <3>1. CASE q.kind = "vote" /\ ~(is_quiz /\ told[q.user].vote # NoVote)
      <4>1. told' = [told EXCEPT ![q.user].vote = q.option]
        BY <1>6, <3>1 DEF PublishPoll
      <4>. QED
        <5>1. new = q.option
          BY <3>1
        <5>2. PICK f \in [Users -> [vote : Options \cup {NoVote}, added : BOOLEAN]], u \in Users :
                 f = told /\ u = q.user
          BY <2>2 DEF VInv, Typed
        <5>3. PICK v, a, x : /\ f[u] = [vote |-> v, added |-> a]
                             /\ v = told[q.user].vote /\ a = told[q.user].added /\ x = q.option
          BY <5>2, <2>3
        <5>4. [f[u] EXCEPT !.vote = x] = [vote |-> x, added |-> a]
          BY <5>3
        <5>5. told' = [f EXCEPT ![u] = [f[u] EXCEPT !.vote = x]]
          BY <5>2, <5>3, <4>1
        <5>6. told' = [told EXCEPT ![q.user] = [vote |-> q.option, added |-> told[q.user].added]]
          BY <5>2, <5>3, <5>4, <5>5
        <5>. QED
          BY <5>1, <5>6 DEF Of
    <3>2. CASE ~(q.kind = "vote" /\ ~(is_quiz /\ told[q.user].vote # NoVote))
      <4>1. told' = told
        BY <1>6, <3>2 DEF PublishPoll
      <4>. QED
        BY <4>1, <3>2, <2>2, <2>3 DEF Of, VInv, Typed
    <3>. QED
      BY <3>1, <3>2
  <2>5. q.user \notin overlapped => new = poll_votes[q.user]
    BY <2>1, <2>2 DEF VInv, VoteWritten, Of
  <2>6. new \in Options \cup {NoVote}
    BY <2>2, <2>3
  <2> HIDE DEF new
  <2>. QED
    BY <2>1, <2>3, <2>4, <2>5, <2>6, AnswerKeeps DEF Of
<1>7. ASSUME NEW r \in Requests, AnswerRetraction(r) PROVE VInv'
  <2>1. /\ Wrote(r) /\ ~Toggles(r) /\ Finish(r) /\ request[r].kind = "retract" /\ Of(r) \in Users
        /\ UNCHANGED <<is_quiz, is_closed, poll_votes, reactions, overlapped>>
    BY <1>7 DEF AnswerRetraction, Wrote, Toggles, rows, VInv, Typed, Request, Of
  <2>2. told[Of(r)] = [vote |-> told[Of(r)].vote, added |-> told[Of(r)].added]
        /\ told[Of(r)].added \in BOOLEAN
    BY <2>1 DEF VInv, Typed
  <2>3. told' = [told EXCEPT ![Of(r)] = [vote |-> NoVote, added |-> told[Of(r)].added]]
    <3>1. told' = [told EXCEPT ![Of(r)].vote = NoVote]
      BY <1>7 DEF AnswerRetraction, Of
    <3>. QED
      <4>1. PICK f \in [Users -> [vote : Options \cup {NoVote}, added : BOOLEAN]], u \in Users :
               f = told /\ u = Of(r)
        BY <2>1 DEF VInv, Typed
      <4>2. PICK v, a : /\ f[u] = [vote |-> v, added |-> a]
                        /\ v = told[Of(r)].vote /\ a = told[Of(r)].added
        BY <4>1, <2>2
      <4>3. [f[u] EXCEPT !.vote = NoVote] = [vote |-> NoVote, added |-> a]
        BY <4>2
      <4>4. told' = [f EXCEPT ![u] = [f[u] EXCEPT !.vote = NoVote]]
        BY <4>1, <3>1
      <4>. QED
        BY <4>1, <4>2, <4>3, <4>4
  <2>4. Of(r) \notin overlapped => NoVote = poll_votes[Of(r)]
    BY <2>1 DEF VInv, VoteWritten
  <2>. QED
    BY <2>1, <2>2, <2>3, <2>4, AnswerKeeps
<1>8. ASSUME NEW r \in Requests, PublishReaction(r) PROVE VInv'
  <2>1. /\ Wrote(r) /\ Toggles(r) /\ Finish(r) /\ Of(r) \in Users /\ request[r].read \in BOOLEAN
        /\ UNCHANGED <<is_quiz, is_closed, poll_votes, reactions, overlapped>>
    BY <1>8 DEF PublishReaction, Wrote, Toggles, rows, VInv, Typed, Request, Of
  <2>2. told[Of(r)] = [vote |-> told[Of(r)].vote, added |-> told[Of(r)].added]
        /\ told[Of(r)].vote \in Options \cup {NoVote}
    BY <2>1 DEF VInv, Typed
  <2>3. PICK added \in BOOLEAN : added = ~request[r].read
    OBVIOUS
  <2>4. told' = [told EXCEPT ![Of(r)] = [vote |-> told[Of(r)].vote, added |-> added]]
    <3>1. told' = [told EXCEPT ![Of(r)].added = added]
      BY <1>8, <2>3 DEF PublishReaction, Of
    <3>. QED
      <4>1. PICK f \in [Users -> [vote : Options \cup {NoVote}, added : BOOLEAN]], u \in Users :
               f = told /\ u = Of(r)
        BY <2>1 DEF VInv, Typed
      <4>2. PICK v, a : /\ f[u] = [vote |-> v, added |-> a]
                        /\ v = told[Of(r)].vote /\ a = told[Of(r)].added
        BY <4>1, <2>2
      <4>3. [f[u] EXCEPT !.added = added] = [vote |-> v, added |-> added]
        BY <4>2
      <4>4. told' = [f EXCEPT ![u] = [f[u] EXCEPT !.added = added]]
        BY <4>1, <3>1
      <4>. QED
        BY <4>1, <4>2, <4>3, <4>4
  <2>5. Of(r) \notin overlapped => (added <=> Of(r) \in reactions)
    BY <2>1, <2>3 DEF VInv, ReactionRead
  <2>. QED
    BY <2>1, <2>2, <2>4, <2>5, AnswerKeeps
<1>9. CASE UNCHANGED vars
  BY <1>9
  DEF vars, rows, VInv, Typed, KindKnown, OneWriter, VoteHolds, VoteWritten, QuizUnanswered,
     ReactionHolds, ReactionRead, Wrote, Toggles, Of
<1>. QED
  BY <1>1, <1>2, <1>3, <1>4, <1>5, <1>6, <1>7, <1>8, <1>9, WritePollKeeps, ToggleKeeps, StopKeeps
  DEF Next

\* What a user was last told of a vote or of a reaction is what is stored, and a
\* quiz answer stays, unless two of the user's requests overlapped or one stopped
\* half-way (POST /polls/:id/vote, POST /reactions).
THEOREM AnswersAreStored ==
    ASSUME UsersFinite
    PROVE  Spec => []AnswersHold
<1>1. VInv => AnswersHold
  <2> SUFFICES ASSUME VInv, NEW u \in Users \ overlapped,
                      \A r \in Requests : UnderWay(r) => request[r].user # u
               PROVE  poll_votes[u] = told[u].vote /\ (u \in reactions) = told[u].added
    BY DEF AnswersHold
  <2>1. \A r \in Requests : Of(r) = u => ~Wrote(r)
    BY DEF UnderWay, Of, Wrote
  <2>2. told[u].added \in BOOLEAN
    BY DEF VInv, Typed
  <2>. QED
    BY <2>1, <2>2 DEF VInv, VoteHolds, ReactionHolds
<1>. QED
  BY <1>1, VotesInit, VotesStep, PTL DEF Spec

-------------------------------------------------------------------------------
(* What the others see: the latest event of the poll and of the reactions. *)

Announcement == [closed : BOOLEAN, counts : [Options -> Nat], total : Nat, reactions : Nat]

\* A request that has been alone since it began is the only one under way.
AloneIsAlone ==
    \A r, s \in Requests : (request[r].alone /\ UnderWay(r) /\ UnderWay(s)) => r = s

\* What a request has read and counted is what is stored.
Current(r) ==
    /\ ~Toggles(r) => (request[r].read <=> is_closed)
    /\ (~Toggles(r) /\ request[r].state \in {"counted", "totalled"})
         => request[r].counts = Tally(poll_votes)
    /\ request[r].state = "totalled" => request[r].total = Voters(poll_votes)
    /\ (Toggles(r) /\ request[r].state = "counted") => request[r].total = Cardinality(reactions)

AloneIsCurrent == \A r \in Requests : (request[r].alone /\ UnderWay(r)) => Current(r)

EInv == announced \in Announcement /\ AloneIsAlone /\ AloneIsCurrent /\ AnnouncedIsStored

LEMMA EventsInit == UsersFinite /\ Init => EInv
<1> SUFFICES ASSUME UsersFinite, Init PROVE EInv
  OBVIOUS
<1>1. /\ NoRequest.counts = Tally(poll_votes) /\ NoRequest.counts \in [Options -> Nat]
      /\ NoRequest.alone = FALSE
  BY TallyType DEF Init, NoRequest
<1>2. Voters(poll_votes) = 0 /\ Cardinality(reactions) = 0
  <2>1. {u \in Users : poll_votes[u] # NoVote} = {} /\ reactions = {}
    BY DEF Init
  <2>. QED
    BY <2>1, FS_EmptySet DEF Voters
<1>3. \A r \in Requests : request[r].alone = FALSE
  BY <1>1 DEF Init
<1>4. /\ announced = [closed |-> FALSE, counts |-> NoRequest.counts, total |-> 0, reactions |-> 0]
      /\ is_closed = FALSE
  BY DEF Init
<1>5. announced \in Announcement
  BY <1>1, <1>4 DEF Announcement
<1>6. AnnouncedIsStored
  BY <1>1, <1>2, <1>4 DEF AnnouncedIsStored
<1>. QED
  BY <1>3, <1>5, <1>6 DEF EInv, AloneIsAlone, AloneIsCurrent

\* One request goes on, or ends.
LEMMA Proceeds ==
    ASSUME EInv, NEW r \in Requests,
           \A s \in Requests \ {r} : request'[s] = request[s],
           UnderWay(r), request'[r].alone => request[r].alone,
           UnderWay(r)' /\ request'[r].alone => Current(r)',
           announced' \in Announcement, AnnouncedIsStored'
    PROVE  EInv'
<1>1. \A s \in Requests \ {r} : (UnderWay(s)' <=> UnderWay(s)) /\ request'[s].alone = request[s].alone
  BY DEF UnderWay
<1>2. AloneIsAlone'
  BY <1>1 DEF EInv, AloneIsAlone
<1>3. \A s \in Requests \ {r} : request[s].alone => ~UnderWay(s)
  BY DEF EInv, AloneIsAlone
<1>4. AloneIsCurrent'
  BY <1>1, <1>3 DEF AloneIsCurrent
<1>. QED
  BY <1>2, <1>4 DEF EInv

\* A request that begins ends the solitude of the others (findPoll, LookForReaction).
LEMMA BeginAlone ==
    ASSUME Typed, UsersFinite, NEW r \in Requests, NEW kind, NEW user, NEW option, NEW state,
           NEW read, Begin(r, kind, user, option, state, read)
    PROVE  /\ request'[r].alone = (Others(r) = {})
           /\ \A s \in Requests \ {r} : /\ request'[s].alone = FALSE
                                        /\ request'[s].state = request[s].state
<1>1. ASSUME NEW s \in Requests \ {r}
      PROVE  request'[s].alone = FALSE /\ request'[s].state = request[s].state
  <2>1. request'[s] = [request[s] EXCEPT !.alone = FALSE]
    BY DEF Begin
  <2>. QED
    BY <2>1 DEF Typed, Request
<1>2. request'[r].alone = (Others(r) = {})
  <2> DEFINE lone == Others(r) = {}
  <2>1. request'[r] = [NoRequest EXCEPT !.kind = kind, !.state = state, !.user = user,
                                        !.option = option, !.read = read, !.alone = lone]
    BY DEF Begin
  <2> HIDE DEF lone
  <2>2. request'[r].alone = lone
    BY <2>1 DEF NoRequest
  <2>. QED
    BY <2>2 DEF lone
<1>. QED
  BY <1>1, <1>2

LEMMA BeginKeeps ==
    ASSUME VInv, UsersFinite, EInv, NEW r \in Requests, ~UnderWay(r),
           NEW kind \in {"vote", "retract", "close", "toggle"}, NEW user \in Users,
           NEW option \in Options \cup {NoVote}, NEW state \in {"found", "checked"},
           NEW read \in BOOLEAN, kind # "toggle" => (read <=> is_closed),
           Begin(r, kind, user, option, state, read),
           UNCHANGED <<is_closed, poll_votes, reactions, announced, excusedPoll, excusedReactions>>
    PROVE  EInv'
<1>1. /\ request'[r].kind = kind /\ request'[r].state = state /\ request'[r].read = read
  BY BeginMoves
<1>2. /\ request'[r].alone = (Others(r) = {})
      /\ \A s \in Requests \ {r} : /\ request'[s].alone = FALSE
                                   /\ request'[s].state = request[s].state
  BY BeginAlone DEF VInv
<1>3. AloneIsAlone'
  <2>1. request'[r].alone => \A s \in Requests \ {r} : ~UnderWay(s)
    BY <1>2 DEF Others
  <2>. QED
    BY <2>1, <1>2 DEF AloneIsAlone, UnderWay
<1>4. AloneIsCurrent'
  BY <1>1, <1>2 DEF AloneIsCurrent, Current, Toggles
<1>5. AnnouncedIsStored' /\ announced' \in Announcement
  BY DEF EInv, AnnouncedIsStored, Tally, Voters
<1>. QED
  BY <1>3, <1>4, <1>5 DEF EInv

\* A request that ends without an event.
LEMMA EndKeeps ==
    ASSUME VInv, UsersFinite, EInv, NEW r \in Requests, UnderWay(r), Finish(r),
           UNCHANGED <<is_closed, poll_votes, reactions, announced, excusedPoll, excusedReactions>>
    PROVE  EInv'
<1>1. /\ request'[r].state = "done"
      /\ \A s \in Requests \ {r} : request'[s] = request[s]
  BY NoRequestType DEF VInv, Typed, Finish
<1>2. ~UnderWay(r)' /\ request'[r].alone = FALSE
  BY <1>1 DEF UnderWay, Finish, VInv, Typed, NoRequest
<1>3. AnnouncedIsStored' /\ announced' \in Announcement
  BY DEF EInv, AnnouncedIsStored, Tally, Voters
<1>4. \A s \in Requests : s # r => request'[s] = request[s]
  BY <1>1
<1>. QED
  BY <1>2, <1>3, <1>4, Proceeds

\* A request that publishes what it has counted.
LEMMA PublishPollKeeps ==
    ASSUME VInv, UsersFinite, EInv, NEW r \in Requests, PublishPoll(r) PROVE EInv'
<1> DEFINE q == request[r]
<1>1. /\ request'[r].state = "done" /\ UnderWay(r) /\ ~Toggles(r) /\ q.state = "totalled"
      /\ \A s \in Requests \ {r} : request'[s] = request[s]
  BY NoRequestType DEF VInv, Typed, Finish, PublishPoll, UnderWay, KindKnown
<1>2. ~UnderWay(r)' /\ request'[r].alone = FALSE
  <2>1. request'[r].alone = FALSE
    BY DEF PublishPoll, Finish, VInv, Typed, NoRequest
  <2>. QED
    BY <1>1, <2>1 DEF UnderWay
<1>3. q.read \in BOOLEAN /\ q.counts \in [Options -> Nat] /\ q.total \in Nat /\ q.alone \in BOOLEAN
  BY DEF VInv, Typed, Request
<1>4. /\ announced' = [announced EXCEPT !.closed = q.read, !.counts = q.counts, !.total = q.total]
      /\ excusedPoll' = ~q.alone
      /\ UNCHANGED <<is_closed, poll_votes, reactions, excusedReactions>>
  BY DEF PublishPoll, rows
<1>5. /\ announced' \in Announcement /\ announced'.reactions = announced.reactions
      /\ announced'.closed = q.read /\ announced'.counts = q.counts /\ announced'.total = q.total
  BY <1>3, <1>4 DEF EInv, Announcement
<1>6. q.alone => Current(r)
  BY <1>1 DEF EInv, AloneIsCurrent
<1>7. is_closed \in BOOLEAN
  BY DEF VInv, Typed
<1>8. AnnouncedIsStored'
  <2>1. excusedPoll' \/ /\ announced'.closed = is_closed /\ announced'.counts = Tally(poll_votes)
                        /\ announced'.total = Voters(poll_votes)
    BY <1>1, <1>3, <1>4, <1>5, <1>6, <1>7 DEF Current
  <2>2. excusedReactions' \/ announced'.reactions = Cardinality(reactions)
    BY <1>4, <1>5 DEF EInv, AnnouncedIsStored
  <2>. QED
    BY <2>1, <2>2, <1>4 DEF AnnouncedIsStored, Tally, Voters
<1>. QED
  BY <1>1, <1>2, <1>5, <1>8, Proceeds

LEMMA PublishReactionKeeps ==
    ASSUME VInv, UsersFinite, EInv, NEW r \in Requests, PublishReaction(r) PROVE EInv'
<1> DEFINE q == request[r]
<1>1. /\ request'[r].state = "done" /\ UnderWay(r) /\ Toggles(r) /\ q.state = "counted"
      /\ \A s \in Requests \ {r} : request'[s] = request[s]
  BY NoRequestType DEF VInv, Typed, Finish, PublishReaction, UnderWay, Toggles
<1>2. ~UnderWay(r)' /\ request'[r].alone = FALSE
  <2>1. request'[r].alone = FALSE
    BY DEF PublishReaction, Finish, VInv, Typed, NoRequest
  <2>. QED
    BY <1>1, <2>1 DEF UnderWay
<1>3. q.total \in Nat /\ q.alone \in BOOLEAN
  BY DEF VInv, Typed, Request
<1>4. /\ announced' = [announced EXCEPT !.reactions = q.total]
      /\ excusedReactions' = ~q.alone
      /\ UNCHANGED <<is_closed, poll_votes, reactions, excusedPoll>>
  BY DEF PublishReaction, rows
<1>5. /\ announced' \in Announcement /\ announced'.reactions = q.total
      /\ announced'.closed = announced.closed /\ announced'.counts = announced.counts
      /\ announced'.total = announced.total
  BY <1>3, <1>4 DEF EInv, Announcement
<1>6. q.alone => q.total = Cardinality(reactions)
  BY <1>1 DEF EInv, AloneIsCurrent, Current
<1>8. AnnouncedIsStored'
  <2>1. excusedReactions' \/ announced'.reactions = Cardinality(reactions)
    BY <1>3, <1>4, <1>5, <1>6
  <2>. QED
    BY <2>1, <1>4, <1>5 DEF EInv, AnnouncedIsStored, Tally, Voters
<1>. QED
  BY <1>1, <1>2, <1>5, <1>8, Proceeds

\* A request that writes: the latest event is excused.
LEMMA WriteKeeps ==
    ASSUME VInv, EInv, NEW r \in Requests, WritePoll(r) \/ Toggle(r) PROVE EInv'
<1>1. UnderWay(r) /\ announced' = announced
  BY DEF WritePoll, Toggle, UnderWay
<1>2. /\ \A s \in Requests \ {r} : request'[s] = request[s]
      /\ request'[r].alone = request[r].alone /\ request'[r].state = "written"
      /\ request'[r].kind = request[r].kind
  BY DEF WritePoll, Toggle, VInv, Typed, Request
<1>3. CASE WritePoll(r)
  <2>1. request'[r].read = (request[r].read \/ request[r].kind = "close")
    BY <1>3 DEF WritePoll, VInv, Typed, Request
  <2>2. /\ is_closed' = (is_closed \/ request[r].kind = "close") /\ ~Toggles(r)
        /\ excusedPoll' = TRUE /\ UNCHANGED <<reactions, excusedReactions>>
    BY <1>3 DEF WritePoll, Toggles
  <2>3. request[r].alone => (request[r].read <=> is_closed)
    BY <1>1, <2>2 DEF EInv, AloneIsCurrent, Current
  <2>4. UnderWay(r)' /\ request'[r].alone => Current(r)'
    BY <1>2, <2>1, <2>2, <2>3 DEF Current, Toggles
  <2>5. AnnouncedIsStored'
    BY <1>1, <2>2 DEF EInv, AnnouncedIsStored
  <2>. QED
    BY <1>1, <1>2, <2>4, <2>5, Proceeds DEF EInv
<1>4. CASE Toggle(r)
  <2>1. /\ Toggles(r) /\ excusedReactions' = TRUE
        /\ UNCHANGED <<is_closed, poll_votes, excusedPoll>>
    BY <1>4 DEF Toggle, Toggles
  <2>2. UnderWay(r)' /\ request'[r].alone => Current(r)'
    BY <1>2, <2>1 DEF Current, Toggles
  <2>3. AnnouncedIsStored'
    BY <1>1, <2>1 DEF EInv, AnnouncedIsStored, Tally, Voters
  <2>. QED
    BY <1>1, <1>2, <2>2, <2>3, Proceeds DEF EInv
<1>. QED
  BY <1>3, <1>4

\* A request that looks or counts.
LEMMA CountKeeps ==
    ASSUME VInv, EInv, NEW r \in Requests,
           \/ Count(r) \/ CountVoters(r) \/ CountReactions(r)
           \/ LookForAnswer(r) /\ ~Finish(r)
    PROVE  EInv'
<1>1. /\ UnderWay(r)
      /\ UNCHANGED <<is_closed, poll_votes, reactions, announced, excusedPoll, excusedReactions>>
  BY DEF Count, CountVoters, CountReactions, LookForAnswer, UnderWay, rows
<1>2. AnnouncedIsStored' /\ announced' \in Announcement
  BY <1>1 DEF EInv, AnnouncedIsStored, Tally, Voters
<1>3. request[r].alone => Current(r)
  BY <1>1 DEF EInv, AloneIsCurrent
<1>4. /\ \A s \in Requests \ {r} : request'[s] = request[s]
      /\ request'[r].alone = request[r].alone
      /\ request'[r].kind = request[r].kind /\ request'[r].read = request[r].read
  BY DEF Count, CountVoters, CountReactions, LookForAnswer, VInv, Typed, Request
<1>5. Tally(poll_votes)' = Tally(poll_votes) /\ Voters(poll_votes)' = Voters(poll_votes)
  BY <1>1 DEF Tally, Voters
<1>6. request[r].alone => Current(r)'
  <2>1. CASE Count(r)
    <3>1. request'[r].counts = Tally(poll_votes) /\ request'[r].state = "counted" /\ ~Toggles(r)
      BY <2>1 DEF Count, Toggles, VInv, Typed, Request
    <3>. QED
      BY <3>1, <1>1, <1>3, <1>4, <1>5 DEF Current, Toggles
  <2>2. CASE CountVoters(r)
    <3>1. /\ request'[r].counts = request[r].counts /\ request'[r].total = Voters(poll_votes)
          /\ request'[r].state = "totalled" /\ request[r].state = "counted" /\ ~Toggles(r)
      BY <2>2 DEF CountVoters, Toggles, VInv, Typed, Request
    <3>. QED
      BY <3>1, <1>1, <1>3, <1>4, <1>5 DEF Current, Toggles
  <2>3. CASE CountReactions(r)
    <3>1. /\ request'[r].total = Cardinality(reactions) /\ request'[r].state = "counted"
          /\ Toggles(r)
      BY <2>3 DEF CountReactions, Toggles, VInv, Typed, Request
    <3>. QED
      BY <3>1, <1>1, <1>4 DEF Current, Toggles
  <2>4. CASE LookForAnswer(r) /\ ~Finish(r)
    <3>1. request'[r].state = "checked"
      BY <2>4 DEF LookForAnswer, VInv, Typed, Request
    <3>. QED
      BY <3>1, <1>1, <1>3, <1>4 DEF Current, Toggles
  <2>. QED
    BY <2>1, <2>2, <2>3, <2>4
<1>. QED
  BY <1>1, <1>2, <1>4, <1>6, Proceeds

LEMMA EventsStep == UsersFinite /\ VInv /\ EInv /\ [Next]_vars => EInv'
<1> SUFFICES ASSUME UsersFinite, VInv, EInv, [Next]_vars PROVE EInv'
  OBVIOUS
<1>1. CASE Due \/ UNCHANGED vars
  <2>1. UNCHANGED <<is_closed, poll_votes, reactions, announced, excusedPoll, excusedReactions, request>>
    BY <1>1 DEF Due, vars, rows
  <2>. QED
    BY <2>1 DEF EInv, AloneIsAlone, AloneIsCurrent, Current, AnnouncedIsStored, Tally, Voters,
       Toggles, UnderWay
<1>2. ASSUME NEW r \in Requests, Find(r) PROVE EInv'
  <2>1. /\ ~UnderWay(r) /\ is_closed \in BOOLEAN
        /\ UNCHANGED <<is_closed, poll_votes, reactions, announced, excusedPoll, excusedReactions>>
    BY <1>2 DEF Find, rows, UnderWay, VInv, Typed
  <2>2. PICK kind \in {"vote", "retract", "close"}, u \in Users, o \in Options \cup {NoVote},
             state \in {"found", "checked"} : Begin(r, kind, u, o, state, is_closed)
    BY <1>2 DEF Find
  <2>. QED
    BY <2>1, <2>2, BeginKeeps
<1>3. ASSUME NEW r \in Requests, LookForReaction(r) PROVE EInv'
  <2>1. /\ ~UnderWay(r)
        /\ UNCHANGED <<is_closed, poll_votes, reactions, announced, excusedPoll, excusedReactions>>
    BY <1>3 DEF LookForReaction, rows, UnderWay
  <2>2. PICK u \in Users : Begin(r, "toggle", u, NoVote, "checked", u \in reactions)
    BY <1>3 DEF LookForReaction
  <2>3. PICK read : read = (u \in reactions)
    OBVIOUS
  <2>4. read \in BOOLEAN
    BY <2>3
  <2>5. Begin(r, "toggle", u, NoVote, "checked", read)
    BY <2>2, <2>3, Zenon
  <2>. QED
    BY <2>1, <2>4, <2>5, BeginKeeps
<1>4. ASSUME NEW r \in Requests, LookForAnswer(r) /\ Finish(r) PROVE EInv'
  BY <1>4, EndKeeps DEF LookForAnswer, UnderWay, rows
<1>5. ASSUME NEW r \in Requests, AnswerRetraction(r) \/ Stop(r) PROVE EInv'
  BY <1>5, EndKeeps DEF AnswerRetraction, Stop, UnderWay, rows
<1>. QED
  BY <1>1, <1>2, <1>3, <1>4, <1>5, PublishPollKeeps, PublishReactionKeeps, WriteKeeps, CountKeeps
  DEF Next

\* The latest event of a poll and of the reactions shows what is stored, unless a
\* write is still to be announced or requests overlapped (POST /polls/:id/vote,
\* POST /reactions).
THEOREM EventsAreTrue ==
    ASSUME UsersFinite
    PROVE  Spec => []AnnouncedIsStored
<1>1. EInv => AnnouncedIsStored
  BY DEF EInv
<1>. QED
  BY <1>1, VotesInit, VotesStep, EventsInit, EventsStep, PTL DEF Spec

-------------------------------------------------------------------------------
(* Types.                                                                  *)

\* The rows are of users and options, and a request is in one of its states (POST
\* /polls/:id/vote, POST /reactions).
THEOREM BallotTyped ==
    ASSUME UsersFinite, MaxFaults \in Nat
    PROVE  Spec => []TypeOK
<1> DEFINE T == due \in BOOLEAN /\ faults \in 0..MaxFaults
           I == VInv /\ T
<1>1. Init => I
  <2>1. Init => due \in BOOLEAN
    BY DEF Init
  <2>2. Init => faults \in 0..MaxFaults
    BY DEF Init
  <2>. QED
    BY <2>1, <2>2, VotesInit
<1>2. I /\ [Next]_vars => I'
  <2> SUFFICES ASSUME I, [Next]_vars PROVE T'
    BY VotesStep
  <2>1. /\ due' \in {due, TRUE}
        /\ faults' = faults \/ (faults < MaxFaults /\ faults' = faults + 1)
    BY DEF Next, vars, rows, Due, Find, LookForAnswer, WritePoll, Count, CountVoters, PublishPoll,
       AnswerRetraction, LookForReaction, Toggle, CountReactions, PublishReaction, Stop
  <2>2. due' \in BOOLEAN
    BY <2>1
  <2>3. faults' \in 0..MaxFaults
    BY <2>1
  <2>. QED
    BY <2>2, <2>3
<1>3. I => TypeOK
  BY DEF VInv, Typed, Request, States, TypeOK
<1> HIDE DEF I
<1>. QED
  BY <1>1, <1>2, <1>3, PTL DEF Spec
===============================================================================
