------------------------------ MODULE Accounts ------------------------------
(***************************************************************************)
(* Registering one username and finding the user's chat Saved Messages     *)
(* (auth-user-service: POST /register, and the routes that end in          *)
(* getOrCreateSavedMessages: the logins, POST /refresh, GET /me;           *)
(* messaging-core-service: GET /chats with its own ensureSavedChat).       *)
(* Two services look for the same chat with two queries, and each creates  *)
(* it in two statements when its query finds none.                         *)
(***************************************************************************)
EXTENDS Naturals, Sequences

CONSTANTS
    Registrations,  \* the requests to register the username
    Logins,         \* the requests of auth-user-service that answer a user with tokens
    Lists,          \* the requests GET /chats, for which the client needs such an answer
    MaxFaults       \* bounds the handlers that stop half-way

Requests == Registrations \cup Logins \cup Lists
NoChat == "none"
Nobody == "nobody"

VARIABLES
    user,           \* the registration whose row of users has the username
    saved,          \* the rows of chats of type 'saved', by created_at
    owners,         \* the chats of which the user has a row in chat_members
    userCreated,    \* the registrations whose USER_CREATED was published
    request,        \* request -> its state, and the chat it found or created
    before,         \* history: request -> the requests answered when it looked
    company,        \* history: the requests that looked or created while another created
    faults

vars == <<user, saved, owners, userCreated, request, before, company, faults>>

Init ==
    /\ user = Nobody
    /\ saved = <<>> /\ owners = {} /\ userCreated = {}
    /\ request = [r \in Requests |-> [state |-> "idle", chat |-> NoChat]]
    /\ before = [r \in Requests |-> {}] /\ company = {}
    /\ faults = 0

Goto(r, state, chat) == request' = [request EXCEPT ![r] = [state |-> state, chat |-> chat]]

AnsweredIn(R) == {r \in R : request[r].state = "answered"}

\* findByUsername, before the row is written.
CheckUsername(r) ==
    /\ r \in Registrations /\ request[r].state = "idle"
    /\ Goto(r, IF user = Nobody THEN "free" ELSE "refused", NoChat)
    /\ UNCHANGED <<user, saved, owners, userCreated, before, company, faults>>

\* INSERT INTO users: the column username is UNIQUE.
InsertUser(r) ==
    /\ request[r].state = "free"
    /\ \/ user = Nobody /\ user' = r /\ Goto(r, "look", NoChat)
       \/ user # Nobody /\ UNCHANGED user /\ Goto(r, "failed", NoChat)
    /\ UNCHANGED <<saved, owners, userCreated, before, company, faults>>

\* A login finds the row of users; a list comes with a token of an earlier answer.
Begin(r) ==
    /\ request[r].state = "idle"
    /\ \/ r \in Logins /\ user # Nobody
       \/ r \in Lists /\ AnsweredIn(Registrations \cup Logins) # {}
    /\ Goto(r, "look", NoChat)
    /\ UNCHANGED <<user, saved, owners, userCreated, before, company, faults>>

\* The rows the query of r selects: auth-user-service also takes a chat the user
\* created, messaging-core-service wants the row of chat_members.
Selected(r) ==
    {i \in DOMAIN saved : r \in Lists => saved[i] \in owners}

\* Mutant of Earliest: the ORDER BY is missing.
Unordered(S) == S

\* ORDER BY created_at ASC LIMIT 1
Earliest(S) == {i \in S : \A j \in S : i <= j}

Creating == {r \in Requests : request[r].state \in {"missing", "chat"}}

\* The state a request goes to with a chat: a registration publishes before it answers.
Found(r) == IF r \in Registrations THEN "publish" ELSE "answered"

LookForSaved(r) ==
    /\ request[r].state = "look"
    /\ before' = [before EXCEPT ![r] = AnsweredIn(Requests)]
    /\ \/ \E i \in Earliest(Selected(r)) :
            /\ Goto(r, Found(r), saved[i])
            /\ company' = company \cup {c \in {r} : Creating # {}}
       \/ /\ Selected(r) = {} /\ Goto(r, "missing", NoChat)
          /\ company' = company \cup (IF Creating = {} THEN {} ELSE Creating \cup {r})
    /\ UNCHANGED <<user, saved, owners, userCreated, faults>>

\* INSERT INTO chats.
InsertSaved(r) ==
    /\ request[r].state = "missing"
    /\ saved' = Append(saved, r)
    /\ Goto(r, "chat", r)
    /\ UNCHANGED <<user, owners, userCreated, before, company, faults>>

\* INSERT INTO chat_members, as owner.
InsertOwner(r) ==
    /\ request[r].state = "chat"
    /\ owners' = owners \cup {r}
    /\ Goto(r, Found(r), r)
    /\ UNCHANGED <<user, saved, userCreated, before, company, faults>>

\* USER_CREATED, at the end of POST /register.
PublishCreated(r) ==
    /\ request[r].state = "publish"
    /\ userCreated' = userCreated \cup {r}
    /\ Goto(r, "answered", request[r].chat)
    /\ UNCHANGED <<user, saved, owners, before, company, faults>>

\* A statement or the publish fails, or the process stops.
Stop(r) ==
    /\ request[r].state \in {"free", "look", "missing", "chat", "publish"}
    /\ faults < MaxFaults /\ faults' = faults + 1
    /\ Goto(r, "failed", NoChat)
    /\ UNCHANGED <<user, saved, owners, userCreated, before, company>>

Next == \E r \in Requests :
    \/ CheckUsername(r) \/ InsertUser(r) \/ Begin(r) \/ LookForSaved(r)
    \/ InsertSaved(r) \/ InsertOwner(r) \/ PublishCreated(r) \/ Stop(r)

Spec == Init /\ [][Next]_vars

-------------------------------------------------------------------------------
(* Properties.                                                             *)

\* Every variable has its type.
TypeOK ==
    /\ user \in Registrations \cup {Nobody}
    /\ saved \in Seq(Requests) /\ owners \subseteq Requests
    /\ userCreated \subseteq Registrations
    /\ \A r \in Requests :
          /\ request[r].state \in {"idle", "free", "refused", "look", "missing", "chat", "publish",
                                   "answered", "failed"}
          /\ request[r].chat \in Requests \cup {NoChat} /\ before[r] \subseteq Requests
    /\ company \subseteq Requests
    /\ faults \in 0..MaxFaults

\* A chat whose creation was cut short between its two rows.
Halves == {c \in Requests : /\ \E i \in DOMAIN saved : saved[i] = c
                            /\ c \notin owners /\ request[c].state = "failed"}

\* A user has one chat for saved messages, whichever service is asked (auth.routes.ts
\* getOrCreateSavedMessages, index.ts ensureSavedChat): a later answer names the chat of an
\* earlier one, unless either was found while a request was creating one.  After a
\* creation that was cut short between its rows this holds of each service alone:
\* auth-user-service goes on answering with the half chat, which GET /chats
\* cannot see and replaces.
OneSavedChat ==
    \A r \in AnsweredIn(Requests) : \A q \in before[r] :
        request[q].chat # request[r].chat =>
            \/ r \in company \/ q \in company
            \/ Halves # {} /\ (r \in Lists) # (q \in Lists)
===============================================================================
