------------------------------ MODULE MCServices ------------------------------
(***************************************************************************)
(* One instance for TLC of the specifications that share no state with     *)
(* each other: a behaviour is one of the component it starts with, and the *)
(* variables of the others are blank.  They share the count of faults.     *)
(***************************************************************************)
EXTENDS Naturals, Sequences, FiniteSets, TLC

CONSTANTS
    Two, Three,     \* requests
    Logins, Lists,  \* the requests of a user who has registered
    Resends,        \* the requests for another code
    MAX_ATTEMPTS, HOURLY_LIMIT,     \* of an e-mailed code
    Readers,        \* the requests for a proof
    Deletions,      \* the requests that destroy a secret chat
    Users, Options, NoVote, Initiator, Responder,
    Slots,          \* the operations of one client on a secret chat that may overlap
    MAX_SKIP,
    MaxSent,        \* bounds the messages of a secret chat, and the repeated deliveries
    Steps,          \* the time steps whose codes are entered: positive numbers
    MaxPairs,       \* bounds the pairs of tokens that are issued
    MaxBuilds,      \* bounds the rebuilds of the tree
    MaxSecrets,     \* bounds the secrets of the second factor
    MaxFaults,      \* bounds the handlers that stop half-way
    Script,         \* the events that the search worker consumes
    BULK_MAX_SIZE,
    MAX_RETRIES,    \* how often a bulk write is made again
    MaxBulks,       \* bounds its bulk writes
    Amounts,        \* the amounts of jettons that are minted, sent and burnt
    MaxMessages,    \* bounds these operations
    MaxLosses       \* bounds the restarts of the worker, and the handlers of jettons that throw

\* The requests are none of the values that stand for no request, a resend is no login,
\* there are users and none is the minter, a buffer has room, the two parties of a
\* secret chat are two, and the bounds are numbers.
ASSUME ServicesAssumption ==
    /\ "none" \notin Three \cup Two \cup Logins \cup Lists \cup Resends
    /\ Logins \cap Resends = {}
    /\ IsFiniteSet(Users) /\ Users # {} /\ IsFiniteSet(Resends)
    /\ MAX_ATTEMPTS \in Nat /\ HOURLY_LIMIT \in Nat /\ Steps \subseteq Nat \ {0}
    /\ MaxPairs \in Nat \ {0} /\ MaxBuilds \in Nat /\ MaxSecrets \in Nat /\ MaxFaults \in Nat
    /\ Script \in Seq({"sent", "edited", "deleted"})
    /\ BULK_MAX_SIZE \in Nat \ {0} /\ MAX_RETRIES \in Nat /\ MaxBulks \in Nat /\ MaxLosses \in Nat
    /\ MaxMessages \in Nat
    /\ Amounts \subseteq Nat /\ "minter" \notin Users
    /\ Initiator # Responder /\ MAX_SKIP \in Nat /\ MaxSent \in Nat

VARIABLES
    component, faults,
    sessions, issued, expired, revoked, jar, stored, token, page, refreshInFlight,
    sessionRequest, refresh, logout, sessionCrossed, disturbed,
    store, generated, op, ratchetSent, outcome, reads, again, raced,
    log, publisher, treeCache, treeBuild, build, reader, straddled,
    total_supply, balance, messages, jettonSent, jettonLost,
    chats, members, published, chatRequest, deletion, complete,
    consumed, bulkBuffer, bulk, documents, unanswered, eventsLost,
    is_quiz, is_closed, due, poll_votes, reactions, voteRequest, announcedVotes, told,
    excusedPoll, excusedReactions, overlapped,
    online, heartbeat, announcedOnline, call, excused,
    user, saved, owners, userCreated, accountRequest, before, company,
    otp, cooldown, hourly, is_verified, hasFactor, send, entry, newest, inbox, flow, spent,
    sendsOverlapped,
    totp, two_factor_enabled, totp_used, challenge, generatedSecrets, held, factorRequest,
    confirmed, accepted

Login == INSTANCE Sessions WITH
    Tabs <- {1}, Requests <- Two,
    request <- sessionRequest, crossed <- sessionCrossed
SecretChat == INSTANCE Ratchet WITH sent <- ratchetSent
Transparency == INSTANCE KeyLog WITH Publishers <- Two
Token == INSTANCE Jetton WITH
    Owners <- Users, MaxFaults <- MaxLosses,
    sent <- jettonSent, lost <- jettonLost
Opening == INSTANCE Chats WITH
    Requests <- Three, request <- chatRequest
Search == INSTANCE SearchIndex WITH MaxFaults <- MaxLosses, lost <- eventsLost
Ballot == INSTANCE Votes WITH
    Requests <- Two, request <- voteRequest, announced <- announcedVotes
Watch == INSTANCE Presence WITH Calls <- Three, announced <- announcedOnline
Account == INSTANCE Accounts WITH Registrations <- Two, request <- accountRequest
Code == INSTANCE EmailCodes WITH
    Entries <- Two, totp <- hasFactor, overlapped <- sendsOverlapped
Factor == INSTANCE TwoFactor WITH
    Requests <- Two,
    generated <- generatedSecrets, request <- factorRequest

sessionVars  == <<sessions, issued, expired, revoked, jar, stored, token, page, refreshInFlight,
                  sessionRequest, refresh, logout, sessionCrossed, disturbed>>
ratchetVars  == <<store, generated, op, ratchetSent, outcome, reads, again, raced>>
keyLogVars   == <<log, publisher, treeCache, treeBuild, build, reader, straddled>>
jettonVars   == <<total_supply, balance, messages, jettonSent, jettonLost>>
chatVars     == <<chats, members, published, chatRequest, deletion, complete>>
searchVars   == <<consumed, bulkBuffer, bulk, documents, unanswered, eventsLost>>
voteVars     == <<is_quiz, is_closed, due, poll_votes, reactions, voteRequest, announcedVotes,
                  told, excusedPoll, excusedReactions, overlapped>>
presenceVars == <<online, heartbeat, announcedOnline, call, excused>>
accountVars  == <<user, saved, owners, userCreated, accountRequest, before, company>>
codeVars     == <<otp, cooldown, hourly, is_verified, hasFactor, send, entry, newest, inbox, flow,
                  spent, sendsOverlapped>>
factorVars   == <<totp, two_factor_enabled, totp_used, challenge, generatedSecrets, held,
                  factorRequest, confirmed, accepted>>
vars == <<component, faults, sessionVars, ratchetVars, keyLogVars, jettonVars, chatVars,
          searchVars, voteVars, presenceVars, accountVars, codeVars, factorVars>>

Init ==
    /\ component \in {"login", "ratchet", "transparency", "token", "opening", "search",
                      "ballot", "watch", "account", "code", "factor"}
    /\ faults = 0
    /\ IF component = "login" THEN Login!Init
       ELSE /\ sessions = 0 /\ issued = 0 /\ expired = 0 /\ revoked = 0 /\ jar = 0 /\ stored = 0
            /\ token = 0 /\ page = 0 /\ refreshInFlight = 0 /\ sessionRequest = 0 /\ refresh = 0
            /\ logout = 0 /\ sessionCrossed = 0 /\ disturbed = 0
    /\ IF component = "ratchet" THEN SecretChat!Init
       ELSE /\ store = 0 /\ generated = 0 /\ op = 0 /\ ratchetSent = 0 /\ outcome = 0
            /\ reads = 0 /\ again = 0 /\ raced = 0
    /\ IF component = "transparency" THEN Transparency!Init
       ELSE /\ log = 0 /\ publisher = 0 /\ treeCache = 0 /\ treeBuild = 0 /\ build = 0
            /\ reader = 0 /\ straddled = 0
    /\ IF component = "token" THEN Token!Init
       ELSE /\ total_supply = 0 /\ balance = 0 /\ messages = 0 /\ jettonSent = 0
            /\ jettonLost = 0
    /\ IF component = "opening" THEN Opening!Init
       ELSE /\ chats = 0 /\ members = 0 /\ published = 0 /\ chatRequest = 0 /\ deletion = 0
            /\ complete = 0
    /\ IF component = "search" THEN Search!Init
       ELSE /\ consumed = 0 /\ bulkBuffer = 0 /\ bulk = 0 /\ documents = 0 /\ unanswered = 0
            /\ eventsLost = 0
    /\ IF component = "ballot" THEN Ballot!Init
       ELSE /\ is_quiz = 0 /\ is_closed = 0 /\ due = 0 /\ poll_votes = 0 /\ reactions = 0
            /\ voteRequest = 0 /\ announcedVotes = 0 /\ told = 0 /\ excusedPoll = 0
            /\ excusedReactions = 0 /\ overlapped = 0
    /\ IF component = "watch" THEN Watch!Init
       ELSE /\ online = 0 /\ heartbeat = 0 /\ announcedOnline = 0 /\ call = 0 /\ excused = 0
    /\ IF component = "account" THEN Account!Init
       ELSE /\ user = 0 /\ saved = 0 /\ owners = 0 /\ userCreated = 0 /\ accountRequest = 0
            /\ before = 0 /\ company = 0
    /\ IF component = "code" THEN Code!Init
       ELSE /\ otp = 0 /\ cooldown = 0 /\ hourly = 0 /\ is_verified = 0 /\ hasFactor = 0
            /\ send = 0 /\ entry = 0 /\ newest = 0 /\ inbox = 0 /\ flow = 0 /\ spent = 0
            /\ sendsOverlapped = 0
    /\ IF component = "factor" THEN Factor!Init
       ELSE /\ totp = 0 /\ two_factor_enabled = 0 /\ totp_used = 0 /\ challenge = 0
            /\ generatedSecrets = 0 /\ held = 0 /\ factorRequest = 0 /\ confirmed = 0
            /\ accepted = 0

Next ==
    /\ UNCHANGED component
    /\ \/ /\ component = "login" /\ Login!Next
          /\ UNCHANGED <<ratchetVars, keyLogVars, jettonVars, chatVars, searchVars, voteVars,
                         presenceVars, accountVars, codeVars, factorVars>>
       \/ /\ component = "ratchet" /\ SecretChat!Next
          /\ UNCHANGED <<faults, sessionVars, keyLogVars, jettonVars, chatVars, searchVars,
                         voteVars, presenceVars, accountVars, codeVars, factorVars>>
       \/ /\ component = "transparency" /\ Transparency!Next
          /\ UNCHANGED <<faults, sessionVars, ratchetVars, jettonVars, chatVars, searchVars,
                         voteVars, presenceVars, accountVars, codeVars, factorVars>>
       \/ /\ component = "token" /\ Token!Next
          /\ UNCHANGED <<sessionVars, ratchetVars, keyLogVars, chatVars, searchVars, voteVars,
                         presenceVars, accountVars, codeVars, factorVars>>
       \/ /\ component = "opening" /\ Opening!Next
          /\ UNCHANGED <<sessionVars, ratchetVars, keyLogVars, jettonVars, searchVars, voteVars,
                         presenceVars, accountVars, codeVars, factorVars>>
       \/ /\ component = "search" /\ Search!Next
          /\ UNCHANGED <<sessionVars, ratchetVars, keyLogVars, jettonVars, chatVars, voteVars,
                         presenceVars, accountVars, codeVars, factorVars>>
       \/ /\ component = "ballot" /\ Ballot!Next
          /\ UNCHANGED <<sessionVars, ratchetVars, keyLogVars, jettonVars, chatVars, searchVars,
                         presenceVars, accountVars, codeVars, factorVars>>
       \/ /\ component = "watch" /\ Watch!Next
          /\ UNCHANGED <<sessionVars, ratchetVars, keyLogVars, jettonVars, chatVars, searchVars,
                         voteVars, accountVars, codeVars, factorVars>>
       \/ /\ component = "account" /\ Account!Next
          /\ UNCHANGED <<sessionVars, ratchetVars, keyLogVars, jettonVars, chatVars, searchVars,
                         voteVars, presenceVars, codeVars, factorVars>>
       \/ /\ component = "code" /\ Code!Next
          /\ UNCHANGED <<sessionVars, ratchetVars, keyLogVars, jettonVars, chatVars, searchVars,
                         voteVars, presenceVars, accountVars, factorVars>>
       \/ /\ component = "factor" /\ Factor!Next
          /\ UNCHANGED <<sessionVars, ratchetVars, keyLogVars, jettonVars, chatVars, searchVars,
                         voteVars, presenceVars, accountVars, codeVars>>

Spec == Init /\ [][Next]_vars

FiveEvents == <<"sent", "sent", "edited", "deleted", "sent">>

Symmetry == Permutations(Two) \cup Permutations(Logins)

-------------------------------------------------------------------------------
(* The properties are those of the components.                             *)

\* Every variable of every component has its type.
TypeOK ==
    /\ component = "login" => Login!TypeOK
    /\ component = "ratchet" => SecretChat!TypeOK
    /\ component = "transparency" => Transparency!TypeOK
    /\ component = "token" => Token!TypeOK
    /\ component = "opening" => Opening!TypeOK
    /\ component = "search" => Search!TypeOK
    /\ component = "ballot" => Ballot!TypeOK
    /\ component = "watch" => Watch!TypeOK
    /\ component = "account" => Account!TypeOK
    /\ component = "code" => Code!TypeOK
    /\ component = "factor" => Factor!TypeOK

\* Nobody is sent to /login without cause (api.ts).
NoNeedlessBounce == component = "login" => Login!NoNeedlessBounce
\* Logging out ends the session (auth.routes.ts).
LoggedOutStaysOut == component = "login" => Login!LoggedOutStaysOut
\* Messages are readable in any order, once (ratchet.ts).
ReadOnArrivalOnly == component = "ratchet" => SecretChat!ReadOnArrivalOnly
\* A proof is of a tree that has the entry, if it was invalidated for it (kt.routes.ts).
TreeHasEntry == component = "transparency" => Transparency!TreeHasEntry
\* The supply is what the wallets and the messages hold (jetton-minter.fc).
Conserved == component = "token" => Token!Conserved
\* Two users have one chat of a type, complete (POST /chats).
FindOrCreate == component = "opening" => Opening!FindOrCreate
\* Every message is in the index once, or was lost, and again only for an attempt
\* whose answer was lost (search-worker).
SendsIndexedOnce == component = "search" => Search!SendsIndexedOnce
\* Votes and reactions are stored as they were answered, and shown as they are
\* stored (POST /polls/:id/vote).
BallotHolds == component = "ballot" => Ballot!AnswersHold /\ Ballot!AnnouncedIsStored
\* The latest event of a user's presence agrees with presence:online.
AnnouncedPresence == component = "watch" => Watch!AnnouncedPresence
\* A user has one chat for saved messages, whichever service is asked.
OneSavedChat == component = "account" => Account!OneSavedChat
\* The code of the newest mail works, and once (POST /verify-login).
CodeWorksOnce == component = "code" => Code!CodeWorksOnce
\* The second factor stays as it was confirmed (POST /2fa/verify).
FactorAsConfirmed == component = "factor" => Factor!FactorAsConfirmed
===============================================================================
