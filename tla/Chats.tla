------------------------------- MODULE Chats -------------------------------
(***************************************************************************)
(* Finding or creating the chat of two users, and destroying it            *)
(* (messaging-core-service: POST /chats, /dm/:userId and /secret-chats,    *)
(* DELETE /secret-chats/:id).  The routes look for a chat in which both    *)
(* are members, and otherwise insert the chat, then the members, then      *)
(* publish; no transaction holds the statements together.                  *)
(*                                                                         *)
(* The model is of one pair of users and one type of chat.                 *)
(***************************************************************************)
EXTENDS Naturals, FiniteSets

CONSTANTS
    Requests,       \* the requests of either user that find or create
    Deletions,      \* the requests that destroy the chat they name
    MaxFaults       \* bounds the handlers that stop half-way

NoChat == "none"
Members == {"caller", "target"}

VARIABLES
    chats,          \* the rows of chats, named by the request that created them
    members,        \* chat -> the users with a row in chat_members
    published,      \* chat -> the users whose MEMBER_JOINED was published
    request,        \* request -> its state, and the chat it answers with
    deletion,       \* deletion -> its state, and the chat it destroys
    complete,       \* history: request -> the complete chats when it looked
    faults

vars == <<chats, members, published, request, deletion, complete, faults>>

Init ==
    /\ chats = {}
    /\ members = [c \in Requests |-> {}] /\ published = [c \in Requests |-> {}]
    /\ request = [r \in Requests |-> [state |-> "idle", chat |-> NoChat]]
    /\ deletion = [d \in Deletions |-> [state |-> "idle", chat |-> NoChat]]
    /\ complete = [r \in Requests |-> {}]
    /\ faults = 0

Goto(r, state, chat) == request' = [request EXCEPT ![r] = [state |-> state, chat |-> chat]]

\* Mutant of Existing: a chat is found although the members are not there yet.
ExistingRows == chats

\* The chats that SELECT finds: the row, and a row of either user.
Existing == {c \in chats : members[c] = Members}

Find(r) ==
    /\ request[r].state = "idle"
    /\ complete' = [complete EXCEPT ![r] = {c \in chats : members[c] = Members}]
    /\ \/ \E c \in Existing : Goto(r, "answered", c)
       \/ Existing = {} /\ Goto(r, "missing", NoChat)
    /\ UNCHANGED <<chats, members, published, deletion, faults>>

\* INSERT INTO chats, with members_count = 2.
InsertChat(r) ==
    /\ request[r].state = "missing"
    /\ chats' = chats \cup {r}
    /\ Goto(r, "chat", r)
    /\ UNCHANGED <<members, published, deletion, complete, faults>>

\* INSERT INTO chat_members, both rows.
InsertMembers(r) ==
    /\ request[r].state = "chat"
    /\ members' = [members EXCEPT ![r] = Members]
    /\ Goto(r, "members", r)
    /\ UNCHANGED <<chats, published, deletion, complete, faults>>

\* publishMemberJoined, for the caller and then for the target.
PublishJoined(r) ==
    /\ \/ request[r].state = "members" /\ Goto(r, "half", r)
          /\ published' = [published EXCEPT ![r] = {"caller"}]
       \/ request[r].state = "half" /\ Goto(r, "answered", r)
          /\ published' = [published EXCEPT ![r] = Members]
    /\ UNCHANGED <<chats, members, deletion, complete, faults>>

\* A statement or a publish fails, or the process stops.
Stop(r) ==
    /\ request[r].state \in {"missing", "chat", "members", "half"}
    /\ faults < MaxFaults /\ faults' = faults + 1
    /\ Goto(r, "failed", request[r].chat)
    /\ UNCHANGED <<chats, members, published, deletion, complete>>

\* DELETE /secret-chats/:id, past requireMember and the DELETE of the messages.
StartDelete(d) ==
    /\ deletion[d].state = "idle"
    /\ \E c \in Existing :
          deletion' = [deletion EXCEPT ![d] = [state |-> "member", chat |-> c]]
    /\ UNCHANGED <<chats, members, published, request, complete, faults>>

DeleteMembers(d) ==
    /\ deletion[d].state = "member"
    /\ members' = [members EXCEPT ![deletion[d].chat] = {}]
    /\ deletion' = [deletion EXCEPT ![d].state = "members"]
    /\ UNCHANGED <<chats, published, request, complete, faults>>

DeleteChat(d) ==
    /\ deletion[d].state = "members"
    /\ chats' = chats \ {deletion[d].chat}
    /\ deletion' = [deletion EXCEPT ![d].state = "done"]
    /\ UNCHANGED <<members, published, request, complete, faults>>

Next ==
    \/ \E r \in Requests :
          Find(r) \/ InsertChat(r) \/ InsertMembers(r) \/ PublishJoined(r) \/ Stop(r)
    \/ \E d \in Deletions : StartDelete(d) \/ DeleteMembers(d) \/ DeleteChat(d)

Spec == Init /\ [][Next]_vars

-------------------------------------------------------------------------------
(* Properties.                                                             *)

\* Every variable has its type.
TypeOK ==
    /\ chats \subseteq Requests
    /\ \A c \in Requests : members[c] \in {{}, Members} /\ published[c] \subseteq Members
    /\ \A r \in Requests :
          /\ request[r].state \in {"idle", "missing", "chat", "members", "half", "answered", "failed"}
          /\ request[r].chat \in Requests \cup {NoChat} /\ complete[r] \subseteq Requests
    /\ \A d \in Deletions : deletion[d].state \in {"idle", "member", "members", "done"}
    /\ faults \in 0..MaxFaults

Deleting(c) == \E d \in Deletions : deletion[d].chat = c

\* Opening the chat of two users again answers with the chat there is (POST
\* /dm/:userId: "existing"): an answer names a chat both are in, which was
\* announced to both or whose creation is still under way or was cut short, as
\* long as nobody destroys it; and two chats that both are in were created by
\* requests of which neither could see the other's.
FindOrCreate ==
    /\ \A r \in Requests :
          LET c == request[r].chat
          IN  (request[r].state = "answered" /\ ~Deleting(c)) =>
                /\ c \in Existing
                /\ published[c] = Members \/ request[c].state \in {"members", "half", "failed"}
    /\ \A c, d \in Existing :
          c # d => c \notin complete[d] /\ d \notin complete[c]
===============================================================================
