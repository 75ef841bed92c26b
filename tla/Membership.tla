------------------------------ MODULE Membership ------------------------------
(***************************************************************************)
(* Membership of one group or channel, as messaging-core-service keeps it  *)
(* (services/messaging-core-service/src/index.ts).                         *)
(*                                                                         *)
(* Every pool.query of a route handler is a statement of its own,          *)
(* committed when it returns: no handler opens a transaction.  A request   *)
(* is therefore a small program whose control state, req[r].pc, names the  *)
(* statement it will execute next, and the statements of concurrent        *)
(* requests interleave freely.  A request may also stop between two        *)
(* statements (a failed query, a failed Kafka publish, a crash): Abort.    *)
(*                                                                         *)
(* The chat exists from the start, in the state POST /groups or            *)
(* POST /channels leaves it in: its creator is its owner and only member.  *)
(***************************************************************************)
EXTENDS Naturals, FiniteSets

CONSTANTS
    Users,          \* the users of the service
    Creator,        \* the user who created the chat
    Requests,       \* request slots: how many requests may run concurrently
    Codes,          \* invite codes
    MemberLimits,   \* values of chat_invites.member_limit; 0 stands for NULL
    Routes,         \* the routes requests are sent to
    IsPublic,       \* whether the chat is a public channel
    MayAbort,       \* whether a handler may stop between two statements
    MaxUncounted    \* bound: how many joins of a link may stop before they count their use

\* Routes that add several users at once, that act on one other user, that act
\* on the caller, and that manage invite links.
AddRoutes    == {"addGroup", "addChannel"}
TargetRoutes == {"remove", "setRole", "ban", "unban"}
SelfRoutes   == {"leave", "join", "joinInvite"}
InviteRoutes == {"createInvite", "revokeInvite"}
AllRoutes    == AddRoutes \cup TargetRoutes \cup SelfRoutes \cup InviteRoutes

ASSUME ConstantsAssumption ==
    /\ Creator \in Users
    /\ IsFiniteSet(Users)
    /\ IsFiniteSet(Requests)
    /\ Codes # {}
    /\ MemberLimits \subseteq Nat
    /\ Routes \subseteq AllRoutes
    /\ IsPublic \in BOOLEAN
    /\ MayAbort \in BOOLEAN
    /\ MaxUncounted \in Nat

VARIABLES
    chat_members,   \* the chat's rows of chat_members: user -> role, or "none"
    chat_bans,      \* the users with a row in chat_bans
    chat_invites,   \* the chat's invite links
    members_count,  \* chats.members_count
    req,            \* the control state of each request
    unannounced,    \* history: the changes of users' rows, each until it is published
                    \* or the handler that owes the event stops
    admitted,       \* history: how many rows of chat_members each link has brought in
    uncounted,      \* history: how many of them stay uncounted in uses, their join having
                    \* stopped between its INSERT and its UPDATE of uses
    lost            \* history: a handler stopped before its refresh, and none ran since

db   == <<chat_members, chat_bans, chat_invites, members_count>>
history == <<unannounced, admitted, uncounted, lost>>
vars == <<chat_members, chat_bans, chat_invites, members_count, req, unannounced, admitted,
          uncounted, lost>>

Admins  == {"owner", "admin"}
Roles   == Admins \cup {"member"}
Members == {u \in Users : chat_members[u] # "none"}

Invite  == [exists : BOOLEAN, member_limit : MemberLimits \cup {0}, uses : Nat,
            revoked : BOOLEAN, expired : BOOLEAN]

Statements ==
    {"idle", "requireAdmin", "requireMember", "requireOwner", "readRole", "readChannel",
     "readInvite", "readBan", "readTarget", "readMe", "insertMember", "deleteMember",
     "updateRole", "insertBan", "deleteBan", "insertInvite", "updateInvite", "countUse",
     "refresh", "publishJoined", "publishLeft"}

\* The first statement of each route.
Entry(route) ==
    CASE route \in AddRoutes \cup {"remove", "ban", "unban", "createInvite"} -> "requireAdmin"
      [] route = "setRole"                      -> "requireOwner"
      [] route = "leave"                        -> "requireMember"
      [] route = "join"                         -> "readChannel"
      [] OTHER                                  -> "readInvite"

\* The statement that follows requireAdmin.
AfterAdmin(route) ==
    CASE route \in AddRoutes      -> "readBan"
      [] route = "remove"         -> "deleteMember"
      [] route = "ban"            -> "readTarget"
      [] route = "unban"          -> "deleteBan"
      [] route = "createInvite"   -> "insertInvite"
      [] OTHER                    -> "updateInvite"

Request ==
    [pc : Statements, route : AllRoutes, actor : Users, user : Users, role : Roles,
     code : Codes, todo : SUBSET Users, seen : Roles \cup {"none"}, added : SUBSET Users]

AnyCode == CHOOSE c \in Codes : TRUE

Idle == [pc |-> "idle", route |-> "leave", actor |-> Creator, user |-> Creator,
         role |-> "member", code |-> AnyCode, todo |-> {}, seen |-> "none", added |-> {}]

-------------------------------------------------------------------------------
Init ==
    /\ chat_members = [u \in Users |-> IF u = Creator THEN "owner" ELSE "none"]
    /\ chat_bans = {}
    /\ chat_invites = [c \in Codes |-> [exists |-> FALSE, member_limit |-> 0, uses |-> 0,
                                        revoked |-> FALSE, expired |-> FALSE]]
    /\ members_count = 1
    /\ req = [r \in Requests |-> Idle]
    /\ unannounced = {}
    /\ admitted = [c \in Codes |-> 0]
    /\ uncounted = [c \in Codes |-> 0]
    /\ lost = FALSE

Goto(r, statement) == req' = [req EXCEPT ![r].pc = statement]
Finish(r)          == req' = [req EXCEPT ![r] = Idle]

-------------------------------------------------------------------------------
(* Arrival of a request.  The early returns that look only at the request  *)
(* (an empty list of ids, acting on oneself) are preconditions here.       *)

StartAdd(r, route, actor, ids, role) ==
    /\ req[r].pc = "idle"
    /\ route \in Routes \cap AddRoutes
    /\ ids # {}
    /\ route = "addGroup" => role = "member"
    /\ req' = [req EXCEPT ![r] = [Idle EXCEPT !.pc = Entry(route), !.route = route,
                                              !.actor = actor, !.todo = ids, !.role = role]]
    /\ UNCHANGED <<db, history>>

StartTarget(r, route, actor, user, role) ==
    /\ req[r].pc = "idle"
    /\ route \in Routes \cap TargetRoutes
    /\ route \in {"setRole", "ban"} => user # actor
    /\ route # "setRole" => role = "member"
    /\ req' = [req EXCEPT ![r] = [Idle EXCEPT !.pc = Entry(route), !.route = route,
                                              !.actor = actor, !.user = user, !.role = role]]
    /\ UNCHANGED <<db, history>>

StartSelf(r, route, actor, code) ==
    /\ req[r].pc = "idle"
    /\ route \in Routes \cap (SelfRoutes \cup InviteRoutes)
    /\ route \notin {"joinInvite", "revokeInvite"} => code = AnyCode
    /\ req' = [req EXCEPT ![r] = [Idle EXCEPT !.pc = Entry(route), !.route = route,
                                              !.actor = actor, !.user = actor, !.code = code]]
    /\ UNCHANGED <<db, history>>

-------------------------------------------------------------------------------
(* Reads: each decides, on what it sees now, whether the request goes on.  *)

RequireAdmin(r) ==
    /\ req[r].pc = "requireAdmin"
    /\ IF chat_members[req[r].actor] \in Admins
       THEN Goto(r, AfterAdmin(req[r].route))
       ELSE Finish(r)
    /\ UNCHANGED <<db, history>>

RequireMember(r) ==
    /\ req[r].pc = "requireMember"
    /\ IF chat_members[req[r].actor] # "none" THEN Goto(r, "readRole") ELSE Finish(r)
    /\ UNCHANGED <<db, history>>

\* Mutant of RequireOwner: the admins may change roles too.
RequireOwnerOrAdmin(r) ==
    /\ req[r].pc = "requireOwner"
    /\ IF chat_members[req[r].actor] \in Admins THEN Goto(r, "updateRole") ELSE Finish(r)
    /\ UNCHANGED <<db, history>>

\* PATCH .../role: only the owner may go on.
RequireOwner(r) ==
    /\ req[r].pc = "requireOwner"
    /\ IF chat_members[req[r].actor] = "owner" THEN Goto(r, "updateRole") ELSE Finish(r)
    /\ UNCHANGED <<db, history>>

\* Mutant of ReadRole: the owner may leave.
ReadAnyRole(r) ==
    /\ req[r].pc = "readRole"
    /\ Goto(r, "deleteMember")
    /\ UNCHANGED <<db, history>>

\* POST /chats/:id/leave: the owner may not go on.
ReadRole(r) ==
    /\ req[r].pc = "readRole"
    /\ IF chat_members[req[r].actor] = "owner" THEN Finish(r) ELSE Goto(r, "deleteMember")
    /\ UNCHANGED <<db, history>>

ReadChannel(r) ==
    /\ req[r].pc = "readChannel"
    /\ IF IsPublic THEN Goto(r, "readBan") ELSE Finish(r)
    /\ UNCHANGED <<db, history>>

\* Mutant of Exhausted: off by one.
OverExhausted(invite) == invite.member_limit # 0 /\ invite.uses > invite.member_limit

Exhausted(invite) == invite.member_limit # 0 /\ invite.uses >= invite.member_limit
Usable(invite)    == invite.exists /\ ~invite.revoked /\ ~invite.expired /\ ~Exhausted(invite)

\* Mutant of ReadInvite: joining looks only at the limit.
ReadInviteLimit(r) ==
    LET invite == chat_invites[req[r].code]
        usable == invite.exists /\ ~Exhausted(invite)
    IN  /\ req[r].pc = "readInvite"
        /\ IF req[r].route = "joinInvite"
           THEN IF usable THEN Goto(r, "readBan") ELSE Finish(r)
           ELSE IF invite.exists THEN Goto(r, "requireAdmin") ELSE Finish(r)
        /\ UNCHANGED <<db, history>>

\* Joining needs a usable link; revoking only one that exists.
ReadInvite(r) ==
    LET invite == chat_invites[req[r].code]
    IN  /\ req[r].pc = "readInvite"
        /\ \/ req[r].route = "joinInvite" /\ Usable(invite) /\ Goto(r, "readBan")
           \/ req[r].route = "revokeInvite" /\ invite.exists /\ Goto(r, "requireAdmin")
           \/ /\ IF req[r].route = "joinInvite" THEN ~Usable(invite) ELSE ~invite.exists
              /\ Finish(r)
        /\ UNCHANGED <<db, history>>

\* The next pass of the loop over ids, or the refresh after the last one.
NextId(todo) == IF todo = {} THEN "refresh" ELSE "readBan"

\* Mutant of ReadBanOfId: the channel route before it honoured chat_bans.
ReadIdOnly(r, u) ==
    /\ req[r].pc = "readBan"
    /\ req[r].route \in AddRoutes
    /\ u \in req[r].todo
    /\ req' = [req EXCEPT ![r] = [@ EXCEPT !.todo = req[r].todo \ {u}, !.user = u,
                                            !.pc = "insertMember"]]
    /\ UNCHANGED <<db, history>>

\* The adding routes skip a banned user and go on with the others; the joining
\* routes refuse the request.
ReadBanOfId(r, u) ==
    /\ req[r].pc = "readBan"
    /\ req[r].route \in AddRoutes
    /\ u \in req[r].todo
    /\ req' = [req EXCEPT ![r] =
                  [@ EXCEPT !.todo = req[r].todo \ {u}, !.user = u,
                            !.pc = IF u \in chat_bans THEN NextId(req[r].todo \ {u})
                                                      ELSE "insertMember"]]
    /\ UNCHANGED <<db, history>>

ReadBanOfCaller(r) ==
    /\ req[r].pc = "readBan"
    /\ req[r].route \notin AddRoutes
    /\ IF req[r].user \in chat_bans THEN Finish(r) ELSE Goto(r, "insertMember")
    /\ UNCHANGED <<db, history>>

ReadTarget(r) ==
    /\ req[r].pc = "readTarget"
    /\ req' = [req EXCEPT ![r] = [@ EXCEPT !.seen = chat_members[req[r].user],
                                           !.pc = "readMe"]]
    /\ UNCHANGED <<db, history>>

\* The ban's decision: on the target's role read before and the caller's now.
ReadMe(r) ==
    /\ req[r].pc = "readMe"
    /\ IF \/ req[r].seen = "owner"
          \/ req[r].seen = "admin" /\ chat_members[req[r].actor] # "owner"
       THEN Finish(r)
       ELSE Goto(r, "insertBan")
    /\ UNCHANGED <<db, history>>

-------------------------------------------------------------------------------
(* Writes.                                                                 *)

\* INSERT ... ON CONFLICT DO NOTHING, except that POST /channels/:id/members
\* overwrites the role of a row that is already there.
InsertedRole(r) ==
    IF chat_members[req[r].user] = "none" \/ req[r].route = "addChannel"
    THEN req[r].role
    ELSE chat_members[req[r].user]

InsertMember(r) ==
    LET u     == req[r].user
        isNew == chat_members[u] = "none"
    IN  /\ req[r].pc = "insertMember"
        /\ chat_members' = [chat_members EXCEPT ![u] = InsertedRole(r)]
        /\ unannounced' = IF isNew THEN unannounced \cup {<<u, "joined">>} ELSE unannounced
        /\ admitted' = IF req[r].route = "joinInvite" /\ isNew
                       THEN [admitted EXCEPT ![req[r].code] = @ + 1] ELSE admitted
        /\ CASE req[r].route \in AddRoutes            -> Goto(r, "publishJoined")
             [] req[r].route = "join"                 -> Goto(r, "refresh")
             [] req[r].route = "joinInvite" /\ isNew  -> Goto(r, "countUse")
             [] OTHER                                 -> Finish(r)
        /\ UNCHANGED <<chat_bans, chat_invites, members_count, uncounted, lost>>

CountUse(r) ==
    /\ req[r].pc = "countUse"
    /\ chat_invites' = [chat_invites EXCEPT ![req[r].code].uses = @ + 1]
    /\ Goto(r, "refresh")
    /\ UNCHANGED <<chat_members, chat_bans, members_count, history>>

\* DELETE /groups/:id/members/:userId spares the owner; leave and ban do not look.
DeleteMember(r) ==
    LET u == req[r].user
    IN  /\ req[r].pc = "deleteMember"
        /\ IF chat_members[u] = "none" \/ (req[r].route = "remove" /\ chat_members[u] = "owner")
           THEN UNCHANGED <<chat_members, unannounced>>
           ELSE /\ chat_members' = [chat_members EXCEPT ![u] = "none"]
                /\ unannounced' = unannounced \cup {<<u, "left">>}
        /\ Goto(r, "refresh")
        /\ UNCHANGED <<chat_bans, chat_invites, members_count, admitted, uncounted, lost>>

UpdateRole(r) ==
    LET u == req[r].user
    IN  /\ req[r].pc = "updateRole"
        /\ chat_members' =
             IF chat_members[u] \in {"none", "owner"}
             THEN chat_members
             ELSE [chat_members EXCEPT ![u] = req[r].role]
        /\ Finish(r)
        /\ UNCHANGED <<chat_bans, chat_invites, members_count, history>>

InsertBan(r) ==
    /\ req[r].pc = "insertBan"
    /\ chat_bans' = chat_bans \cup {req[r].user}
    /\ Goto(r, "deleteMember")
    /\ UNCHANGED <<chat_members, chat_invites, members_count, history>>

DeleteBan(r) ==
    /\ req[r].pc = "deleteBan"
    /\ chat_bans' = chat_bans \ {req[r].user}
    /\ Finish(r)
    /\ UNCHANGED <<chat_members, chat_invites, members_count, history>>

\* A fresh code each time; Codes bounds how many links are ever created.
InsertInvite(r, code, limit) ==
    /\ req[r].pc = "insertInvite"
    /\ IF chat_invites[code].exists
       THEN /\ \A c \in Codes : chat_invites[c].exists
            /\ UNCHANGED chat_invites
       ELSE chat_invites' = [chat_invites EXCEPT ![code] =
                                [@ EXCEPT !.exists = TRUE, !.member_limit = limit]]
    /\ Finish(r)
    /\ UNCHANGED <<chat_members, chat_bans, members_count, history>>

UpdateInvite(r) ==
    /\ req[r].pc = "updateInvite"
    /\ chat_invites' = [chat_invites EXCEPT ![req[r].code].revoked = TRUE]
    /\ Finish(r)
    /\ UNCHANGED <<chat_members, chat_bans, members_count, history>>

\* Mutants of RefreshMembersCount: a counter that is moved by one instead of
\* recounted, and a handler that ends without its event.
RefreshByOne(r) ==
    /\ req[r].pc = "refresh"
    /\ members_count' = IF req[r].route \in {"remove", "leave", "ban"}
                        THEN members_count - 1 ELSE members_count + 1
    /\ lost' = FALSE
    /\ CASE req[r].route \in AddRoutes               -> Finish(r)
         [] req[r].route \in {"join", "joinInvite"}  -> Goto(r, "publishJoined")
         [] OTHER                                    -> Goto(r, "publishLeft")
    /\ UNCHANGED <<chat_members, chat_bans, chat_invites, unannounced, admitted, uncounted>>

RefreshAndFinish(r) ==
    /\ req[r].pc = "refresh"
    /\ members_count' = Cardinality(Members)
    /\ lost' = FALSE
    /\ Finish(r)
    /\ UNCHANGED <<chat_members, chat_bans, chat_invites, unannounced, admitted, uncounted>>

\* refreshMembersCount: one UPDATE whose value is a COUNT(*) subquery.
RefreshMembersCount(r) ==
    /\ req[r].pc = "refresh"
    /\ members_count' = Cardinality(Members)
    /\ lost' = FALSE
    /\ CASE req[r].route \in AddRoutes               -> Finish(r)
         [] req[r].route \in {"join", "joinInvite"}  -> Goto(r, "publishJoined")
         [] OTHER                                    -> Goto(r, "publishLeft")
    /\ UNCHANGED <<chat_members, chat_bans, chat_invites, unannounced, admitted, uncounted>>

\* The adding routes publish inside the loop, before the one refresh at its end.
PublishMemberJoined(r) ==
    /\ req[r].pc = "publishJoined"
    /\ unannounced' = unannounced \ {<<req[r].user, "joined">>}
    /\ IF req[r].route \in AddRoutes
       THEN req' = [req EXCEPT ![r] = [@ EXCEPT !.added = req[r].added \cup {req[r].user},
                                                !.pc = NextId(req[r].todo)]]
       ELSE Finish(r)
    /\ UNCHANGED <<db, admitted, uncounted, lost>>

PublishMemberLeft(r) ==
    /\ req[r].pc = "publishLeft"
    /\ unannounced' = unannounced \ {<<req[r].user, "left">>}
    /\ Finish(r)
    /\ UNCHANGED <<db, admitted, uncounted, lost>>

-------------------------------------------------------------------------------
\* A request that has written chat_members and not yet refreshed the count.
Dirty(r) ==
    \/ req[r].pc \in {"countUse", "refresh"}
    \/ req[r].route \in AddRoutes /\ (req[r].pc = "publishJoined" \/ req[r].added # {})

\* The requests that are on their way from a write to chat_members to its event.
WillPublishJoined(r) ==
    \/ req[r].pc = "publishJoined"
    \/ req[r].route = "joinInvite" /\ req[r].pc \in {"countUse", "refresh"}
    \/ req[r].route = "join" /\ req[r].pc = "refresh"
WillPublishLeft(r) ==
    \/ req[r].pc = "publishLeft"
    \/ req[r].route \in {"remove", "leave", "ban"} /\ req[r].pc = "refresh"

\* The changes whose events the request still owes.
Owed(r) == {change \in {<<req[r].user, "joined">>, <<req[r].user, "left">>} :
               IF change[2] = "joined" THEN WillPublishJoined(r) ELSE WillPublishLeft(r)}

\* A statement or a publish throws, or the process dies: the rest never runs.
\* A join by a link that stops at countUse has its row and no use to show for it.
Abort(r) ==
    /\ MayAbort
    /\ req[r].pc # "idle"
    /\ req[r].pc = "countUse" => uncounted[req[r].code] < MaxUncounted
    /\ lost' = (lost \/ Dirty(r))
    /\ unannounced' = unannounced \ Owed(r)
    /\ uncounted' = IF req[r].pc = "countUse"
                    THEN [uncounted EXCEPT ![req[r].code] = @ + 1] ELSE uncounted
    /\ Finish(r)
    /\ UNCHANGED <<db, admitted>>

\* expires_at passes.
Expire(code) ==
    /\ chat_invites[code].exists
    /\ chat_invites' = [chat_invites EXCEPT ![code].expired = TRUE]
    /\ UNCHANGED <<chat_members, chat_bans, members_count, req, history>>

Start(r) ==
    \/ \E route \in AddRoutes, actor \in Users, ids \in SUBSET Users, role \in {"admin", "member"} :
          StartAdd(r, route, actor, ids, role)
    \/ \E route \in TargetRoutes, actor, user \in Users, role \in {"admin", "member"} :
          StartTarget(r, route, actor, user, role)
    \/ \E route \in SelfRoutes \cup InviteRoutes, actor \in Users, code \in Codes :
          StartSelf(r, route, actor, code)

\* The statement a running request executes next.
Step(r) ==
    \/ RequireAdmin(r) \/ RequireMember(r) \/ RequireOwner(r)
    \/ ReadRole(r) \/ ReadChannel(r) \/ ReadInvite(r) \/ ReadTarget(r) \/ ReadMe(r)
    \/ \E u \in Users : ReadBanOfId(r, u)
    \/ ReadBanOfCaller(r)
    \/ InsertMember(r) \/ DeleteMember(r) \/ UpdateRole(r) \/ CountUse(r)
    \/ InsertBan(r) \/ DeleteBan(r)
    \/ \E code \in Codes, limit \in MemberLimits : InsertInvite(r, code, limit)
    \/ UpdateInvite(r)
    \/ RefreshMembersCount(r) \/ PublishMemberJoined(r) \/ PublishMemberLeft(r)

Next ==
    \/ \E r \in Requests : Start(r) \/ Step(r) \/ Abort(r)
    \/ \E code \in Codes : Expire(code)

Spec == Init /\ [][Next]_vars

-------------------------------------------------------------------------------
(* Properties.                                                             *)

\* Every variable has its type.
TypeOK ==
    /\ chat_members \in [Users -> Roles \cup {"none"}]
    /\ chat_bans \in SUBSET Users
    /\ chat_invites \in [Codes -> Invite]
    /\ members_count \in Nat
    /\ req \in [Requests -> Request]
    /\ unannounced \subseteq Users \X {"joined", "left"}
    /\ admitted \in [Codes -> Nat]
    /\ uncounted \in [Codes -> Nat]
    /\ lost \in BOOLEAN

\* refreshMembersCount keeps chats.members_count exact: it can be wrong only
\* while a handler is between its write to chat_members and its refresh, or
\* after a handler stopped there, until any later handler refreshes.
CountExact ==
    (\A r \in Requests : ~Dirty(r)) /\ ~lost => members_count = Cardinality(Members)

\* "Owner cannot leave the chat", role <> 'owner' in the DELETE and the UPDATE,
\* and "Cannot ban the owner" together: the creator is the owner, and the only
\* one, whatever the requests do.
Ownership == \A u \in Users : chat_members[u] = "owner" <=> u = Creator

\* The request takes its updateRole statement, or is the channel route's upsert.
Writes(r, statement) == req[r].pc = statement /\ req'[r].pc # statement

\* "Only the owner can change roles" (PATCH /groups/:id/members/:userId/role):
\* the role of a user who stays a member changes only by a request of a user
\* who is the owner when it changes.
RoleChangedByOwner ==
    \A u \in Users :
        /\ chat_members[u] # "none" /\ chat_members'[u] # "none"
        /\ chat_members'[u] # chat_members[u]
        => \E r \in Requests : /\ req[r].user = u
                               /\ Writes(r, "updateRole") \/ Writes(r, "insertMember")
                               /\ chat_members[req[r].actor] = "owner"

RoleChangesByOwner == [][RoleChangedByOwner]_vars

\* The joins that have seen the link usable and may still count a use of it:
\* those that have not inserted their user yet, and those that have.
Entering(c) ==
    {r \in Requests : /\ req[r].route = "joinInvite" /\ req[r].code = c
                      /\ req[r].pc \in {"readBan", "insertMember"}}
Counting(c) ==
    {r \in Requests : req[r].route = "joinInvite" /\ req[r].code = c /\ req[r].pc = "countUse"}
Joining(c) == Entering(c) \cup Counting(c)

\* "Invite link usage limit reached" (POST /invites/:code/join): the limit is
\* read before the insert and the use counted after it, so a link brings in
\* more than its limit, but only by two roads: joins that race with the last
\* one it had room for, fewer than there are requests, and one admission more
\* for each join that stopped between its INSERT and its UPDATE of uses.  The
\* users a link has brought in and may still bring in never exceed that.
InviteOvershootBounded ==
    \A c \in Codes : chat_invites[c].member_limit # 0
        => admitted[c] + Cardinality(Entering(c))
             < chat_invites[c].member_limit + Cardinality(Requests) + uncounted[c]

\* Revoking a link, its expiry and its limit are final: from then on it admits
\* nobody, so the uses it has counted and may still count never grow, and it
\* never becomes usable again.
DeadInviteAdmitsNobody ==
    [][\A c \in Codes :
          chat_invites[c].exists /\ ~Usable(chat_invites[c])
          => /\ ~Usable(chat_invites'[c])
             /\ chat_invites'[c].uses + Cardinality(Joining(c))'
                  <= chat_invites[c].uses + Cardinality(Joining(c))]_vars

\* Every committed change of the membership has a handler that is going to
\* publish it, whatever other requests do to the same user meanwhile: only a
\* handler that stops leaves one unpublished.
NoLostAnnouncement ==
    \A u \in Users, change \in {"joined", "left"} :
        <<u, change>> \in unannounced => \E r \in Requests : <<u, change>> \in Owed(r)

\* The requests that have seen no ban of the user and are about to insert them.
Admitting(u) == {r \in Requests : req[r].pc = "insertMember" /\ req[r].user = u}

\* "banned users must be unbanned before re-adding": while a user is banned,
\* only an add or a join that had looked at chat_bans before can bring them in.
BannedStaysOut ==
    [][\A u \in chat_bans \cap chat_bans' :
          Cardinality(Members \cap {u})' + Cardinality(Admitting(u))'
            <= Cardinality(Members \cap {u}) + Cardinality(Admitting(u))]_vars

-------------------------------------------------------------------------------
(* Strengthenings that make the invariants inductive.                      *)

\* The statements a request of the given route goes through.
StatementsOf(route) ==
    CASE route \in AddRoutes     -> {"requireAdmin", "readBan", "insertMember",
                                     "publishJoined", "refresh"}
      [] route = "remove"        -> {"requireAdmin", "deleteMember", "refresh", "publishLeft"}
      [] route = "setRole"       -> {"requireOwner", "updateRole"}
      [] route = "leave"         -> {"requireMember", "readRole", "deleteMember", "refresh",
                                     "publishLeft"}
      [] route = "join"          -> {"readChannel", "readBan", "insertMember", "refresh",
                                     "publishJoined"}
      [] route = "createInvite"  -> {"requireAdmin", "insertInvite"}
      [] route = "revokeInvite"  -> {"readInvite", "requireAdmin", "updateInvite"}
      [] route = "joinInvite"    -> {"readInvite", "readBan", "insertMember", "countUse",
                                     "refresh", "publishJoined"}
      [] route = "ban"           -> {"requireAdmin", "readTarget", "readMe", "insertBan",
                                     "deleteMember", "refresh", "publishLeft"}
      [] OTHER                   -> {"requireAdmin", "deleteBan"}

\* A request is at a statement of its route, and an idle slot holds no request.
ControlOK ==
    \A r \in Requests :
        \/ req[r] = Idle
        \/ /\ req[r].pc \in StatementsOf(req[r].route)
           /\ req[r].route \in Routes
           /\ req[r].role # "owner"
           /\ req[r].route \in SelfRoutes => req[r].user = req[r].actor
           /\ req[r].added # {} => req[r].route \in AddRoutes /\ req[r].pc # "requireAdmin"

\* What a request remembers about the owner when it comes to a write.
OwnerChecked ==
    \A r \in Requests :
        /\ req[r].pc = "insertBan" => req[r].user # Creator
        /\ req[r].pc = "deleteMember" /\ req[r].route # "remove" => req[r].user # Creator
        /\ req[r].pc = "readMe" /\ req[r].user = Creator => req[r].seen = "owner"
        /\ req[r].pc = "updateRole" => req[r].actor = Creator

\* The uses a link has counted and may still count stay within its limit and
\* the requests that race.
UsesBounded ==
    \A c \in Codes : chat_invites[c].member_limit # 0
        => chat_invites[c].uses + Cardinality(Joining(c))
             < chat_invites[c].member_limit + Cardinality(Requests)

\* Every row a link brought in is a use it counted, a join that is about to
\* count it, or a join that stopped before it could.
AdmissionsCounted ==
    \A c \in Codes :
        admitted[c] = chat_invites[c].uses + Cardinality(Counting(c)) + uncounted[c]

\* A join holds a link that was created, and a code nobody created counts no use.
LinksHeld ==
    /\ \A c \in Codes, r \in Requests : r \in Joining(c) => chat_invites[c].exists
    /\ \A c \in Codes : ~chat_invites[c].exists => chat_invites[c].uses = 0

===============================================================================
