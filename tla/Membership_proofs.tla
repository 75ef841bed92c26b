-------------------------- MODULE Membership_proofs --------------------------
(***************************************************************************)
(* Proofs about Membership, for any users, requests, codes and limits.     *)
(***************************************************************************)
EXTENDS Membership, FiniteSetTheorems, TLAPS

-------------------------------------------------------------------------------
(* Types.                                                                  *)

LEMMA IdleType == Idle \in Request /\ Idle.pc = "idle"
  BY ConstantsAssumption
  DEF Idle, Request, Statements, AllRoutes, AddRoutes, TargetRoutes, SelfRoutes, InviteRoutes,
      Roles, Admins, AnyCode

\* Goto and Finish keep a request well formed, and touch only their own.
LEMMA GotoType ==
  ASSUME req \in [Requests -> Request], NEW r \in Requests, NEW s \in Statements, Goto(r, s)
  PROVE  /\ req' \in [Requests -> Request]
         /\ req' = [req EXCEPT ![r].pc = s]
  BY DEF Goto, Request

LEMMA FinishType ==
  ASSUME req \in [Requests -> Request], NEW r \in Requests, Finish(r)
  PROVE  /\ req' \in [Requests -> Request]
         /\ req' = [req EXCEPT ![r] = Idle]
  BY IdleType DEF Finish

\* The two statements of the adding loop that update several fields of a request.
LEMMA LoopType ==
  ASSUME NEW q \in Request, NEW s \in Statements, NEW u \in Users, NEW ids \in SUBSET Users
  PROVE  /\ [q EXCEPT !.todo = ids, !.user = u, !.pc = s] \in Request
         /\ [q EXCEPT !.added = ids, !.pc = s] \in Request
  BY DEF Request

LEMMA MembersFinite == IsFiniteSet(Members) /\ Cardinality(Members) \in Nat
  BY ConstantsAssumption, FS_Subset, FS_CardinalityType DEF Members

LEMMA StartType ==
  ASSUME TypeOK, NEW r \in Requests, Start(r)
  PROVE  TypeOK'
<1>1. ASSUME NEW q \in Request, req' = [req EXCEPT ![r] = q],
             UNCHANGED <<db, history>>
      PROVE  TypeOK'
  BY <1>1 DEF TypeOK, db, history
<1>2. ASSUME NEW route \in AddRoutes, NEW actor \in Users, NEW ids \in SUBSET Users,
             NEW role \in {"admin", "member"}, StartAdd(r, route, actor, ids, role)
      PROVE  TypeOK'
  <2>1. [Idle EXCEPT !.pc = Entry(route), !.route = route, !.actor = actor,
                     !.todo = ids, !.role = role] \in Request
    BY IdleType DEF Request, Entry, Statements, AllRoutes, Roles, Admins
  <2> QED BY <1>1, <1>2, <2>1 DEF StartAdd
<1>3. ASSUME NEW route \in TargetRoutes, NEW actor \in Users, NEW user \in Users,
             NEW role \in {"admin", "member"}, StartTarget(r, route, actor, user, role)
      PROVE  TypeOK'
  <2>1. [Idle EXCEPT !.pc = Entry(route), !.route = route, !.actor = actor,
                     !.user = user, !.role = role] \in Request
    BY IdleType DEF Request, Entry, Statements, AllRoutes, Roles, Admins
  <2> QED BY <1>1, <1>3, <2>1 DEF StartTarget
<1>4. ASSUME NEW route \in SelfRoutes \cup InviteRoutes, NEW actor \in Users,
             NEW code \in Codes, StartSelf(r, route, actor, code)
      PROVE  TypeOK'
  <2>1. [Idle EXCEPT !.pc = Entry(route), !.route = route, !.actor = actor,
                     !.user = actor, !.code = code] \in Request
    BY IdleType DEF Request, Entry, Statements, AllRoutes, Roles, Admins
  <2> QED BY <1>1, <1>4, <2>1 DEF StartSelf
<1> QED BY <1>2, <1>3, <1>4 DEF Start

LEMMA StepType ==
  ASSUME TypeOK, NEW r \in Requests, Step(r)
  PROVE  TypeOK'
<1> USE DEF TypeOK, db, history
<1>1. CASE RequireAdmin(r)
  BY <1>1, GotoType, FinishType DEF RequireAdmin, AfterAdmin, Statements
<1>17. CASE RequireMember(r) \/ ReadRole(r)
  BY <1>17, GotoType, FinishType DEF RequireMember, ReadRole, Statements
<1>18. CASE RequireOwner(r)
  BY <1>18, GotoType, FinishType DEF RequireOwner, Statements
<1>19. CASE ReadChannel(r)
  BY <1>19, GotoType, FinishType DEF ReadChannel, Statements
<1>2. CASE ReadInvite(r)
  BY <1>2, GotoType, FinishType DEF ReadInvite, Statements
<1>3. CASE ReadTarget(r)
  <2> DEFINE role == chat_members[req[r].user]
  <2>2. req[r] \in Request
    OBVIOUS
  <2>3. role \in Roles \cup {"none"}
    BY <2>2 DEF Request
  <2>4. "readMe" \in Statements
    BY DEF Statements
  <2> HIDE DEF role
  <2>1. [req[r] EXCEPT !.seen = role, !.pc = "readMe"] \in Request
    BY <2>2, <2>3, <2>4 DEF Request
  <2> QED BY <1>3, <2>1 DEF ReadTarget, role
<1>16. CASE ReadMe(r)
  BY <1>16, GotoType, FinishType DEF ReadMe, Statements
<1>4. ASSUME NEW u \in Users, ReadBanOfId(r, u) PROVE TypeOK'
  <2> DEFINE pc == IF u \in chat_bans THEN NextId(req[r].todo \ {u}) ELSE "insertMember"
             ids == req[r].todo \ {u}
  <2>1. req[r] \in Request /\ ids \in SUBSET Users
    BY DEF Request
  <2>2. pc \in Statements
    BY DEF Statements, NextId
  <2> HIDE DEF pc, ids
  <2>3. [req[r] EXCEPT !.todo = ids, !.user = u, !.pc = pc] \in Request
    BY <2>1, <2>2, LoopType
  <2>4. req' = [req EXCEPT ![r] = [req[r] EXCEPT !.todo = ids, !.user = u, !.pc = pc]]
    BY <1>4 DEF ReadBanOfId, pc, ids
  <2> QED BY <1>4, <2>3, <2>4 DEF ReadBanOfId
<1>5. CASE ReadBanOfCaller(r)
  BY <1>5, GotoType, FinishType DEF ReadBanOfCaller, Statements
<1>6. CASE InsertMember(r)
  <2>1. req[r].user \in Users /\ req[r].role \in Roles
    BY DEF Request
  <2>2. chat_members' \in [Users -> Roles \cup {"none"}]
    BY <1>6, <2>1 DEF InsertMember, InsertedRole
  <2>3. req' \in [Requests -> Request]
    BY <1>6, GotoType, FinishType DEF InsertMember, Statements
  <2>4. admitted' \in [Codes -> Nat]
    BY <1>6 DEF InsertMember, Request
  <2> QED BY <1>6, <2>1, <2>2, <2>3, <2>4 DEF InsertMember
<1>7. CASE DeleteMember(r)
  <2>1. req[r].user \in Users
    BY DEF Request
  <2>2. req' \in [Requests -> Request]
    BY <1>7, GotoType DEF DeleteMember, Statements
  <2> QED BY <1>7, <2>1, <2>2 DEF DeleteMember
<1>8. CASE UpdateRole(r)
  <2>1. req[r].user \in Users /\ req[r].role \in Roles
    BY DEF Request
  <2> QED BY <1>8, <2>1, FinishType DEF UpdateRole
<1>9. CASE CountUse(r)
  <2>1. req[r].code \in Codes
    BY DEF Request
  <2>2. [chat_invites[req[r].code] EXCEPT !.uses = @ + 1] \in Invite
    BY <2>1 DEF Invite
  <2> QED BY <1>9, <2>1, <2>2, GotoType DEF CountUse, Statements
<1>10. CASE InsertBan(r) \/ DeleteBan(r)
  <2>1. req[r].user \in Users
    BY DEF Request
  <2> QED BY <1>10, <2>1, GotoType, FinishType DEF InsertBan, DeleteBan, Statements
<1>11. ASSUME NEW code \in Codes, NEW limit \in MemberLimits, InsertInvite(r, code, limit)
       PROVE  TypeOK'
  <2>1. [chat_invites[code] EXCEPT !.exists = TRUE, !.member_limit = limit] \in Invite
    BY DEF Invite
  <2> QED BY <1>11, <2>1, FinishType DEF InsertInvite
<1>12. CASE UpdateInvite(r)
  <2>1. req[r].code \in Codes
    BY DEF Request
  <2> QED BY <1>12, <2>1, FinishType DEF UpdateInvite, Invite
<1>13. CASE RefreshMembersCount(r)
  <2>1. req' \in [Requests -> Request]
    BY <1>13, GotoType, FinishType DEF RefreshMembersCount, Statements
  <2> QED BY <1>13, <2>1, MembersFinite DEF RefreshMembersCount
<1>14. CASE PublishMemberJoined(r)
  <2> DEFINE ids  == req[r].added \cup {req[r].user}
             next == NextId(req[r].todo)
  <2>1. /\ req[r] \in Request /\ ids \in SUBSET Users /\ next \in Statements
        /\ req[r].user \in Users
    BY DEF Request, Statements, NextId
  <2>3. \/ req' = [req EXCEPT ![r] = [req[r] EXCEPT !.added = ids, !.pc = next]]
        \/ Finish(r)
    BY <1>14 DEF PublishMemberJoined
  <2> HIDE DEF ids, next
  <2>2. [req[r] EXCEPT !.added = ids, !.pc = next] \in Request
    BY <2>1, LoopType
  <2>4. req' \in [Requests -> Request]
    BY <2>2, <2>3, FinishType
  <2> QED BY <1>14, <2>4 DEF PublishMemberJoined
<1>15. CASE PublishMemberLeft(r)
  BY <1>15, FinishType DEF PublishMemberLeft
<1> QED
  BY <1>1, <1>2, <1>3, <1>16, <1>4, <1>5, <1>6, <1>7, <1>8, <1>9, <1>10, <1>11, <1>12, <1>13,
     <1>14, <1>15, <1>17, <1>18, <1>19
  DEF Step

LEMMA NextType == TypeOK /\ [Next]_vars => TypeOK'
<1> SUFFICES ASSUME TypeOK, [Next]_vars PROVE TypeOK'
  OBVIOUS
<1>1. ASSUME NEW r \in Requests, Start(r) \/ Step(r) PROVE TypeOK'
  BY <1>1, StartType, StepType
<1>2. ASSUME NEW r \in Requests, Abort(r) PROVE TypeOK'
  <2>1. req[r].code \in Codes
    BY DEF TypeOK, Request
  <2>2. uncounted' \in [Codes -> Nat]
    BY <1>2, <2>1 DEF Abort, TypeOK
  <2> QED BY <1>2, <2>2, FinishType DEF TypeOK, Abort, db
<1>3. ASSUME NEW code \in Codes, Expire(code) PROVE TypeOK'
  BY <1>3 DEF TypeOK, Expire, Invite, history
<1>4. CASE UNCHANGED vars
  BY <1>4 DEF TypeOK, vars, history
<1> QED BY <1>1, <1>2, <1>3, <1>4 DEF Next

LEMMA InitType == Init => TypeOK
<1> SUFFICES ASSUME Init PROVE TypeOK
  OBVIOUS
<1>1. chat_members \in [Users -> Roles \cup {"none"}]
  BY DEF Init, Roles, Admins
<1>2. chat_invites \in [Codes -> Invite]
  BY DEF Init, Invite
<1>3. req \in [Requests -> Request]
  BY IdleType DEF Init
<1> QED BY <1>1, <1>2, <1>3 DEF Init, TypeOK

\* The variables keep their types, whatever the requests do.
THEOREM TypeCorrect == Spec => []TypeOK
  BY InitType, NextType, PTL DEF Spec

-------------------------------------------------------------------------------
(* Control: a request only reaches the statements of its own route.        *)

\* The control of the other requests is untouched by a step of r.
LEMMA ControlOfOne ==
  ASSUME TypeOK, ControlOK, NEW r \in Requests, NEW q \in Request, req' = [req EXCEPT ![r] = q],
         \/ q = Idle
         \/ /\ q.pc \in StatementsOf(q.route)
            /\ q.route \in Routes
            /\ q.role # "owner"
            /\ q.route \in SelfRoutes => q.user = q.actor
            /\ q.added # {} => q.route \in AddRoutes /\ q.pc # "requireAdmin"
  PROVE  ControlOK'
  BY DEF TypeOK, ControlOK

\* A step that moves r to another statement of its route, keeping the request.
LEMMA ControlMove ==
  ASSUME TypeOK, ControlOK, NEW r \in Requests, req[r] # Idle, NEW s \in Statements,
         Goto(r, s), s \in StatementsOf(req[r].route),
         req[r].route \in AddRoutes => s # "requireAdmin"
  PROVE  ControlOK'
<1> DEFINE q == [req[r] EXCEPT !.pc = s]
<1>1. req[r] \in Request /\ q \in Request
  BY DEF TypeOK, Request
<1>2. q.pc = s /\ q.route = req[r].route /\ q.role = req[r].role /\ q.user = req[r].user
      /\ q.actor = req[r].actor /\ q.added = req[r].added
  BY <1>1 DEF Request
<1>3. req' = [req EXCEPT ![r] = q]
  BY DEF Goto
<1> HIDE DEF q
<1> QED BY <1>1, <1>2, <1>3, ControlOfOne DEF ControlOK

LEMMA ControlFinish ==
  ASSUME TypeOK, ControlOK, NEW r \in Requests, Finish(r)
  PROVE  ControlOK'
  BY IdleType, ControlOfOne DEF Finish

LEMMA StartControl ==
  ASSUME TypeOK, ControlOK, NEW r \in Requests, Start(r)
  PROVE  ControlOK'
<1>1. ASSUME NEW route \in AddRoutes, NEW actor \in Users, NEW ids \in SUBSET Users,
             NEW role \in {"admin", "member"}, StartAdd(r, route, actor, ids, role)
      PROVE  ControlOK'
  <2> DEFINE q == [Idle EXCEPT !.pc = Entry(route), !.route = route, !.actor = actor,
                               !.todo = ids, !.role = role]
  <2>1. q \in Request
    BY IdleType DEF Request, Entry, Statements, AllRoutes, Roles, Admins
  <2>2. /\ q.pc \in StatementsOf(q.route) /\ q.route \in Routes /\ q.role # "owner"
        /\ q.route \notin SelfRoutes /\ q.added = {}
    BY <1>1, IdleType DEF StartAdd, Entry, StatementsOf, AddRoutes, SelfRoutes, Request, Idle
  <2>3. req' = [req EXCEPT ![r] = q]
    BY <1>1 DEF StartAdd
  <2> HIDE DEF q
  <2> QED BY <2>1, <2>2, <2>3, ControlOfOne
<1>2. ASSUME NEW route \in TargetRoutes, NEW actor \in Users, NEW user \in Users,
             NEW role \in {"admin", "member"}, StartTarget(r, route, actor, user, role)
      PROVE  ControlOK'
  <2> DEFINE q == [Idle EXCEPT !.pc = Entry(route), !.route = route, !.actor = actor,
                               !.user = user, !.role = role]
  <2>1. q \in Request
    BY IdleType DEF Request, Entry, Statements, AllRoutes, Roles, Admins
  <2>2. /\ q.pc \in StatementsOf(q.route) /\ q.route \in Routes /\ q.role # "owner"
        /\ q.route \notin SelfRoutes /\ q.added = {}
    BY <1>2, IdleType DEF StartTarget, Entry, StatementsOf, AddRoutes, TargetRoutes,
                          SelfRoutes, Request, Idle
  <2>3. req' = [req EXCEPT ![r] = q]
    BY <1>2 DEF StartTarget
  <2> HIDE DEF q
  <2> QED BY <2>1, <2>2, <2>3, ControlOfOne
<1>3. ASSUME NEW route \in SelfRoutes \cup InviteRoutes, NEW actor \in Users,
             NEW code \in Codes, StartSelf(r, route, actor, code)
      PROVE  ControlOK'
  <2> DEFINE q == [Idle EXCEPT !.pc = Entry(route), !.route = route, !.actor = actor,
                               !.user = actor, !.code = code]
  <2>1. q \in Request
    BY IdleType DEF Request, Entry, Statements, AllRoutes, Roles, Admins
  <2>2. /\ q.pc \in StatementsOf(q.route) /\ q.route \in Routes /\ q.role # "owner"
        /\ q.user = q.actor /\ q.added = {}
    BY <1>3, IdleType DEF StartSelf, Entry, StatementsOf, AddRoutes, InviteRoutes,
                          SelfRoutes, Request, Idle
  <2>3. req' = [req EXCEPT ![r] = q]
    BY <1>3 DEF StartSelf
  <2> HIDE DEF q
  <2> QED BY <2>1, <2>2, <2>3, ControlOfOne
<1> QED BY <1>1, <1>2, <1>3 DEF Start

LEMMA StepControl ==
  ASSUME TypeOK, ControlOK, NEW r \in Requests, Step(r)
  PROVE  ControlOK'
<1> DEFINE route == req[r].route
<1>0. /\ req[r] # Idle /\ req[r].pc \in StatementsOf(route) /\ req[r] \in Request
      /\ route \in AllRoutes
  BY IdleType DEF ControlOK, TypeOK, Request, Step, RequireAdmin, RequireMember, RequireOwner,
     ReadRole, ReadChannel, ReadInvite, ReadTarget, ReadMe, ReadBanOfId, ReadBanOfCaller,
     InsertMember, DeleteMember, UpdateRole, CountUse, InsertBan, DeleteBan, InsertInvite,
     UpdateInvite, RefreshMembersCount, PublishMemberJoined, PublishMemberLeft
<1> USE DEF AllRoutes, AddRoutes, TargetRoutes, SelfRoutes, InviteRoutes, StatementsOf, Statements
<1>1. CASE RequireAdmin(r) \/ RequireMember(r) \/ RequireOwner(r)
  BY <1>0, <1>1, ControlMove, ControlFinish
  DEF RequireAdmin, RequireMember, RequireOwner, AfterAdmin
<1>2. CASE ReadRole(r) \/ ReadChannel(r) \/ ReadInvite(r)
  BY <1>0, <1>2, ControlMove, ControlFinish DEF ReadRole, ReadChannel, ReadInvite
<1>3. CASE ReadTarget(r)
  <2> DEFINE q == [req[r] EXCEPT !.seen = chat_members[req[r].user], !.pc = "readMe"]
  <2>1. q \in Request
    BY <1>0 DEF Request, TypeOK
  <2>2. /\ q.pc = "readMe" /\ q.route = route /\ q.role = req[r].role /\ q.user = req[r].user
        /\ q.actor = req[r].actor /\ q.added = req[r].added
    BY <1>0 DEF Request
  <2>3. req' = [req EXCEPT ![r] = q] /\ q.pc \in StatementsOf(q.route)
    BY <1>0, <1>3, <2>2 DEF ReadTarget
  <2> HIDE DEF q
  <2> QED BY ZenonT(60), <1>0, <2>1, <2>2, <2>3, ControlOfOne DEF ControlOK
<1>4. CASE ReadMe(r)
  BY <1>0, <1>4, ControlMove, ControlFinish DEF ReadMe
<1>5. ASSUME NEW u \in Users, ReadBanOfId(r, u) PROVE ControlOK'
  <2> DEFINE pc  == IF u \in chat_bans THEN NextId(req[r].todo \ {u}) ELSE "insertMember"
             ids == req[r].todo \ {u}
             q   == [req[r] EXCEPT !.todo = ids, !.user = u, !.pc = pc]
  <2>1. ids \in SUBSET Users /\ pc \in {"refresh", "readBan", "insertMember"}
    BY <1>0 DEF Request, NextId
  <2>2. q \in Request
    BY <1>0, <2>1, LoopType
  <2>3. /\ q.pc = pc /\ q.route = route /\ q.role = req[r].role
    BY <1>0 DEF Request
  <2>4. /\ req' = [req EXCEPT ![r] = q] /\ route \in AddRoutes
        /\ q.pc \in StatementsOf(q.route) /\ q.route \notin SelfRoutes /\ q.pc # "requireAdmin"
    BY <1>0, <1>5, <2>1, <2>3 DEF ReadBanOfId
  <2> HIDE DEF q
  <2> QED BY <1>0, <2>2, <2>3, <2>4, ControlOfOne DEF ControlOK
<1>6. CASE ReadBanOfCaller(r)
  BY <1>0, <1>6, ControlMove, ControlFinish DEF ReadBanOfCaller
<1>7. CASE InsertMember(r)
  BY <1>0, <1>7, ControlMove, ControlFinish DEF InsertMember
<1>8. CASE DeleteMember(r) \/ UpdateRole(r) \/ CountUse(r) \/ InsertBan(r) \/ DeleteBan(r)
  BY <1>0, <1>8, ControlMove, ControlFinish
  DEF DeleteMember, UpdateRole, CountUse, InsertBan, DeleteBan
<1>9. ASSUME NEW code \in Codes, NEW limit \in MemberLimits, InsertInvite(r, code, limit)
      PROVE  ControlOK'
  BY <1>9, ControlFinish DEF InsertInvite
<1>10. CASE UpdateInvite(r) \/ PublishMemberLeft(r)
  BY <1>10, ControlFinish DEF UpdateInvite, PublishMemberLeft
<1>11. CASE RefreshMembersCount(r)
  BY <1>0, <1>11, ControlMove, ControlFinish DEF RefreshMembersCount
<1>12. CASE PublishMemberJoined(r)
  <2> DEFINE ids  == req[r].added \cup {req[r].user}
             next == NextId(req[r].todo)
             q    == [req[r] EXCEPT !.added = ids, !.pc = next]
  <2>1. /\ ids \in SUBSET Users /\ next \in {"refresh", "readBan"} /\ req[r].user \in Users
    BY <1>0 DEF Request, NextId
  <2>2. q \in Request
    BY <1>0, <2>1, LoopType
  <2>3. /\ q.pc = next /\ q.route = route /\ q.role = req[r].role
    BY <1>0 DEF Request
  <2>4. CASE route \in AddRoutes
    <3>1. /\ req' = [req EXCEPT ![r] = q] /\ q.pc \in StatementsOf(q.route)
          /\ q.route \notin SelfRoutes /\ q.pc # "requireAdmin"
      BY <1>0, <1>12, <2>1, <2>3, <2>4 DEF PublishMemberJoined
    <3> HIDE DEF q
    <3>2. q.route \in Routes /\ q.role # "owner" /\ q.route \in AddRoutes
      BY <1>0, <2>3, <2>4 DEF ControlOK
    <3> QED BY <2>2, <3>1, <3>2, ControlOfOne
  <2>5. CASE route \notin AddRoutes
    BY <1>12, <2>5, ControlFinish DEF PublishMemberJoined
  <2> QED BY <2>4, <2>5
<1> QED
  BY <1>1, <1>2, <1>3, <1>4, <1>5, <1>6, <1>7, <1>8, <1>9, <1>10, <1>11, <1>12 DEF Step

LEMMA ControlInvariant == Spec => []ControlOK
<1>1. Init => ControlOK
  BY DEF Init, ControlOK
<1>2. TypeOK /\ ControlOK /\ [Next]_vars => ControlOK'
  <2> SUFFICES ASSUME TypeOK, ControlOK, [Next]_vars PROVE ControlOK'
    OBVIOUS
  <2>1. ASSUME NEW r \in Requests, Start(r) \/ Step(r) \/ Abort(r) PROVE ControlOK'
    BY <2>1, StartControl, StepControl, ControlFinish DEF Abort
  <2>2. CASE (\E code \in Codes : Expire(code)) \/ UNCHANGED vars
    BY <2>2 DEF Expire, vars, history, ControlOK
  <2> QED BY <2>1, <2>2 DEF Next
<1> QED BY <1>1, <1>2, TypeCorrect, PTL DEF Spec

-------------------------------------------------------------------------------
(* members_count is exact when no handler is between its write and its     *)
(* refresh: every statement that changes who is a member leaves its own    *)
(* request dirty, and a request stops being dirty only by refreshing or by *)
(* stopping, which lost records.                                           *)

\* A step that keeps the members, the count and the dirt keeps the invariant.
LEMMA QuietStep ==
  ASSUME CountExact, UNCHANGED <<members_count, lost>>, Members' = Members,
         \A r \in Requests : Dirty(r) => Dirty(r)'
  PROVE  CountExact'
  BY DEF CountExact

\* A step that leaves a request dirty keeps it, whatever it writes.
LEMMA DirtyStep ==
  ASSUME NEW r \in Requests, Dirty(r)'
  PROVE  CountExact'
  BY DEF CountExact

LEMMA CleanUntilWrite ==
  ASSUME TypeOK, ControlOK, NEW r \in Requests,
         req[r].pc \notin {"countUse", "refresh"}, req[r].route \notin AddRoutes
  PROVE  ~Dirty(r)
  BY DEF Dirty

LEMMA GotoFields ==
  ASSUME TypeOK, NEW r \in Requests, NEW s \in Statements, Goto(r, s)
  PROVE  /\ \A p \in Requests \ {r} : req'[p] = req[p]
         /\ req'[r].pc = s /\ req'[r].route = req[r].route /\ req'[r].added = req[r].added
         /\ req'[r].user = req[r].user /\ req'[r].actor = req[r].actor
         /\ req'[r].seen = req[r].seen /\ req'[r].code = req[r].code
         /\ req'[r].role = req[r].role /\ req'[r].todo = req[r].todo
  BY DEF TypeOK, Goto, Request

LEMMA FinishFields ==
  ASSUME TypeOK, NEW r \in Requests, Finish(r)
  PROVE  /\ \A p \in Requests \ {r} : req'[p] = req[p]
         /\ req'[r] = Idle
  BY DEF TypeOK, Finish

\* What InsertMember, and the statements after it, mean for the set of members.
LEMMA SameMembers ==
  ASSUME TypeOK, TypeOK', \A u \in Users : chat_members[u] = "none" <=> chat_members'[u] = "none"
  PROVE  Members' = Members
  BY DEF Members

LEMMA StepCount ==
  ASSUME TypeOK, TypeOK', ControlOK, CountExact, NEW r \in Requests, Step(r)
  PROVE  CountExact'
<1> DEFINE route == req[r].route
<1>0. /\ req[r].pc \in StatementsOf(route) /\ req[r] \in Request /\ route \in AllRoutes
      /\ req[r].user \in Users
  BY IdleType DEF ControlOK, TypeOK, Request, Step, RequireAdmin, RequireMember, RequireOwner,
     ReadRole, ReadChannel, ReadInvite, ReadTarget, ReadMe, ReadBanOfId, ReadBanOfCaller,
     InsertMember, DeleteMember, UpdateRole, CountUse, InsertBan, DeleteBan, InsertInvite,
     UpdateInvite, RefreshMembersCount, PublishMemberJoined, PublishMemberLeft
<1> USE DEF AllRoutes, AddRoutes, TargetRoutes, SelfRoutes, InviteRoutes, Statements
<1>1. ASSUME UNCHANGED <<members_count, lost>>, Members' = Members,
             Dirty(r) => Dirty(r)', \A p \in Requests \ {r} : req'[p] = req[p]
      PROVE  CountExact'
  <2>1. \A p \in Requests : Dirty(p) => Dirty(p)'
    BY <1>1 DEF Dirty
  <2> QED BY <1>1, <2>1, QuietStep
<1>2. ASSUME UNCHANGED <<chat_members, members_count, lost>>, ~Dirty(r),
             \A p \in Requests \ {r} : req'[p] = req[p]
      PROVE  CountExact'
  BY <1>1, <1>2 DEF Members
<1>3. CASE req[r].pc = "requireAdmin"
  <2>1. ~Dirty(r)
    BY <1>0, <1>3, IdleType DEF Dirty, ControlOK
  <2>2. RequireAdmin(r)
    BY <1>3 DEF Step, RequireAdmin, RequireMember, RequireOwner, ReadRole, ReadChannel,
     ReadInvite, ReadTarget, ReadMe, ReadBanOfId, ReadBanOfCaller,
     InsertMember, DeleteMember, UpdateRole, CountUse, InsertBan, DeleteBan, InsertInvite,
     UpdateInvite, RefreshMembersCount, PublishMemberJoined, PublishMemberLeft
  <2>3. \A p \in Requests \ {r} : req'[p] = req[p]
    BY <1>0, <2>2, GotoFields, FinishFields DEF RequireAdmin, AfterAdmin
  <2> QED BY <1>2, <2>1, <2>2, <2>3 DEF RequireAdmin, db, history
<1>4. CASE \/ RequireMember(r) \/ RequireOwner(r) \/ ReadRole(r) \/ ReadChannel(r) \/ ReadInvite(r)
           \/ ReadTarget(r) \/ ReadMe(r) \/ InsertBan(r) \/ DeleteBan(r)
           \/ UpdateInvite(r) \/ PublishMemberLeft(r)
           \/ \E code \in Codes, limit \in MemberLimits : InsertInvite(r, code, limit)
  <2>1. /\ req[r].pc \notin {"countUse", "refresh"} /\ route \notin AddRoutes
        /\ UNCHANGED <<chat_members, members_count, lost>>
    BY <1>0, <1>4
    DEF StatementsOf, db, history, RequireMember, RequireOwner, ReadRole, ReadChannel, ReadInvite,
        ReadTarget, ReadMe, InsertBan, DeleteBan, UpdateInvite, PublishMemberLeft, InsertInvite
  <2>2. \A p \in Requests \ {r} : req'[p] = req[p]
    BY ZenonT(60), <1>4, GotoFields, FinishFields
    DEF TypeOK, RequireMember, RequireOwner, ReadRole, ReadChannel, ReadInvite,
        ReadTarget, ReadMe, InsertBan, DeleteBan, UpdateInvite, PublishMemberLeft, InsertInvite
  <2> QED BY <1>2, <2>1, <2>2, CleanUntilWrite
<1>5. ASSUME NEW u \in Users, ReadBanOfId(r, u) PROVE CountExact'
  <2>1. /\ req'[r].route = route /\ req'[r].added = req[r].added
        /\ req'[r].pc \in {"refresh", "readBan", "insertMember"}
        /\ \A p \in Requests \ {r} : req'[p] = req[p]
    BY <1>0, <1>5 DEF ReadBanOfId, NextId, TypeOK, Request
  <2>2. Dirty(r) => Dirty(r)'
    BY <1>5, <2>1 DEF Dirty, ReadBanOfId
  <2>3. UNCHANGED <<members_count, lost>> /\ Members' = Members
    BY <1>5 DEF ReadBanOfId, db, history, Members
  <2> QED BY <1>1, <2>1, <2>2, <2>3
<1>6. CASE ReadBanOfCaller(r)
  <2>1. req[r].pc = "readBan" /\ route \notin AddRoutes
    BY <1>6 DEF ReadBanOfCaller
  <2>2. \A p \in Requests \ {r} : req'[p] = req[p]
    BY <1>6, GotoFields, FinishFields DEF ReadBanOfCaller
  <2> QED BY <1>2, <1>6, <2>1, <2>2, CleanUntilWrite DEF ReadBanOfCaller, db, history
<1>7. CASE InsertMember(r)
  <2>1. CASE route \in AddRoutes
    <3>1. req'[r].pc = "publishJoined" /\ req'[r].route = route
      BY <1>7, <2>1, GotoFields DEF InsertMember
    <3> QED BY <2>1, <3>1, DirtyStep DEF Dirty
  <2>2. CASE route = "join" \/ (route = "joinInvite" /\ chat_members[req[r].user] = "none")
    <3>1. req'[r].pc \in {"refresh", "countUse"}
      BY <1>7, <2>2, GotoFields DEF InsertMember
    <3> QED BY <3>1, DirtyStep DEF Dirty
  <2>3. CASE route = "joinInvite" /\ chat_members[req[r].user] # "none"
    <3>1. Finish(r) /\ UNCHANGED chat_members
      BY <1>0, <1>7, <2>3 DEF InsertMember, InsertedRole, TypeOK
    <3>2. req[r].pc \notin {"countUse", "refresh"}
      BY <1>7 DEF InsertMember
    <3> QED BY <1>2, <1>7, <2>3, <3>1, <3>2, FinishFields, CleanUntilWrite DEF InsertMember
  <2> QED BY <1>0, <1>7, <2>1, <2>2, <2>3 DEF InsertMember, StatementsOf
<1>8. CASE DeleteMember(r)
  BY <1>8, GotoFields, DirtyStep DEF DeleteMember, Dirty
<1>9. CASE UpdateRole(r)
  <2>1. req[r].pc = "updateRole" /\ route \notin AddRoutes
    BY <1>0, <1>9 DEF UpdateRole, StatementsOf
  <2>2. Members' = Members
    <3>1. \A u \in Users : chat_members[u] = "none" <=> chat_members'[u] = "none"
      BY <1>0, <1>9 DEF UpdateRole, TypeOK, Request, Roles, Admins
    <3> QED BY <3>1, SameMembers
  <2>3. \A p \in Requests \ {r} : req'[p] = req[p]
    BY <1>9, FinishFields DEF UpdateRole
  <2> QED BY <1>1, <1>9, <2>1, <2>2, <2>3, CleanUntilWrite DEF UpdateRole, history
<1>10. CASE CountUse(r)
  BY <1>10, GotoFields, DirtyStep DEF CountUse, Dirty
<1>11. CASE RefreshMembersCount(r)
  <2>1. Members' = Members
    BY <1>11 DEF RefreshMembersCount, Members
  <2> QED BY <1>11, <2>1 DEF RefreshMembersCount, CountExact
<1>12. CASE PublishMemberJoined(r)
  <2>1. UNCHANGED <<chat_members, members_count, lost>>
    BY <1>12 DEF PublishMemberJoined, db, history
  <2>2. CASE route \in AddRoutes
    <3> DEFINE ids  == req[r].added \cup {req[r].user}
               next == NextId(req[r].todo)
               q    == [req[r] EXCEPT !.added = ids, !.pc = next]
    <3>1. q.route = route /\ q.added = ids
      BY <1>0 DEF Request
    <3>2. req' = [req EXCEPT ![r] = q]
      BY <1>12, <2>2 DEF PublishMemberJoined
    <3>3. ids # {}
      OBVIOUS
    <3> HIDE DEF q, ids
    <3>4. req'[r] = q
      BY <3>2 DEF TypeOK
    <3> QED BY <2>2, <3>1, <3>3, <3>4, DirtyStep DEF Dirty
  <2>3. CASE route \notin AddRoutes
    BY <1>2, <1>12, <2>1, <2>3, FinishFields, CleanUntilWrite DEF PublishMemberJoined
  <2> QED BY <2>2, <2>3
<1> QED
  BY <1>3, <1>4, <1>5, <1>6, <1>7, <1>8, <1>9, <1>10, <1>11, <1>12 DEF Step, RequireAdmin

\* chats.members_count is the number of members, unless a handler is between its
\* write and its refresh or one stopped there and none has refreshed since.
THEOREM CountIsExact == Spec => []CountExact
<1>1. Init => CountExact
  <2> SUFFICES ASSUME Init PROVE members_count = Cardinality(Members)
    BY DEF CountExact
  <2>1. Members = {Creator}
    BY ConstantsAssumption DEF Init, Members
  <2> QED BY <2>1, FS_Singleton DEF Init
<1>2. TypeOK /\ TypeOK' /\ ControlOK /\ CountExact /\ [Next]_vars => CountExact'
  <2> SUFFICES ASSUME TypeOK, TypeOK', ControlOK, CountExact, [Next]_vars PROVE CountExact'
    OBVIOUS
  <2>1. ASSUME NEW r \in Requests, Start(r) PROVE CountExact'
    <3>5. req[r].pc = "idle"
      BY <2>1 DEF Start, StartAdd, StartTarget, StartSelf, history
    <3>6. req[r] = Idle
      BY <3>5 DEF ControlOK, StatementsOf
    <3>1. ~Dirty(r)
      BY <3>6 DEF Dirty, Idle, AddRoutes
    <3>2. UNCHANGED <<chat_members, members_count, lost>>
      BY <2>1 DEF Start, StartAdd, StartTarget, StartSelf, db, history
    <3>3. \A p \in Requests \ {r} : req'[p] = req[p]
      BY <2>1 DEF Start, StartAdd, StartTarget, StartSelf, TypeOK
    <3>4. \A p \in Requests : Dirty(p) => Dirty(p)'
      BY <3>1, <3>3 DEF Dirty
    <3> QED BY <3>2, <3>4, QuietStep DEF Members
  <2>2. ASSUME NEW r \in Requests, Step(r) PROVE CountExact'
    BY <2>2, StepCount
  <2>3. ASSUME NEW r \in Requests, Abort(r) PROVE CountExact'
    <3>1. CASE Dirty(r)
      BY <2>3, <3>1 DEF Abort, CountExact
    <3>2. CASE ~Dirty(r)
      <4>1. UNCHANGED <<chat_members, members_count, lost>>
        BY <2>3, <3>2 DEF Abort, db, history, TypeOK
      <4>2. \A p \in Requests : Dirty(p) => Dirty(p)'
        BY <2>3, <3>2, FinishFields DEF Abort, Dirty
      <4> QED BY <4>1, <4>2, QuietStep DEF Members
    <3> QED BY <3>1, <3>2
  <2>4. CASE (\E code \in Codes : Expire(code)) \/ UNCHANGED vars
    BY <2>4, QuietStep DEF Expire, vars, history, Members, Dirty
  <2> QED BY <2>1, <2>2, <2>3, <2>4 DEF Next
<1> QED BY <1>1, <1>2, TypeCorrect, ControlInvariant, PTL DEF Spec

-------------------------------------------------------------------------------
(* Ownership.  Each guard that protects the owner runs before the write it *)
(* protects, so the invariant has to carry what a request already knows of *)
(* the owner when it comes to its write: OwnerChecked.                     *)

Guarded == {"insertBan", "deleteMember", "readMe", "updateRole"}

\* The request knows what it must before the statement it is at.
Knows(r) ==
    /\ req[r].pc = "insertBan" => req[r].user # Creator
    /\ req[r].pc = "deleteMember" /\ req[r].route # "remove" => req[r].user # Creator
    /\ req[r].pc = "readMe" /\ req[r].user = Creator => req[r].seen = "owner"
    /\ req[r].pc = "updateRole" => req[r].actor = Creator

\* A step of r keeps what the others know.
LEMMA OwnerFrame ==
  ASSUME OwnerChecked, NEW r \in Requests, \A p \in Requests \ {r} : req'[p] = req[p], Knows(r)'
  PROVE  OwnerChecked'
  BY DEF OwnerChecked, Knows

LEMMA UnguardedKnows ==
  ASSUME NEW r \in Requests, req'[r].pc \notin Guarded
  PROVE  Knows(r)'
  BY DEF Knows, Guarded

LEMMA IdleFinish ==
  ASSUME TypeOK, NEW r \in Requests, Finish(r)
  PROVE  Knows(r)' /\ \A p \in Requests \ {r} : req'[p] = req[p]
  BY FinishFields, IdleType, UnguardedKnows DEF Guarded

\* A request starts at the first statement of its route.
LEMMA StartShape ==
  ASSUME TypeOK, NEW r \in Requests, Start(r)
  PROVE  \E route \in AllRoutes, q \in Request : req' = [req EXCEPT ![r] = q] /\ q.pc = Entry(route)
<1> USE DEF AllRoutes
<1>1. ASSUME NEW route \in AddRoutes, NEW actor \in Users, NEW ids \in SUBSET Users,
             NEW role \in {"admin", "member"}, StartAdd(r, route, actor, ids, role)
      PROVE  \E q \in Request : req' = [req EXCEPT ![r] = q] /\ q.pc = Entry(route)
  <2> DEFINE q == [Idle EXCEPT !.pc = Entry(route), !.route = route, !.actor = actor,
                               !.todo = ids, !.role = role]
  <2>1. q \in Request /\ q.pc = Entry(route)
    BY IdleType DEF Request, Entry, Statements, Roles, Admins
  <2> QED BY <1>1, <2>1 DEF StartAdd
<1>2. ASSUME NEW route \in TargetRoutes, NEW actor \in Users, NEW user \in Users,
             NEW role \in {"admin", "member"}, StartTarget(r, route, actor, user, role)
      PROVE  \E q \in Request : req' = [req EXCEPT ![r] = q] /\ q.pc = Entry(route)
  <2> DEFINE q == [Idle EXCEPT !.pc = Entry(route), !.route = route, !.actor = actor,
                               !.user = user, !.role = role]
  <2>1. q \in Request /\ q.pc = Entry(route)
    BY IdleType DEF Request, Entry, Statements, Roles, Admins
  <2> QED BY <1>2, <2>1 DEF StartTarget
<1>3. ASSUME NEW route \in SelfRoutes \cup InviteRoutes, NEW actor \in Users,
             NEW code \in Codes, StartSelf(r, route, actor, code)
      PROVE  \E q \in Request : req' = [req EXCEPT ![r] = q] /\ q.pc = Entry(route)
  <2> DEFINE q == [Idle EXCEPT !.pc = Entry(route), !.route = route, !.actor = actor,
                               !.user = actor, !.code = code]
  <2>1. q \in Request /\ q.pc = Entry(route)
    BY IdleType DEF Request, Entry, Statements, Roles, Admins
  <2> QED BY <1>3, <2>1 DEF StartSelf
<1> QED BY <1>1, <1>2, <1>3 DEF Start

LEMMA StepOwner ==
  ASSUME "addChannel" \notin Routes, TypeOK, ControlOK, Ownership, OwnerChecked,
         NEW r \in Requests, Step(r)
  PROVE  Ownership' /\ OwnerChecked'
<1> DEFINE route == req[r].route
           u     == req[r].user
<1>0. /\ req[r].pc \in StatementsOf(route) /\ req[r] \in Request /\ route \in AllRoutes
      /\ u \in Users /\ route # "addChannel" /\ req[r].role # "owner"
      /\ route \in SelfRoutes => u = req[r].actor
      /\ req[r].actor \in Users
  BY IdleType DEF ControlOK, TypeOK, Request, Step, RequireAdmin, RequireMember, RequireOwner,
     ReadRole, ReadChannel, ReadInvite, ReadTarget, ReadMe, ReadBanOfId, ReadBanOfCaller,
     InsertMember, DeleteMember, UpdateRole, CountUse, InsertBan, DeleteBan, InsertInvite,
     UpdateInvite, RefreshMembersCount, PublishMemberJoined, PublishMemberLeft
<1>a. Knows(r)
  BY DEF OwnerChecked, Knows
<1> USE DEF AllRoutes, AddRoutes, TargetRoutes, SelfRoutes, InviteRoutes, Statements
<1>b. ASSUME UNCHANGED chat_members, Knows(r)', \A p \in Requests \ {r} : req'[p] = req[p]
      PROVE  Ownership' /\ OwnerChecked'
  BY <1>b, OwnerFrame DEF Ownership
<1>1. CASE RequireAdmin(r)
  <2>1. CASE Goto(r, AfterAdmin(route))
    <3>1. AfterAdmin(route) \in Statements
      BY DEF AfterAdmin
    <3>2. /\ req'[r].pc = AfterAdmin(route) /\ req'[r].route = route
          /\ \A p \in Requests \ {r} : req'[p] = req[p]
      BY <2>1, <3>1, GotoFields
    <3>3. \/ AfterAdmin(route) \notin Guarded
          \/ route = "remove" /\ AfterAdmin(route) = "deleteMember"
      BY DEF AfterAdmin, Guarded
    <3>4. Knows(r)'
      BY <3>2, <3>3 DEF Knows, Guarded
    <3> QED BY <1>1, <1>b, <3>2, <3>4 DEF RequireAdmin, db, history
  <2>2. CASE Finish(r)
    BY <1>1, <1>b, <2>2, IdleFinish DEF RequireAdmin, db, history
  <2> QED BY <1>1, <2>1, <2>2 DEF RequireAdmin
<1>2. CASE RequireMember(r) \/ ReadChannel(r) \/ ReadInvite(r) \/ ReadBanOfCaller(r)
  BY <1>2, <1>b, IdleFinish, GotoFields, UnguardedKnows
  DEF RequireMember, ReadChannel, ReadInvite, ReadBanOfCaller, Guarded, db, history
<1>3. CASE RequireOwner(r)
  BY <1>0, <1>3, <1>b, IdleFinish, GotoFields DEF RequireOwner, Knows, Ownership, db, history
<1>4. CASE ReadRole(r)
  <2>1. u = req[r].actor
    BY <1>0, <1>4 DEF ReadRole, StatementsOf
  <2> QED BY <1>0, <1>4, <1>b, <2>1, IdleFinish, GotoFields DEF ReadRole, Knows, Ownership, db, history
<1>5. CASE ReadTarget(r)
  <2> DEFINE q == [req[r] EXCEPT !.seen = chat_members[req[r].user], !.pc = "readMe"]
  <2>1. req' = [req EXCEPT ![r] = q]
    BY <1>5 DEF ReadTarget
  <2>2. q.pc = "readMe" /\ q.user = u /\ q.seen = chat_members[u]
    BY <1>0 DEF Request
  <2> HIDE DEF q
  <2>3. req'[r] = q /\ \A p \in Requests \ {r} : req'[p] = req[p]
    BY <2>1 DEF TypeOK
  <2>4. Knows(r)'
    BY <1>0, <2>2, <2>3 DEF Knows, Ownership
  <2> QED BY <1>5, <1>b, <2>3, <2>4 DEF ReadTarget, db, history
<1>6. CASE ReadMe(r)
  <2>1. ASSUME Goto(r, "insertBan"), req[r].seen # "owner" PROVE Knows(r)'
    BY <1>6, <1>a, <2>1, GotoFields DEF ReadMe, Knows
  <2> QED BY <1>6, <1>b, <2>1, IdleFinish, GotoFields DEF ReadMe, db, history
<1>7. ASSUME NEW id \in Users, ReadBanOfId(r, id) PROVE Ownership' /\ OwnerChecked'
  <2>1. /\ req'[r].pc \in {"refresh", "readBan", "insertMember"}
        /\ \A p \in Requests \ {r} : req'[p] = req[p]
    BY <1>0, <1>7 DEF ReadBanOfId, NextId, TypeOK, Request
  <2> QED BY <1>7, <1>b, <2>1, UnguardedKnows DEF ReadBanOfId, Guarded, db, history
<1>8. CASE InsertMember(r)
  <2>1. Knows(r)' /\ \A p \in Requests \ {r} : req'[p] = req[p]
    BY <1>8, IdleFinish, GotoFields, UnguardedKnows DEF InsertMember, Guarded
  <2>2. chat_members' = [chat_members EXCEPT ![u] = InsertedRole(r)]
    BY <1>8 DEF InsertMember
  <2>3. IF chat_members[u] = "none" THEN InsertedRole(r) # "owner" ELSE InsertedRole(r) = chat_members[u]
    BY <1>0 DEF InsertedRole
  <2>4. Ownership'
    BY <1>0, <2>2, <2>3 DEF Ownership, TypeOK
  <2> QED BY <2>1, <2>4, OwnerFrame
<1>9. CASE DeleteMember(r)
  <2>1. Knows(r)' /\ \A p \in Requests \ {r} : req'[p] = req[p]
    BY <1>9, GotoFields, UnguardedKnows DEF DeleteMember, Guarded
  <2>2. route = "remove" \/ u # Creator
    BY <1>9, <1>a DEF DeleteMember, Knows
  <2>3. Ownership'
    BY <1>0, <1>9, <2>2 DEF DeleteMember, Ownership, TypeOK
  <2> QED BY <2>1, <2>3, OwnerFrame
<1>10. CASE UpdateRole(r)
  <2>1. Knows(r)' /\ \A p \in Requests \ {r} : req'[p] = req[p]
    BY <1>10, IdleFinish DEF UpdateRole
  <2>2. Ownership'
    BY <1>0, <1>10 DEF UpdateRole, Ownership, TypeOK
  <2> QED BY <2>1, <2>2, OwnerFrame
<1>11. CASE InsertBan(r)
  BY <1>11, <1>a, <1>b, GotoFields DEF InsertBan, Knows
<1>12. CASE \/ CountUse(r) \/ DeleteBan(r) \/ UpdateInvite(r) \/ RefreshMembersCount(r)
            \/ PublishMemberLeft(r)
            \/ \E code \in Codes, limit \in MemberLimits : InsertInvite(r, code, limit)
  BY <1>12, <1>b, IdleFinish, GotoFields, UnguardedKnows
  DEF CountUse, DeleteBan, UpdateInvite, RefreshMembersCount, PublishMemberLeft, InsertInvite,
      Guarded, db, history
<1>13. CASE PublishMemberJoined(r)
  <2>1. CASE route \in AddRoutes
    <3> DEFINE ids  == req[r].added \cup {req[r].user}
               next == NextId(req[r].todo)
               q    == [req[r] EXCEPT !.added = ids, !.pc = next]
    <3>1. q.pc = next /\ next \notin Guarded
      BY <1>0 DEF Request, NextId, Guarded
    <3>2. req' = [req EXCEPT ![r] = q]
      BY <1>13, <2>1 DEF PublishMemberJoined
    <3> HIDE DEF q, next
    <3>3. req'[r].pc \notin Guarded /\ \A p \in Requests \ {r} : req'[p] = req[p]
      BY <3>1, <3>2 DEF TypeOK
    <3> QED BY <1>13, <1>b, <3>3, UnguardedKnows DEF PublishMemberJoined, db, history
  <2>2. CASE route \notin AddRoutes
    BY <1>13, <1>b, <2>2, IdleFinish DEF PublishMemberJoined, db, history
  <2> QED BY <2>1, <2>2
<1> QED
  BY <1>1, <1>2, <1>3, <1>4, <1>5, <1>6, <1>7, <1>8, <1>9, <1>10, <1>11, <1>12, <1>13 DEF Step

LEMMA OwnerInvariant ==
  ASSUME "addChannel" \notin Routes
  PROVE  Spec => [](Ownership /\ OwnerChecked)
<1>1. Init => Ownership /\ OwnerChecked
  BY IdleType DEF Init, Ownership, OwnerChecked
<1>2. TypeOK /\ ControlOK /\ (Ownership /\ OwnerChecked) /\ [Next]_vars
        => (Ownership /\ OwnerChecked)'
  <2> SUFFICES ASSUME TypeOK, ControlOK, Ownership, OwnerChecked, [Next]_vars
               PROVE  (Ownership /\ OwnerChecked)'
    OBVIOUS
  <2>1. ASSUME NEW r \in Requests, Start(r) PROVE (Ownership /\ OwnerChecked)'
    <3>1. UNCHANGED chat_members /\ \A p \in Requests \ {r} : req'[p] = req[p]
      BY <2>1 DEF Start, StartAdd, StartTarget, StartSelf, TypeOK, db, history
    <3>2. PICK route \in AllRoutes, q \in Request : req' = [req EXCEPT ![r] = q] /\ q.pc = Entry(route)
      BY <2>1, StartShape
    <3>3. Entry(route) \notin Guarded
      BY DEF Entry, Guarded, AllRoutes, AddRoutes, TargetRoutes, SelfRoutes, InviteRoutes
    <3>4. req'[r].pc \notin Guarded
      BY <3>2, <3>3 DEF TypeOK
    <3> QED BY <3>1, <3>4, UnguardedKnows, OwnerFrame DEF Ownership
  <2>2. ASSUME NEW r \in Requests, Step(r) PROVE (Ownership /\ OwnerChecked)'
    BY <2>2, StepOwner
  <2>3. ASSUME NEW r \in Requests, Abort(r) PROVE (Ownership /\ OwnerChecked)'
    BY <2>3, IdleFinish, OwnerFrame DEF Abort, Ownership, db, history
  <2>4. CASE (\E code \in Codes : Expire(code)) \/ UNCHANGED vars
    BY <2>4 DEF Expire, vars, history, Ownership, OwnerChecked
  <2> QED BY <2>1, <2>2, <2>3, <2>4 DEF Next
<1> QED BY <1>1, <1>2, TypeCorrect, ControlInvariant, PTL DEF Spec

\* Without the channel route's upsert, the creator stays the one owner through
\* every interleaving of removals, leaves, bans and role changes.
THEOREM OwnershipHolds ==
  ASSUME "addChannel" \notin Routes
  PROVE  Spec => []Ownership
  BY OwnerInvariant, PTL

\* Without that upsert, a member's role changes only by a request of the owner.
THEOREM RolesByOwner ==
  ASSUME "addChannel" \notin Routes
  PROVE  Spec => RoleChangesByOwner
<1>1. TypeOK /\ ControlOK /\ (Ownership /\ OwnerChecked) /\ [Next]_vars => [RoleChangedByOwner]_vars
  <2> SUFFICES ASSUME TypeOK, ControlOK, Ownership, OwnerChecked, Next PROVE RoleChangedByOwner
    OBVIOUS
  <2> SUFFICES ASSUME NEW u \in Users,
                      chat_members[u] # "none", chat_members'[u] # "none",
                      chat_members'[u] # chat_members[u]
               PROVE  \E r \in Requests :
                          /\ req[r].user = u
                          /\ Writes(r, "updateRole") \/ Writes(r, "insertMember")
                          /\ chat_members[req[r].actor] = "owner"
    BY DEF RoleChangedByOwner
  <2>1. PICK r \in Requests : InsertMember(r) \/ DeleteMember(r) \/ UpdateRole(r)
    <3>1. ASSUME NEW r \in Requests, Start(r) \/ Abort(r) PROVE FALSE
      BY <3>1 DEF Start, StartAdd, StartTarget, StartSelf, Abort, db, history
    <3>2. ASSUME NEW code \in Codes, Expire(code) PROVE FALSE
      BY <3>2 DEF Expire
    <3>3. ASSUME NEW r \in Requests, Step(r), ~(InsertMember(r) \/ DeleteMember(r) \/ UpdateRole(r))
          PROVE  FALSE
      BY <3>3
      DEF Step, RequireAdmin, RequireMember, RequireOwner, ReadRole, ReadChannel, ReadInvite,
          ReadTarget, ReadMe, ReadBanOfId, ReadBanOfCaller, CountUse, InsertBan, DeleteBan,
          InsertInvite, UpdateInvite, RefreshMembersCount, PublishMemberJoined,
          PublishMemberLeft, db, history
    <3> QED BY <3>1, <3>2, <3>3 DEF Next
  <2>2. req[r].user \in Users /\ req[r].actor \in Users
    BY DEF TypeOK, Request
  <2>3. ~DeleteMember(r)
    BY <2>2 DEF DeleteMember, TypeOK
  <2>4. ~InsertMember(r)
    <3>1. req[r].pc = "insertMember" => req[r].route # "addChannel"
      BY IdleType DEF ControlOK
    <3> QED BY <2>2, <3>1 DEF InsertMember, InsertedRole, TypeOK
  <2>5. UpdateRole(r)
    BY <2>1, <2>3, <2>4
  <2>6. req[r].user = u /\ req'[r].pc # "updateRole" /\ req[r].pc = "updateRole"
    BY <2>2, <2>5, FinishFields, IdleType DEF UpdateRole, TypeOK
  <2>7. chat_members[req[r].actor] = "owner"
    BY <2>2, <2>6 DEF OwnerChecked, Ownership
  <2> QED BY <2>6, <2>7 DEF Writes
<1>2. Spec => [](Ownership /\ OwnerChecked)
  BY OwnerInvariant
<1> QED BY <1>1, <1>2, TypeCorrect, ControlInvariant, PTL DEF Spec, RoleChangesByOwner

-------------------------------------------------------------------------------
(* What one step of a request may do to the requests.                      *)

\* A running request is at a statement of its route.
LEMMA Running ==
  ASSUME TypeOK, ControlOK, NEW r \in Requests, Step(r)
  PROVE  /\ req[r] \in Request /\ req[r].pc \in StatementsOf(req[r].route)
         /\ req[r].user \in Users /\ req[r].code \in Codes /\ req[r].route \in AllRoutes
  BY IdleType DEF ControlOK, TypeOK, Request, Step, RequireAdmin, RequireMember, RequireOwner,
     ReadRole, ReadChannel, ReadInvite, ReadTarget, ReadMe, ReadBanOfId, ReadBanOfCaller,
     InsertMember, DeleteMember, UpdateRole, CountUse, InsertBan, DeleteBan, InsertInvite,
     UpdateInvite, RefreshMembersCount, PublishMemberJoined, PublishMemberLeft

\* No request changes another one.
LEMMA OthersKept ==
  ASSUME TypeOK, NEW r \in Requests, Start(r) \/ Step(r) \/ Abort(r)
  PROVE  \A p \in Requests \ {r} : req'[p] = req[p]
<1>1. \E q : req' = [req EXCEPT ![r] = q]
  <2>1. CASE Start(r) \/ Abort(r)
    BY <2>1 DEF Start, StartAdd, StartTarget, StartSelf, Abort, Finish
  <2>2. ASSUME NEW s, Goto(r, s) PROVE \E q : req' = [req EXCEPT ![r] = q]
    BY <2>2 DEF Goto
  <2>3. CASE Finish(r)
    BY <2>3 DEF Finish
  <2>4. ASSUME Step(r), \A s : ~Goto(r, s), ~Finish(r) PROVE \E q : req' = [req EXCEPT ![r] = q]
    BY <2>4
    DEF Step, RequireAdmin, RequireMember, RequireOwner, ReadRole, ReadChannel, ReadInvite,
       ReadTarget, ReadMe, ReadBanOfId, ReadBanOfCaller, InsertMember, DeleteMember, UpdateRole,
       CountUse, InsertBan, DeleteBan, InsertInvite, UpdateInvite, RefreshMembersCount,
       PublishMemberJoined, PublishMemberLeft
  <2> QED BY <2>1, <2>2, <2>3, <2>4
<1> QED BY <1>1 DEF TypeOK

\* Where a step leaves its own request: gone, or at the next statement.
LEMMA StepGoes ==
  ASSUME TypeOK, ControlOK, NEW r \in Requests, Step(r)
  PROVE  \/ req'[r] = Idle
         \/ /\ req'[r].route = req[r].route /\ req'[r].code = req[r].code
            /\ req'[r].actor = req[r].actor
            /\ req'[r].user = req[r].user \/ \E u \in Users : ReadBanOfId(r, u)
<1> DEFINE Goes == \/ req'[r] = Idle
                   \/ /\ req'[r].route = req[r].route /\ req'[r].code = req[r].code
                      /\ req'[r].actor = req[r].actor
                      /\ req'[r].user = req[r].user \/ \E u \in Users : ReadBanOfId(r, u)
<1>0. req[r] \in Request /\ req \in [Requests -> Request]
  BY Running DEF TypeOK
<1>1. ASSUME NEW s, Goto(r, s) PROVE Goes
  BY <1>0, <1>1 DEF Goto, Request
<1>2. CASE Finish(r)
  BY <1>2, FinishFields
<1>3. ASSUME NEW u \in Users, ReadBanOfId(r, u) PROVE Goes
  BY <1>0, <1>3 DEF ReadBanOfId, Request
<1>4. ASSUME NEW ids, NEW role, NEW s,
             \/ req' = [req EXCEPT ![r] = [@ EXCEPT !.seen = role, !.pc = s]]
             \/ req' = [req EXCEPT ![r] = [@ EXCEPT !.added = ids, !.pc = s]]
      PROVE  Goes
  <2>1. CASE req' = [req EXCEPT ![r] = [@ EXCEPT !.seen = role, !.pc = s]]
    BY <1>0, <2>1 DEF Request
  <2>2. CASE req' = [req EXCEPT ![r] = [@ EXCEPT !.added = ids, !.pc = s]]
    BY <1>0, <2>2 DEF Request
  <2> QED BY <1>4, <2>1, <2>2
<1>6. CASE ReadTarget(r) \/ PublishMemberJoined(r)
  BY <1>2, <1>4, <1>6 DEF ReadTarget, PublishMemberJoined
<1>5. ASSUME Step(r), \A s : ~Goto(r, s), ~Finish(r), \A u \in Users : ~ReadBanOfId(r, u)
      PROVE  ReadTarget(r) \/ PublishMemberJoined(r)
  BY <1>5 DEF Step, RequireAdmin, RequireMember, RequireOwner, ReadRole, ReadChannel, ReadInvite,
     ReadMe, ReadBanOfCaller, InsertMember, DeleteMember, UpdateRole, CountUse, InsertBan,
     DeleteBan, InsertInvite, UpdateInvite, RefreshMembersCount, PublishMemberLeft
<1> QED BY <1>1, <1>2, <1>3, <1>5, <1>6

-------------------------------------------------------------------------------
(* A committed change of the membership always has a handler on its way to *)
(* publish it.                                                             *)

\* What a request owes depends on itself alone.
LEMMA OwedOfOne ==
  ASSUME NEW p, req'[p] = req[p]
  PROVE  Owed(p)' = Owed(p)
  BY DEF Owed, WillPublishJoined, WillPublishLeft

\* A step of r is safe when every change still to be announced was owed by
\* another request, or is owed by r afterwards.
LEMMA AnnouncementFrame ==
  ASSUME NoLostAnnouncement, NEW r \in Requests, \A p \in Requests \ {r} : req'[p] = req[p],
         \A u \in Users, change \in {"joined", "left"} :
            <<u, change>> \in unannounced' =>
               \/ <<u, change>> \in unannounced /\ <<u, change>> \notin Owed(r)
               \/ <<u, change>> \in Owed(r)'
  PROVE  NoLostAnnouncement'
<1> SUFFICES ASSUME NEW u \in Users, NEW change \in {"joined", "left"},
                    <<u, change>> \in unannounced'
             PROVE  \E p \in Requests : <<u, change>> \in Owed(p)'
  BY DEF NoLostAnnouncement
<1>1. CASE <<u, change>> \in Owed(r)'
  BY <1>1
<1>2. CASE <<u, change>> \in unannounced /\ <<u, change>> \notin Owed(r)
  <2>1. PICK p \in Requests : <<u, change>> \in Owed(p)
    BY <1>2 DEF NoLostAnnouncement
  <2>2. p \in Requests \ {r}
    BY <1>2, <2>1
  <2> QED BY <2>1, <2>2, OwedOfOne
<1> QED BY <1>1, <1>2

\* A request that owes nothing and announces nothing.
LEMMA QuietAnnouncement ==
  ASSUME NoLostAnnouncement, NEW r \in Requests, \A p \in Requests \ {r} : req'[p] = req[p],
         ~WillPublishJoined(r), ~WillPublishLeft(r), unannounced' = unannounced
  PROVE  NoLostAnnouncement'
<1>1. Owed(r) = {}
  BY DEF Owed
<1> QED BY <1>1, AnnouncementFrame

LEMMA StepAnnounced ==
  ASSUME TypeOK, ControlOK, NoLostAnnouncement, NEW r \in Requests, Step(r)
  PROVE  NoLostAnnouncement'
<1> DEFINE route == req[r].route
           u     == req[r].user
<1>0. /\ req[r] \in Request /\ req[r].pc \in StatementsOf(route)
      /\ u \in Users /\ route \in AllRoutes
      /\ \A p \in Requests \ {r} : req'[p] = req[p]
  BY Running, OthersKept
<1> USE DEF AllRoutes, AddRoutes, TargetRoutes, SelfRoutes, InviteRoutes, Statements
<1>1. CASE req[r].pc \notin {"insertMember", "deleteMember", "countUse", "refresh",
                             "publishJoined", "publishLeft"}
  <2>1. ~WillPublishJoined(r) /\ ~WillPublishLeft(r)
    BY <1>1 DEF WillPublishJoined, WillPublishLeft
  <2>2. unannounced' = unannounced
    BY <1>1
    DEF Step, RequireAdmin, RequireMember, RequireOwner, ReadRole, ReadChannel, ReadInvite,
       ReadTarget, ReadMe, ReadBanOfId, ReadBanOfCaller, InsertMember, DeleteMember, UpdateRole,
       CountUse, InsertBan, DeleteBan, InsertInvite, UpdateInvite, RefreshMembersCount,
       PublishMemberJoined, PublishMemberLeft, history
  <2> QED BY <1>0, <2>1, <2>2, QuietAnnouncement
<1>2. CASE InsertMember(r)
  <2>1. ~WillPublishJoined(r) /\ ~WillPublishLeft(r)
    BY <1>2 DEF InsertMember, WillPublishJoined, WillPublishLeft
  <2>2. CASE chat_members[u] # "none"
    BY <1>0, <1>2, <2>1, <2>2, QuietAnnouncement DEF InsertMember
  <2>3. CASE chat_members[u] = "none"
    <3>1. route \in AddRoutes \cup {"join", "joinInvite"}
      BY <1>0, <1>2 DEF InsertMember, StatementsOf
    <3>2. /\ req'[r].user = u /\ req'[r].route = route
          /\ req'[r].pc = IF route \in AddRoutes THEN "publishJoined"
                          ELSE IF route = "join" THEN "refresh" ELSE "countUse"
      BY <1>2, <2>3, <3>1, GotoFields DEF InsertMember
    <3>3. WillPublishJoined(r)'
      BY <3>1, <3>2 DEF WillPublishJoined
    <3>4. <<u, "joined">> \in Owed(r)'
      BY <3>2, <3>3 DEF Owed
    <3>5. unannounced' = unannounced \cup {<<u, "joined">>}
      BY <1>2, <2>3 DEF InsertMember
    <3>6. Owed(r) = {}
      BY <2>1 DEF Owed
    <3> QED BY <1>0, <3>4, <3>5, <3>6, AnnouncementFrame
  <2> QED BY <2>2, <2>3
<1>3. CASE DeleteMember(r)
  <2>1. Owed(r) = {}
    BY <1>3 DEF DeleteMember, WillPublishJoined, WillPublishLeft, Owed
  <2>2. req'[r].user = u /\ req'[r].route = route /\ req'[r].pc = "refresh"
    BY <1>3, GotoFields DEF DeleteMember
  <2>3. route \in {"remove", "leave", "ban"}
    BY <1>0, <1>3 DEF DeleteMember, StatementsOf
  <2>4. <<u, "left">> \in Owed(r)'
    BY <2>2, <2>3 DEF Owed, WillPublishLeft
  <2>5. unannounced' \subseteq unannounced \cup {<<u, "left">>}
    BY <1>3 DEF DeleteMember
  <2> QED BY <1>0, <2>1, <2>4, <2>5, AnnouncementFrame
<1>4. CASE CountUse(r)
  <2>1. route = "joinInvite"
    BY <1>0, <1>4 DEF CountUse, StatementsOf
  <2>2. req'[r].user = u /\ req'[r].route = route /\ req'[r].pc = "refresh"
    BY <1>4, GotoFields DEF CountUse
  <2>3. Owed(r)' = Owed(r)
    BY <1>4, <2>1, <2>2 DEF CountUse, Owed, WillPublishJoined, WillPublishLeft
  <2> QED BY <1>0, <1>4, <2>3, AnnouncementFrame DEF CountUse, history
<1>5. CASE RefreshMembersCount(r)
  <2>1. CASE route \in AddRoutes
    <3>1. ~WillPublishJoined(r) /\ ~WillPublishLeft(r)
      BY <1>5, <2>1 DEF RefreshMembersCount, WillPublishJoined, WillPublishLeft
    <3> QED BY <1>0, <1>5, <3>1, QuietAnnouncement DEF RefreshMembersCount
  <2>2. CASE route \notin AddRoutes
    <3>1. route \in {"join", "joinInvite", "remove", "leave", "ban"}
      BY <1>0, <1>5, <2>2 DEF RefreshMembersCount, StatementsOf
    <3>2. /\ req'[r].user = u /\ req'[r].route = route
          /\ req'[r].pc = IF route \in {"join", "joinInvite"} THEN "publishJoined"
                                                              ELSE "publishLeft"
      BY <1>5, <2>2, <3>1, GotoFields DEF RefreshMembersCount
    <3>3. Owed(r)' = Owed(r)
      BY <1>5, <3>1, <3>2 DEF RefreshMembersCount, Owed, WillPublishJoined, WillPublishLeft
    <3> QED BY <1>0, <1>5, <3>3, AnnouncementFrame DEF RefreshMembersCount
  <2> QED BY <2>1, <2>2
<1>6. CASE PublishMemberJoined(r)
  <2>1. \A change \in Owed(r) : change = <<u, "joined">>
    BY <1>6 DEF PublishMemberJoined, Owed, WillPublishLeft
  <2>2. unannounced' = unannounced \ {<<u, "joined">>}
    BY <1>6 DEF PublishMemberJoined
  <2> QED BY <1>0, <2>1, <2>2, AnnouncementFrame
<1>7. CASE PublishMemberLeft(r)
  <2>1. \A change \in Owed(r) : change = <<u, "left">>
    BY <1>7 DEF PublishMemberLeft, Owed, WillPublishJoined
  <2>2. unannounced' = unannounced \ {<<u, "left">>}
    BY <1>7 DEF PublishMemberLeft
  <2> QED BY <1>0, <2>1, <2>2, AnnouncementFrame
<1>8. CASE req[r].pc \in {"insertMember", "deleteMember", "countUse", "refresh",
                          "publishJoined", "publishLeft"}
  <2>1. \/ InsertMember(r) \/ DeleteMember(r) \/ CountUse(r) \/ RefreshMembersCount(r)
        \/ PublishMemberJoined(r) \/ PublishMemberLeft(r)
    BY <1>8
    DEF Step, RequireAdmin, RequireMember, RequireOwner, ReadRole, ReadChannel, ReadInvite,
       ReadTarget, ReadMe, ReadBanOfId, ReadBanOfCaller, UpdateRole, InsertBan, DeleteBan,
       InsertInvite, UpdateInvite
  <2> QED BY <1>2, <1>3, <1>4, <1>5, <1>6, <1>7, <2>1
<1> QED BY <1>1, <1>8

\* Every committed change of the membership that is not announced yet is owed by
\* a handler that is still running and will publish it, for any routes, and
\* whether or not handlers stop.
THEOREM AnnouncementsOwed == Spec => []NoLostAnnouncement
<1>1. Init => NoLostAnnouncement
  BY DEF Init, NoLostAnnouncement
<1>2. TypeOK /\ ControlOK /\ NoLostAnnouncement /\ [Next]_vars => NoLostAnnouncement'
  <2> SUFFICES ASSUME TypeOK, ControlOK, NoLostAnnouncement, [Next]_vars
               PROVE  NoLostAnnouncement'
    OBVIOUS
  <2>1. ASSUME NEW r \in Requests, Start(r) PROVE NoLostAnnouncement'
    <3>1. req[r].pc = "idle" /\ unannounced' = unannounced
      BY <2>1 DEF Start, StartAdd, StartTarget, StartSelf, history
    <3>2. ~WillPublishJoined(r) /\ ~WillPublishLeft(r)
      BY <3>1 DEF WillPublishJoined, WillPublishLeft
    <3> QED BY <2>1, <3>1, <3>2, OthersKept, QuietAnnouncement
  <2>2. ASSUME NEW r \in Requests, Step(r) PROVE NoLostAnnouncement'
    BY <2>2, StepAnnounced
  <2>3. ASSUME NEW r \in Requests, Abort(r) PROVE NoLostAnnouncement'
    <3>1. unannounced' = unannounced \ Owed(r)
      BY <2>3 DEF Abort
    <3> QED BY <2>3, <3>1, OthersKept, AnnouncementFrame
  <2>4. CASE (\E code \in Codes : Expire(code)) \/ UNCHANGED vars
    <3>1. UNCHANGED <<req, unannounced>>
      BY <2>4 DEF Expire, vars, history
    <3>2. \A p \in Requests : Owed(p)' = Owed(p)
      BY <3>1, OwedOfOne
    <3> QED BY <3>1, <3>2 DEF NoLostAnnouncement
  <2> QED BY <2>1, <2>2, <2>3, <2>4 DEF Next
<1> QED BY <1>1, <1>2, TypeCorrect, ControlInvariant, PTL DEF Spec

-------------------------------------------------------------------------------
(* Invite links.  The joins of a link, as a set, and what a step does to   *)
(* the set and to the uses the link has counted.                           *)

LEMMA SubsetCard ==
  ASSUME NEW S, IsFiniteSet(S), NEW T \in SUBSET S
  PROVE  IsFiniteSet(T) /\ Cardinality(T) \in Nat /\ Cardinality(T) <= Cardinality(S)
  BY FS_Subset, FS_CardinalityType

LEMMA JoiningFinite ==
  ASSUME NEW c
  PROVE  /\ Joining(c) \in SUBSET Requests /\ IsFiniteSet(Joining(c))
         /\ Cardinality(Joining(c)) \in Nat
         /\ Cardinality(Requests) \in Nat
         /\ Cardinality(Joining(c)) <= Cardinality(Requests)
<1>1. Joining(c) \in SUBSET Requests
  BY DEF Joining, Entering, Counting
<1> QED BY <1>1, ConstantsAssumption, SubsetCard, FS_CardinalityType

\* A request comes among the joins of a link only by reading it as usable.
LEMMA JoinsBySeeing ==
  ASSUME TypeOK, ControlOK, NEW r \in Requests, Start(r) \/ Step(r) \/ Abort(r), NEW c \in Codes,
         r \in Joining(c)', r \notin Joining(c)
  PROVE  /\ ReadInvite(r) /\ Usable(chat_invites[c])
         /\ UNCHANGED <<chat_invites, chat_members, chat_bans>>
<1> USE DEF AllRoutes, AddRoutes, TargetRoutes, SelfRoutes, InviteRoutes, Statements
<1>0. /\ req'[r].route = "joinInvite" /\ req'[r].code = c
      /\ req'[r].pc \in {"readBan", "insertMember", "countUse"}
  BY DEF Joining, Entering, Counting
<1>1. ~Start(r)
  <2>1. ASSUME Start(r) PROVE FALSE
    <3>1. PICK route \in AllRoutes, q \in Request : req' = [req EXCEPT ![r] = q] /\ q.pc = Entry(route)
      BY <2>1, StartShape
    <3>2. req'[r].pc = Entry(route)
      BY <3>1 DEF TypeOK
    <3> QED BY <1>0, <3>2 DEF Entry
  <2> QED BY <2>1
<1>2. req'[r] # Idle /\ ~Finish(r)
  BY <1>0, IdleType, FinishFields
<1>3. Step(r)
  BY <1>1, <1>2 DEF Abort
<1>4. /\ req[r].route = "joinInvite" /\ req[r].code = c
      /\ req[r].pc \in StatementsOf("joinInvite")
  BY <1>0, <1>2, <1>3, StepGoes, Running
<1>5. req[r].pc \in {"readInvite", "refresh", "publishJoined"}
  BY <1>4 DEF Joining, Entering, Counting, StatementsOf
<1>6. ~RefreshMembersCount(r)
  BY <1>0, <1>2, <1>4, GotoFields DEF RefreshMembersCount
<1>7. ReadInvite(r)
  BY <1>2, <1>3, <1>4, <1>5, <1>6
  DEF Step, RequireAdmin, RequireMember, RequireOwner, ReadRole, ReadChannel, ReadTarget, ReadMe,
      ReadBanOfId, ReadBanOfCaller, InsertMember, DeleteMember, UpdateRole, CountUse, InsertBan,
      DeleteBan, InsertInvite, UpdateInvite, PublishMemberJoined, PublishMemberLeft
<1> QED BY <1>2, <1>4, <1>7 DEF ReadInvite, db, history

\* The joins of a link after a step of r.
LEMMA JoiningMoves ==
  ASSUME TypeOK, ControlOK, NEW r \in Requests, Start(r) \/ Step(r) \/ Abort(r), NEW c \in Codes
  PROVE  /\ Joining(c)' \subseteq Joining(c) \cup {r}
         /\ \/ Joining(c)' \subseteq Joining(c)
            \/ Usable(chat_invites[c]) /\ UNCHANGED chat_invites
<1>1. \A p \in Requests \ {r} : p \in Joining(c)' <=> p \in Joining(c)
  BY OthersKept DEF Joining, Entering, Counting
<1>2. Joining(c)' \subseteq Requests
  BY DEF Joining, Entering, Counting
<1>3. CASE r \in Joining(c)' /\ r \notin Joining(c)
  BY <1>1, <1>2, <1>3, JoinsBySeeing
<1>4. CASE ~(r \in Joining(c)' /\ r \notin Joining(c))
  <2>1. \A p \in Joining(c)' : p \in Joining(c)
    BY <1>1, <1>2, <1>4
  <2> QED BY <2>1
<1> QED BY <1>3, <1>4

\* What any step does to a link that is there.
LEMMA LinkMoves ==
  ASSUME TypeOK, ControlOK, [Next]_vars, NEW c \in Codes
  PROVE  /\ chat_invites[c].exists =>
              /\ chat_invites'[c].exists
              /\ chat_invites'[c].member_limit = chat_invites[c].member_limit
              /\ chat_invites[c].revoked => chat_invites'[c].revoked
              /\ chat_invites[c].expired => chat_invites'[c].expired
         /\ chat_invites'[c].uses # chat_invites[c].uses =>
              /\ chat_invites'[c] = [chat_invites[c] EXCEPT !.uses = @ + 1]
              /\ \E r \in Requests : /\ CountUse(r) /\ req[r].code = c
                                      /\ r \in Joining(c) /\ Joining(c)' = Joining(c) \ {r}
<1> USE DEF AllRoutes, AddRoutes, TargetRoutes, SelfRoutes, InviteRoutes, Statements
<1>0. chat_invites \in [Codes -> Invite] /\ chat_invites[c] \in Invite
  BY DEF TypeOK
<1>1. CASE UNCHANGED chat_invites
  BY <1>1
<1>2. ASSUME NEW r \in Requests, CountUse(r)
      PROVE  \/ chat_invites'[c] = chat_invites[c]
             \/ /\ chat_invites'[c] = [chat_invites[c] EXCEPT !.uses = @ + 1]
                /\ req[r].code = c /\ r \in Joining(c) /\ Joining(c)' = Joining(c) \ {r}
  <2>1. /\ req[r].pc = "countUse" /\ req[r].route = "joinInvite"
        /\ req'[r].pc = "refresh"
        /\ \A p \in Requests \ {r} : req'[p] = req[p]
        /\ req[r].code \in Codes
    <3>1. Step(r)
      BY <1>2 DEF Step
    <3> QED BY <1>2, <3>1, Running, GotoFields DEF CountUse, StatementsOf
  <2>2. CASE req[r].code = c
    <3>1. r \in Joining(c) /\ Joining(c)' = Joining(c) \ {r}
      BY <2>1, <2>2 DEF Joining, Entering, Counting
    <3> QED BY <1>0, <1>2, <2>2, <3>1 DEF CountUse
  <2>3. CASE req[r].code # c
    BY <1>0, <1>2, <2>3 DEF CountUse
  <2> QED BY <2>2, <2>3
<1>3. ASSUME NEW r \in Requests, CountUse(r)
      PROVE  /\ chat_invites'[c].exists = chat_invites[c].exists
             /\ chat_invites'[c].member_limit = chat_invites[c].member_limit
             /\ chat_invites'[c].revoked = chat_invites[c].revoked
             /\ chat_invites'[c].expired = chat_invites[c].expired
  BY <1>0, <1>2, <1>3 DEF Invite
<1>4. ASSUME NEW r \in Requests, CountUse(r)
      PROVE  /\ chat_invites'[c].uses # chat_invites[c].uses =>
                  /\ chat_invites'[c] = [chat_invites[c] EXCEPT !.uses = @ + 1]
                  /\ \E p \in Requests : /\ CountUse(p) /\ req[p].code = c
                                          /\ p \in Joining(c) /\ Joining(c)' = Joining(c) \ {p}
  BY <1>2, <1>4
<1>5. ASSUME NEW r \in Requests, NEW code \in Codes, NEW limit \in MemberLimits,
             InsertInvite(r, code, limit)
      PROVE  /\ chat_invites'[c].uses = chat_invites[c].uses
             /\ chat_invites[c].exists => chat_invites'[c] = chat_invites[c]
  <2>1. CASE chat_invites[code].exists
    BY <1>5, <2>1 DEF InsertInvite
  <2>2. CASE ~chat_invites[code].exists
    <3>1. chat_invites' = [chat_invites EXCEPT ![code] =
                              [chat_invites[code] EXCEPT !.exists = TRUE, !.member_limit = limit]]
      BY <1>5, <2>2 DEF InsertInvite
    <3>2. CASE c = code
      BY <1>0, <2>2, <3>1, <3>2 DEF Invite
    <3>3. CASE c # code
      BY <1>0, <3>1, <3>3
    <3> QED BY <3>2, <3>3
  <2> QED BY <2>1, <2>2
<1>6. ASSUME NEW r \in Requests, UpdateInvite(r)
      PROVE  /\ chat_invites'[c].uses = chat_invites[c].uses
             /\ chat_invites'[c].exists = chat_invites[c].exists
             /\ chat_invites'[c].member_limit = chat_invites[c].member_limit
             /\ chat_invites[c].revoked => chat_invites'[c].revoked
             /\ chat_invites'[c].expired = chat_invites[c].expired
  BY <1>0, <1>6 DEF UpdateInvite, Invite
<1>7. ASSUME NEW code \in Codes, Expire(code)
      PROVE  /\ chat_invites'[c].uses = chat_invites[c].uses
             /\ chat_invites'[c].exists = chat_invites[c].exists
             /\ chat_invites'[c].member_limit = chat_invites[c].member_limit
             /\ chat_invites'[c].revoked = chat_invites[c].revoked
             /\ chat_invites[c].expired => chat_invites'[c].expired
  BY <1>0, <1>7 DEF Expire, Invite
<1>8. \/ UNCHANGED chat_invites
      \/ \E r \in Requests : \/ CountUse(r) \/ UpdateInvite(r)
                             \/ \E code \in Codes, limit \in MemberLimits : InsertInvite(r, code, limit)
      \/ \E code \in Codes : Expire(code)
  <2>1. ASSUME NEW r \in Requests, Start(r) \/ Abort(r) PROVE UNCHANGED chat_invites
    BY <2>1 DEF Start, StartAdd, StartTarget, StartSelf, Abort, db, history
  <2>2. ASSUME NEW r \in Requests, Step(r)
        PROVE  \/ UNCHANGED chat_invites \/ CountUse(r) \/ UpdateInvite(r)
               \/ \E code \in Codes, limit \in MemberLimits : InsertInvite(r, code, limit)
    BY <2>2
    DEF Step, RequireAdmin, RequireMember, RequireOwner, ReadRole, ReadChannel, ReadInvite,
        ReadTarget, ReadMe, ReadBanOfId, ReadBanOfCaller, InsertMember, DeleteMember, UpdateRole,
        InsertBan, DeleteBan, RefreshMembersCount, PublishMemberJoined, PublishMemberLeft, db, history
  <2>3. CASE UNCHANGED vars
    BY <2>3 DEF vars, history
  <2> QED BY <2>1, <2>2, <2>3 DEF Next
<1> QED BY <1>1, <1>3, <1>4, <1>5, <1>6, <1>7, <1>8

\* What any step does to the sum the two properties of links are about: it grows
\* only when a join reads a usable link, and then by one.
LEMMA SumMoves ==
  ASSUME TypeOK, TypeOK', ControlOK, [Next]_vars, NEW c \in Codes
  PROVE  LET sum == chat_invites[c].uses + Cardinality(Joining(c))
         IN  /\ sum \in Nat /\ sum' \in Nat
             /\ sum' > sum => /\ Usable(chat_invites[c]) /\ UNCHANGED chat_invites
                              /\ sum' = sum + 1
<1> DEFINE uses == chat_invites[c].uses
           n    == Cardinality(Joining(c))
<1>0. /\ uses \in Nat /\ uses' \in Nat
  BY DEF TypeOK, Invite
<1>1. n \in Nat /\ n' \in Nat /\ IsFiniteSet(Joining(c)) /\ IsFiniteSet(Joining(c)')
  <2>1. Joining(c)' \in SUBSET Requests
    BY DEF Joining, Entering, Counting
  <2>2. IsFiniteSet(Joining(c)') /\ Cardinality(Joining(c)') \in Nat
    BY <2>1, ConstantsAssumption, SubsetCard
  <2> QED BY <2>2, JoiningFinite
<1>2. CASE uses' # uses
  <2>1. PICK r \in Requests : r \in Joining(c) /\ Joining(c)' = Joining(c) \ {r}
    BY <1>2, LinkMoves
  <2>2. chat_invites'[c] = [chat_invites[c] EXCEPT !.uses = @ + 1]
    BY <1>2, LinkMoves
  <2>3. uses' = uses + 1
    BY <2>2 DEF TypeOK, Invite
  <2>4. n' = n - 1
    BY <1>1, <2>1, FS_RemoveElement
  <2> QED BY <1>0, <1>1, <2>3, <2>4
<1>3. CASE uses' = uses /\ Joining(c)' \subseteq Joining(c)
  <2>1. n' <= n
    BY <1>1, <1>3, SubsetCard
  <2> QED BY <1>0, <1>1, <1>3, <2>1
<1>4. CASE uses' = uses /\ ~(Joining(c)' \subseteq Joining(c))
  <2>1. PICK r \in Requests : Start(r) \/ Step(r) \/ Abort(r)
    <3>1. ASSUME (\E code \in Codes : Expire(code)) \/ UNCHANGED vars PROVE FALSE
      <4>1. UNCHANGED req
        BY <3>1 DEF Expire, vars, history
      <4>2. Joining(c)' = Joining(c)
        BY <4>1 DEF Joining, Entering, Counting
      <4> QED BY <1>4, <4>2
    <3> QED BY <3>1 DEF Next
  <2>2. /\ Joining(c)' \in SUBSET (Joining(c) \cup {r})
        /\ Usable(chat_invites[c]) /\ UNCHANGED chat_invites
    BY <1>4, <2>1, JoiningMoves
  <2>3. /\ IsFiniteSet(Joining(c) \cup {r})
        /\ Cardinality(Joining(c) \cup {r}) = IF r \in Joining(c) THEN n ELSE n + 1
    BY <1>1, FS_AddElement
  <2>4. n' <= Cardinality(Joining(c) \cup {r})
    BY <2>2, <2>3, SubsetCard
  <2>5. n' <= n + 1
    BY <1>1, <2>3, <2>4
  <2> QED BY <1>0, <1>1, <1>4, <2>2, <2>5
<1> QED BY <1>2, <1>3, <1>4

\* A link that is not usable stays so and counts no further joins.
THEOREM DeadLinkAdmitsNobody == Spec => DeadInviteAdmitsNobody
<1> DEFINE sum(c) == chat_invites[c].uses + Cardinality(Joining(c))
           Final  == \A c \in Codes :
                        chat_invites[c].exists /\ ~Usable(chat_invites[c])
                        => /\ ~Usable(chat_invites'[c])
                           /\ chat_invites'[c].uses + Cardinality(Joining(c))'
                                <= chat_invites[c].uses + Cardinality(Joining(c))
<1>1. TypeOK /\ TypeOK' /\ ControlOK /\ [Next]_vars => Final
  <2> SUFFICES ASSUME TypeOK, TypeOK', ControlOK, [Next]_vars, NEW c \in Codes,
                      chat_invites[c].exists, ~Usable(chat_invites[c])
               PROVE  /\ ~Usable(chat_invites'[c])
                      /\ chat_invites'[c].uses + Cardinality(Joining(c))'
                           <= chat_invites[c].uses + Cardinality(Joining(c))
    OBVIOUS
  <2>1. chat_invites[c] \in Invite /\ chat_invites'[c] \in Invite
    BY DEF TypeOK
  <2>2. /\ chat_invites'[c].exists
        /\ chat_invites'[c].member_limit = chat_invites[c].member_limit
        /\ chat_invites[c].revoked => chat_invites'[c].revoked
        /\ chat_invites[c].expired => chat_invites'[c].expired
    BY LinkMoves
  <2>3. chat_invites'[c].uses >= chat_invites[c].uses
    <3>1. CASE chat_invites'[c].uses # chat_invites[c].uses
      <4>1. chat_invites'[c] = [chat_invites[c] EXCEPT !.uses = @ + 1]
        BY <3>1, LinkMoves
      <4> QED BY <2>1, <4>1 DEF Invite
    <3>2. CASE chat_invites'[c].uses = chat_invites[c].uses
      BY <2>1, <3>2 DEF Invite
    <3> QED BY <3>1, <3>2
  <2>4. /\ chat_invites[c].uses \in Nat /\ chat_invites'[c].uses \in Nat
        /\ chat_invites[c].member_limit \in Nat
    <3>1. \A n \in MemberLimits \cup {0} : n \in Nat
      BY ConstantsAssumption
    <3> QED BY <2>1, <3>1 DEF Invite
  <2>5. ~Usable(chat_invites'[c])
    BY <2>2, <2>3, <2>4 DEF Usable, Exhausted
  <2>6. /\ chat_invites[c].uses + Cardinality(Joining(c)) \in Nat
        /\ chat_invites'[c].uses + Cardinality(Joining(c))' \in Nat
        /\ ~(chat_invites'[c].uses + Cardinality(Joining(c))'
               > chat_invites[c].uses + Cardinality(Joining(c)))
    BY SumMoves
  <2> QED BY <2>5, <2>6
<1>2. TypeOK /\ TypeOK' /\ ControlOK /\ [Next]_vars => [Final]_vars
  BY <1>1
<1> QED BY <1>2, TypeCorrect, ControlInvariant, PTL DEF Spec, DeadInviteAdmitsNobody

LEMMA LinksHeldNext == TypeOK /\ TypeOK' /\ ControlOK /\ LinksHeld /\ [Next]_vars => LinksHeld'
<1> SUFFICES ASSUME TypeOK, TypeOK', ControlOK, LinksHeld, [Next]_vars, NEW c \in Codes
             PROVE  /\ \A r \in Requests : r \in Joining(c)' => chat_invites'[c].exists
                    /\ ~chat_invites'[c].exists => chat_invites'[c].uses = 0
  BY DEF LinksHeld
<1>1. \A r \in Requests : r \in Joining(c)' => chat_invites[c].exists
  <2> SUFFICES ASSUME NEW r \in Requests, r \in Joining(c)', r \notin Joining(c)
               PROVE  chat_invites[c].exists
    BY DEF LinksHeld
  <2>1. ASSUME NEW p \in Requests, Start(p) \/ Step(p) \/ Abort(p)
        PROVE  chat_invites[c].exists
    BY <2>1, JoiningMoves, OthersKept, JoinsBySeeing DEF Usable
  <2>2. ASSUME (\E code \in Codes : Expire(code)) \/ UNCHANGED vars PROVE FALSE
    BY <2>2 DEF Expire, vars, history, Joining, Entering, Counting
  <2> QED BY <2>1, <2>2 DEF Next
<1>2. chat_invites[c].exists => chat_invites'[c].exists
  BY LinkMoves
<1>3. ~chat_invites[c].exists => chat_invites'[c].uses = 0
  <2>1. CASE chat_invites'[c].uses # chat_invites[c].uses
    BY <2>1, LinkMoves DEF LinksHeld
  <2> QED BY <2>1 DEF LinksHeld
<1> QED BY <1>1, <1>2, <1>3

LEMMA LinksHeldInvariant == Spec => []LinksHeld
<1>1. Init => LinksHeld
  BY IdleType DEF Init, LinksHeld, Joining, Entering, Counting
<1> QED BY <1>1, LinksHeldNext, TypeCorrect, ControlInvariant, PTL DEF Spec

\* The uses a limited link counts overshoot by less than the number of requests.
LEMMA UsesStayBounded == Spec => []UsesBounded
<1>1. Init => UsesBounded
  BY DEF Init, UsesBounded
<1>2. /\ TypeOK /\ TypeOK' /\ ControlOK /\ LinksHeld /\ LinksHeld' /\ UsesBounded
      /\ [Next]_vars
      => UsesBounded'
  <2> SUFFICES ASSUME TypeOK, TypeOK', ControlOK, LinksHeld, LinksHeld', UsesBounded,
                      [Next]_vars,
                      NEW c \in Codes, chat_invites'[c].member_limit # 0
               PROVE  chat_invites'[c].uses + Cardinality(Joining(c)')
                        < chat_invites'[c].member_limit + Cardinality(Requests)
    BY DEF UsesBounded
  <2> DEFINE sum  == chat_invites[c].uses + Cardinality(Joining(c))
             all  == Cardinality(Requests)
             lim  == chat_invites[c].member_limit
  <2>1. chat_invites[c] \in Invite /\ chat_invites'[c] \in Invite
    BY DEF TypeOK
  <2>2. lim \in Nat /\ lim' \in Nat /\ chat_invites'[c].uses \in Nat /\ all \in Nat
    <3>1. \A n \in MemberLimits \cup {0} : n \in Nat
      BY ConstantsAssumption
    <3>2. all \in Nat
      BY JoiningFinite
    <3> QED BY <2>1, <3>1, <3>2 DEF Invite
  <2>3. sum \in Nat /\ sum' \in Nat
    BY SumMoves
  <2>4. Cardinality(Joining(c)') \in Nat /\ Cardinality(Joining(c)') <= all
    <3>1. Joining(c)' \in SUBSET Requests
      BY DEF Joining, Entering, Counting
    <3> QED BY <3>1, ConstantsAssumption, SubsetCard
  <2>5. CASE ~chat_invites[c].exists
    <3>1. chat_invites'[c].uses = 0
      <4>1. CASE chat_invites'[c].uses # chat_invites[c].uses
        BY <2>5, <4>1, LinkMoves DEF LinksHeld
      <4> QED BY <2>5, <4>1 DEF LinksHeld
    <3>2. Joining(c) = {}
      BY <2>5 DEF LinksHeld, Joining, Entering, Counting
    <3>3. ~(sum' > sum)
      BY <2>5, SumMoves DEF Usable
    <3>4. sum = 0
      BY <2>5, <3>2, FS_EmptySet DEF LinksHeld
    <3> QED BY <2>2, <2>3, <3>3, <3>4
  <2>6. CASE chat_invites[c].exists
    <3>1. lim' = lim
      BY <2>6, LinkMoves
    <3>2. CASE sum' > sum
      <4>1. Usable(chat_invites[c]) /\ UNCHANGED chat_invites
        BY <3>2, SumMoves
      <4>2. chat_invites'[c].uses < lim
        BY <2>1, <2>2, <3>1, <4>1 DEF Usable, Exhausted
      <4> QED BY <2>2, <2>4, <3>1, <4>2
    <3>3. CASE ~(sum' > sum)
      <4>1. sum < lim + all
        BY <3>1 DEF UsesBounded
      <4> QED BY <2>2, <2>3, <3>1, <3>3, <4>1
    <3> QED BY <3>2, <3>3
  <2> QED BY <2>5, <2>6
<1> QED BY <1>1, <1>2, LinksHeldInvariant, TypeCorrect, ControlInvariant, PTL DEF Spec

\* The two parts of the joins of a link.
LEMMA JoiningParts ==
  ASSUME NEW c
  PROVE  /\ IsFiniteSet(Entering(c)) /\ Cardinality(Entering(c)) \in Nat
         /\ IsFiniteSet(Counting(c)) /\ Cardinality(Counting(c)) \in Nat
         /\ Cardinality(Joining(c)) = Cardinality(Entering(c)) + Cardinality(Counting(c))
<1>1. Entering(c) \in SUBSET Requests /\ Counting(c) \in SUBSET Requests
  BY DEF Entering, Counting
<1>2. IsFiniteSet(Entering(c)) /\ IsFiniteSet(Counting(c))
  BY <1>1, ConstantsAssumption, SubsetCard
<1>3. Entering(c) \cap Counting(c) = {}
  BY DEF Entering, Counting
<1>4. Cardinality(Entering(c) \cap Counting(c)) = 0
  BY <1>3, FS_EmptySet
<1>5. Cardinality(Joining(c)) = Cardinality(Entering(c)) + Cardinality(Counting(c))
                                  - Cardinality(Entering(c) \cap Counting(c))
  BY <1>2, FS_Union DEF Joining
<1> QED BY <1>2, <1>4, <1>5, FS_CardinalityType

\* Who is about to count a use of the link after a step of r: r comes there by
\* its insert of a new member, and leaves by counting or by stopping.
LEMMA CountingMoves ==
  ASSUME TypeOK, ControlOK, NEW r \in Requests, Start(r) \/ Step(r) \/ Abort(r), NEW c \in Codes
  PROVE  /\ InsertMember(r) /\ req[r].route = "joinInvite" /\ chat_members[req[r].user] = "none"
            => /\ r \notin Counting(c)
               /\ Counting(c)' = IF req[r].code = c THEN Counting(c) \cup {r} ELSE Counting(c)
         /\ (CountUse(r) \/ Abort(r)) /\ req[r].pc = "countUse"
            => /\ r \in Counting(c) <=> req[r].code = c
               /\ Counting(c)' = Counting(c) \ {r}
         /\ \/ InsertMember(r) /\ req[r].route = "joinInvite" /\ chat_members[req[r].user] = "none"
            \/ (CountUse(r) \/ Abort(r)) /\ req[r].pc = "countUse"
            \/ Counting(c)' = Counting(c)
<1> USE DEF AllRoutes, AddRoutes, TargetRoutes, SelfRoutes, InviteRoutes, Statements
<1>1. \A p \in Requests \ {r} : p \in Counting(c)' <=> p \in Counting(c)
  BY OthersKept DEF Counting
<1>2. Counting(c) \subseteq Requests /\ Counting(c)' \subseteq Requests
  BY DEF Counting
<1>3. ASSUME InsertMember(r), req[r].route = "joinInvite", chat_members[req[r].user] = "none"
      PROVE  /\ r \notin Counting(c)
             /\ r \in Counting(c)' <=> req[r].code = c
  <2>1. Goto(r, "countUse") /\ req[r].pc = "insertMember"
    BY <1>3 DEF InsertMember
  <2>2. req'[r].pc = "countUse" /\ req'[r].route = "joinInvite" /\ req'[r].code = req[r].code
    BY <1>3, <2>1, GotoFields
  <2> QED BY <2>1, <2>2 DEF Counting
<1>4. ASSUME CountUse(r) \/ Abort(r), req[r].pc = "countUse"
      PROVE  /\ r \in Counting(c) <=> req[r].code = c
             /\ r \notin Counting(c)'
  <2>1. req[r] # Idle /\ req[r].pc \in StatementsOf(req[r].route) /\ req[r].route \in AllRoutes
    BY <1>4, IdleType, ConstantsAssumption DEF ControlOK
  <2>2. req[r].route = "joinInvite"
    BY <1>4, <2>1 DEF StatementsOf
  <2>3. Goto(r, "refresh") \/ Finish(r)
    BY <1>4 DEF CountUse, Abort
  <2>4. req'[r].pc # "countUse"
    BY <2>3, GotoFields, FinishFields, IdleType
  <2> QED BY <1>4, <2>2, <2>4 DEF Counting
<1>5. ASSUME ~(InsertMember(r) /\ req[r].route = "joinInvite" /\ chat_members[req[r].user] = "none"),
             ~((CountUse(r) \/ Abort(r)) /\ req[r].pc = "countUse")
      PROVE  r \in Counting(c)' <=> r \in Counting(c)
  <2>1. r \notin Counting(c)
    <3>1. ASSUME req[r].pc = "countUse" PROVE FALSE
      <4>1. ~Start(r)
        BY <3>1 DEF Start, StartAdd, StartTarget, StartSelf
      <4>2. ~Abort(r)
        BY <1>5, <3>1
      <4>3. CountUse(r)
        BY <3>1, <4>1, <4>2
        DEF Step, RequireAdmin, RequireMember, RequireOwner, ReadRole, ReadChannel, ReadInvite,
            ReadTarget, ReadMe, ReadBanOfId, ReadBanOfCaller, InsertMember, DeleteMember,
            UpdateRole, InsertBan, DeleteBan, InsertInvite, UpdateInvite, RefreshMembersCount,
            PublishMemberJoined, PublishMemberLeft
      <4> QED BY <1>5, <3>1, <4>3
    <3> QED BY <3>1 DEF Counting
  <2>2. r \notin Counting(c)'
    <3> SUFFICES ASSUME r \in Counting(c)' PROVE FALSE
      OBVIOUS
    <3>1. r \in Joining(c)' /\ req'[r].pc = "countUse" /\ req'[r].route = "joinInvite"
      BY DEF Joining, Counting
    <3>2. CASE r \notin Joining(c)
      <4>1. ReadInvite(r)
        BY <3>1, <3>2, JoinsBySeeing
      <4> QED BY <3>1, <4>1, GotoFields, FinishFields, IdleType DEF ReadInvite
    <3>3. CASE r \in Joining(c)
      <4>1. req[r].route = "joinInvite" /\ req[r].pc \in {"readBan", "insertMember"}
        BY <2>1, <3>3 DEF Joining, Entering
      <4>2. ~Start(r) /\ ~Abort(r)
        BY <3>1, <4>1, FinishFields, IdleType DEF Start, StartAdd, StartTarget, StartSelf, Abort
      <4>3. ReadBanOfCaller(r) \/ InsertMember(r)
        BY <4>1, <4>2
        DEF Step, RequireAdmin, RequireMember, RequireOwner, ReadRole, ReadChannel, ReadInvite,
            ReadTarget, ReadMe, ReadBanOfId, DeleteMember, CountUse,
            UpdateRole, InsertBan, DeleteBan, InsertInvite, UpdateInvite, RefreshMembersCount,
            PublishMemberJoined, PublishMemberLeft
      <4>4. Finish(r) \/ Goto(r, "insertMember")
        BY <1>5, <4>1, <4>3 DEF ReadBanOfCaller, InsertMember
      <4> QED BY <3>1, <4>4, GotoFields, FinishFields, IdleType
    <3> QED BY <3>2, <3>3
  <2> QED BY <2>1, <2>2
<1> QED BY <1>1, <1>2, <1>3, <1>4, <1>5

\* A step in which no join inserts, counts or stops about to count.
LEMMA UsesFrame ==
  ASSUME TypeOK, ControlOK, [Next]_vars, NEW c \in Codes,
         \A r \in Requests : ~(CountUse(r) /\ req[r].code = c)
  PROVE  chat_invites'[c].uses = chat_invites[c].uses
  BY LinkMoves

LEMMA AdmissionsNext ==
  ASSUME TypeOK, TypeOK', ControlOK, AdmissionsCounted, [Next]_vars
  PROVE  AdmissionsCounted'
<1> SUFFICES ASSUME NEW c \in Codes
             PROVE  admitted'[c] = chat_invites'[c].uses + Cardinality(Counting(c)') + uncounted'[c]
  BY DEF AdmissionsCounted
<1> DEFINE uses == chat_invites[c].uses
           n    == Cardinality(Counting(c))
<1>0. /\ uses \in Nat /\ uses' \in Nat /\ n \in Nat /\ IsFiniteSet(Counting(c))
      /\ admitted[c] \in Nat /\ uncounted[c] \in Nat
      /\ admitted[c] = uses + n + uncounted[c]
  BY JoiningParts DEF TypeOK, Invite, AdmissionsCounted
<1> HIDE DEF uses, n
<1>1. ASSUME NEW r \in Requests, InsertMember(r),
             req[r].route = "joinInvite", chat_members[req[r].user] = "none"
      PROVE  admitted'[c] = uses' + n' + uncounted'[c]
  <2>1. /\ r \notin Counting(c)
        /\ Counting(c)' = IF req[r].code = c THEN Counting(c) \cup {r} ELSE Counting(c)
    BY <1>1, CountingMoves DEF Step
  <2>2. n' = IF req[r].code = c THEN n + 1 ELSE n
    BY <1>0, <2>1, FS_AddElement DEF n
  <2>3. uses' = uses /\ uncounted' = uncounted
    BY <1>1 DEF InsertMember, uses
  <2>4. admitted'[c] = IF req[r].code = c THEN admitted[c] + 1 ELSE admitted[c]
    BY <1>1 DEF InsertMember, TypeOK
  <2> QED BY <1>0, <2>2, <2>3, <2>4
<1>2. ASSUME NEW r \in Requests, CountUse(r) \/ Abort(r), req[r].pc = "countUse"
      PROVE  admitted'[c] = uses' + n' + uncounted'[c]
  <2>1. /\ r \in Counting(c) <=> req[r].code = c
        /\ Counting(c)' = Counting(c) \ {r}
    BY <1>2, CountingMoves DEF Step
  <2>2. n' = IF req[r].code = c THEN n - 1 ELSE n
    <3>1. CASE req[r].code = c
      <4>1. r \in Counting(c) /\ IsFiniteSet(Counting(c)) /\ Counting(c)' = Counting(c) \ {r}
        BY <1>0, <2>1, <3>1
      <4>2. Cardinality(Counting(c) \ {r}) = Cardinality(Counting(c)) - 1
        BY <4>1, FS_RemoveElement
      <4>. QED
        BY <4>1, <4>2, <3>1 DEF n
    <3>2. CASE req[r].code # c
      BY <2>1, <3>2 DEF n
    <3> QED BY <3>1, <3>2
  <2>3. req[r].code \in Codes /\ admitted' = admitted
    BY <1>2 DEF TypeOK, Request, CountUse, Abort, history
  <2>4. CASE CountUse(r)
    <3>1. uses' = IF req[r].code = c THEN uses + 1 ELSE uses
      BY <2>3, <2>4 DEF CountUse, TypeOK, Invite, uses
    <3>2. uncounted' = uncounted
      BY <2>4 DEF CountUse, history
    <3> QED BY <1>0, <2>2, <2>3, <3>1, <3>2
  <2>5. CASE Abort(r)
    <3>1. uses' = uses
      BY <2>5 DEF Abort, db, uses
    <3>2. uncounted'[c] = IF req[r].code = c THEN uncounted[c] + 1 ELSE uncounted[c]
      BY <1>2, <2>3, <2>5 DEF Abort, TypeOK
    <3> QED BY <1>0, <2>2, <2>3, <3>1, <3>2
  <2> QED BY <1>2, <2>4, <2>5
<1>3. ASSUME NEW r \in Requests, Start(r) \/ Step(r) \/ Abort(r),
             ~(InsertMember(r) /\ req[r].route = "joinInvite" /\ chat_members[req[r].user] = "none"),
             ~((CountUse(r) \/ Abort(r)) /\ req[r].pc = "countUse")
      PROVE  admitted'[c] = uses' + n' + uncounted'[c]
  <2>1. n' = n
    BY <1>3, CountingMoves DEF n
  <2>2. UNCHANGED <<admitted, uncounted>>
    BY <1>3
    DEF Start, StartAdd, StartTarget, StartSelf, Abort,
        Step, RequireAdmin, RequireMember, RequireOwner, ReadRole, ReadChannel, ReadInvite,
        ReadTarget, ReadMe, ReadBanOfId, ReadBanOfCaller, InsertMember, DeleteMember, CountUse,
        UpdateRole, InsertBan, DeleteBan, InsertInvite, UpdateInvite, RefreshMembersCount,
        PublishMemberJoined, PublishMemberLeft, history
  <2>3. uses' = uses
    <3>1. ASSUME uses' # uses PROVE FALSE
      <4>1. PICK p \in Requests : CountUse(p)
        BY <3>1, LinkMoves DEF uses
      <4>2. req[p].pc = "countUse" /\ req'[p].pc = "refresh"
        BY <4>1, GotoFields DEF CountUse, Statements
      <4>3. p = r
        BY <1>3, <4>2, OthersKept
      <4> QED BY <1>3, <4>1, <4>2, <4>3
    <3> QED BY <3>1
  <2> QED BY <1>0, <2>1, <2>2, <2>3
<1>4. ASSUME (\E code \in Codes : Expire(code)) \/ UNCHANGED vars
      PROVE  admitted'[c] = uses' + n' + uncounted'[c]
  <2>1. UNCHANGED <<req, admitted, uncounted>>
    BY <1>4 DEF Expire, vars, history
  <2>2. n' = n
    BY <2>1 DEF n, Counting
  <2>3. uses' = uses
    BY <1>4 DEF Expire, vars, uses, TypeOK, Invite
  <2> QED BY <1>0, <2>1, <2>2, <2>3
<1>5. ASSUME NEW r \in Requests, Start(r) \/ Step(r) \/ Abort(r)
      PROVE  admitted'[c] = uses' + n' + uncounted'[c]
  <2>1. CASE InsertMember(r) /\ req[r].route = "joinInvite" /\ chat_members[req[r].user] = "none"
    BY <1>1, <2>1
  <2>2. CASE (CountUse(r) \/ Abort(r)) /\ req[r].pc = "countUse"
    BY <1>2, <2>2
  <2> QED BY <1>3, <1>5, <2>1, <2>2
<1> QED BY <1>4, <1>5 DEF Next, uses, n

LEMMA AdmissionsInvariant == Spec => []AdmissionsCounted
<1>1. Init => AdmissionsCounted
  <2> SUFFICES ASSUME Init, NEW c \in Codes
               PROVE  admitted[c] = chat_invites[c].uses + Cardinality(Counting(c)) + uncounted[c]
    BY DEF AdmissionsCounted
  <2>1. Counting(c) = {}
    BY IdleType DEF Init, Counting
  <2> QED BY <2>1, FS_EmptySet DEF Init
<1> QED BY <1>1, AdmissionsNext, TypeCorrect, ControlInvariant, PTL DEF Spec

\* A limited link brings in beyond its limit fewer members than there are
\* requests, and one more for each join that stopped before it counted its use.
THEOREM InviteOvershoot == Spec => []InviteOvershootBounded
<1>1. TypeOK /\ UsesBounded /\ AdmissionsCounted => InviteOvershootBounded
  <2> SUFFICES ASSUME TypeOK, UsesBounded, AdmissionsCounted,
                      NEW c \in Codes, chat_invites[c].member_limit # 0
               PROVE  admitted[c] + Cardinality(Entering(c))
                        < chat_invites[c].member_limit + Cardinality(Requests) + uncounted[c]
    BY DEF InviteOvershootBounded
  <2>1. chat_invites[c].uses \in Nat /\ chat_invites[c].member_limit \in Nat
    BY ConstantsAssumption DEF TypeOK, Invite
  <2>2. uncounted[c] \in Nat /\ admitted[c] \in Nat /\ Cardinality(Requests) \in Nat
    BY JoiningFinite DEF TypeOK
  <2>3. chat_invites[c].uses + Cardinality(Joining(c))
          < chat_invites[c].member_limit + Cardinality(Requests)
    BY DEF UsesBounded
  <2>4. admitted[c] = chat_invites[c].uses + Cardinality(Counting(c)) + uncounted[c]
    BY DEF AdmissionsCounted
  <2> QED BY <2>1, <2>2, <2>3, <2>4, JoiningParts
<1> QED BY <1>1, TypeCorrect, UsesStayBounded, AdmissionsInvariant, PTL

-------------------------------------------------------------------------------
(* Bans.  A user comes in by InsertMember, whose request stops being one   *)
(* that admits them, and a request comes to that statement only by finding *)
(* no ban.                                                                 *)

AsMember(u) == Cardinality(Members \cap {u})

LEMMA OneOrNone ==
  ASSUME NEW u
  PROVE  AsMember(u) = IF u \in Members THEN 1 ELSE 0
<1>1. Members \cap {u} = IF u \in Members THEN {u} ELSE {}
  OBVIOUS
<1> QED BY <1>1, FS_Singleton, FS_EmptySet DEF AsMember

LEMMA AdmittingFinite ==
  ASSUME NEW u
  PROVE  IsFiniteSet(Admitting(u)) /\ Cardinality(Admitting(u)) \in Nat
<1>1. Admitting(u) \in SUBSET Requests
  BY DEF Admitting
<1> QED BY <1>1, ConstantsAssumption, SubsetCard

\* A request comes to the insert of a user only when it finds no ban of them.
LEMMA AdmitsUnbanned ==
  ASSUME TypeOK, ControlOK, NEW r \in Requests, Start(r) \/ Step(r) \/ Abort(r),
         NEW u \in chat_bans
  PROVE  Admitting(u)' \subseteq Admitting(u) /\ (InsertMember(r) => r \notin Admitting(u)')
<1> USE DEF AllRoutes, AddRoutes, TargetRoutes, SelfRoutes, InviteRoutes, Statements
<1>1. \A p \in Requests \ {r} : p \in Admitting(u)' <=> p \in Admitting(u)
  BY OthersKept DEF Admitting
<1>2. ASSUME r \in Admitting(u)' PROVE FALSE
  <2>0. req'[r].pc = "insertMember" /\ req'[r].user = u
    BY <1>2 DEF Admitting
  <2>1. req'[r] # Idle /\ ~Finish(r)
    BY <2>0, IdleType, FinishFields
  <2>2. ~Start(r)
    <3>1. ASSUME Start(r) PROVE FALSE
      <4>1. PICK route \in AllRoutes, q \in Request :
               req' = [req EXCEPT ![r] = q] /\ q.pc = Entry(route)
        BY <3>1, StartShape
      <4>2. req'[r].pc = Entry(route)
        BY <4>1 DEF TypeOK
      <4> QED BY <2>0, <4>2 DEF Entry
    <3> QED BY <3>1
  <2>3. Step(r)
    BY <2>1, <2>2 DEF Abort
  <2>4. req \in [Requests -> Request] /\ req[r] \in Request
    BY DEF TypeOK
  <2>5. ASSUME NEW v \in Users, ReadBanOfId(r, v) PROVE FALSE
    <3>1. /\ req'[r].user = v
          /\ req'[r].pc = IF v \in chat_bans THEN NextId(req[r].todo \ {v}) ELSE "insertMember"
      BY <2>4, <2>5 DEF ReadBanOfId, Request
    <3> QED BY <2>0, <3>1 DEF NextId
  <2>6. CASE ReadBanOfCaller(r)
    BY <2>0, <2>1, <2>4, <2>6, GotoFields DEF ReadBanOfCaller
  <2>7. ASSUME NEW s, Goto(r, s) PROVE s = "insertMember"
    BY <2>0, <2>4, <2>7 DEF Goto, Request
  <2>8. ASSUME Step(r), ~ReadBanOfCaller(r), \A v \in Users : ~ReadBanOfId(r, v) PROVE FALSE
    <3>1. ReadTarget(r) \/ PublishMemberJoined(r)
      BY <2>1, <2>7, <2>8
      DEF Step, RequireAdmin, RequireMember, RequireOwner, ReadRole, ReadChannel, ReadInvite,
          ReadMe, InsertMember, DeleteMember, UpdateRole, CountUse, InsertBan, DeleteBan,
          InsertInvite, UpdateInvite, RefreshMembersCount, PublishMemberLeft, AfterAdmin
    <3>2. ASSUME NEW ids, NEW role, NEW s, s # "insertMember",
                 \/ req' = [req EXCEPT ![r] = [@ EXCEPT !.seen = role, !.pc = s]]
                 \/ req' = [req EXCEPT ![r] = [@ EXCEPT !.added = ids, !.pc = s]]
          PROVE  FALSE
      <4>1. CASE req' = [req EXCEPT ![r] = [@ EXCEPT !.seen = role, !.pc = s]]
        BY <2>0, <2>4, <3>2, <4>1 DEF Request
      <4>2. CASE req' = [req EXCEPT ![r] = [@ EXCEPT !.added = ids, !.pc = s]]
        BY <2>0, <2>4, <3>2, <4>2 DEF Request
      <4> QED BY <3>2, <4>1, <4>2
    <3>3. NextId(req[r].todo) # "insertMember"
      BY DEF NextId
    <3> QED BY <2>1, <3>1, <3>2, <3>3 DEF ReadTarget, PublishMemberJoined
  <2> QED BY <2>3, <2>5, <2>6, <2>8
<1>3. Admitting(u)' \subseteq Requests
  BY DEF Admitting
<1>4. r \notin Admitting(u)'
  BY <1>2
<1>5. \A p \in Admitting(u)' : p \in Admitting(u)
  BY <1>1, <1>3, <1>4
<1> QED BY <1>4, <1>5

\* Only an insert makes a user a member.
LEMMA ComesInByInsert ==
  ASSUME TypeOK, NEW u \in Users, [Next]_vars, u \in Members', u \notin Members
  PROVE  \E r \in Requests : InsertMember(r) /\ req[r].user = u
<1>0. chat_members[u] = "none" /\ chat_members'[u] # "none"
  BY DEF Members
<1>1. PICK r \in Requests : InsertMember(r) \/ DeleteMember(r) \/ UpdateRole(r)
  <2>1. ASSUME NEW r \in Requests, Start(r) \/ Abort(r) PROVE FALSE
    BY <1>0, <2>1 DEF Start, StartAdd, StartTarget, StartSelf, Abort, db, history
  <2>2. ASSUME (\E code \in Codes : Expire(code)) \/ UNCHANGED vars PROVE FALSE
    BY <1>0, <2>2 DEF Expire, vars, history
  <2>3. ASSUME NEW r \in Requests, Step(r), ~(InsertMember(r) \/ DeleteMember(r) \/ UpdateRole(r))
        PROVE  FALSE
    BY <1>0, <2>3
    DEF Step, RequireAdmin, RequireMember, RequireOwner, ReadRole, ReadChannel, ReadInvite,
        ReadTarget, ReadMe, ReadBanOfId, ReadBanOfCaller, CountUse, InsertBan, DeleteBan,
        InsertInvite, UpdateInvite, RefreshMembersCount, PublishMemberJoined,
        PublishMemberLeft, db, history
  <2> QED BY <2>1, <2>2, <2>3 DEF Next
<1>2. req[r].user \in Users
  BY DEF TypeOK, Request
<1>3. ~DeleteMember(r)
  BY <1>0, <1>2 DEF DeleteMember, TypeOK
<1>4. ~UpdateRole(r)
  BY <1>0, <1>2 DEF UpdateRole, TypeOK
<1>5. InsertMember(r)
  BY <1>1, <1>3, <1>4
<1> QED BY <1>0, <1>2, <1>5 DEF InsertMember, TypeOK

\* While a user is banned, they can be brought in only by the requests that had
\* looked for a ban before, each of them once.
THEOREM BansHold == Spec => BannedStaysOut
<1> DEFINE Held == \A u \in chat_bans \cap chat_bans' :
                      Cardinality(Members \cap {u})' + Cardinality(Admitting(u))'
                        <= Cardinality(Members \cap {u}) + Cardinality(Admitting(u))
<1>1. TypeOK /\ TypeOK' /\ ControlOK /\ [Next]_vars => Held
  <2> SUFFICES ASSUME TypeOK, TypeOK', ControlOK, [Next]_vars,
                      NEW u \in chat_bans \cap chat_bans'
               PROVE  Cardinality(Members \cap {u})' + Cardinality(Admitting(u))'
                        <= Cardinality(Members \cap {u}) + Cardinality(Admitting(u))
    OBVIOUS
  <2> DEFINE n == Cardinality(Admitting(u))
  <2>0. u \in Users /\ u \in chat_bans
    BY DEF TypeOK
  <2>1. /\ Cardinality(Members \cap {u}) = IF u \in Members THEN 1 ELSE 0
        /\ Cardinality(Members \cap {u})' = IF u \in Members' THEN 1 ELSE 0
    <3>1. Members' \cap {u} = IF u \in Members' THEN {u} ELSE {}
      OBVIOUS
    <3>2. Cardinality(Members' \cap {u}) = IF u \in Members' THEN 1 ELSE 0
      BY <3>1, FS_Singleton, FS_EmptySet
    <3> QED BY <3>2, OneOrNone DEF AsMember
  <2>2. Admitting(u)' \subseteq Admitting(u)
    <3>1. ASSUME NEW r \in Requests, Start(r) \/ Step(r) \/ Abort(r)
          PROVE  Admitting(u)' \subseteq Admitting(u)
      BY <2>0, <3>1, AdmitsUnbanned
    <3>2. CASE (\E code \in Codes : Expire(code)) \/ UNCHANGED vars
      <4>1. UNCHANGED req
        BY <3>2 DEF Expire, vars, history
      <4> QED BY <4>1 DEF Admitting
    <3> QED BY <3>1, <3>2 DEF Next
  <2>3. n \in Nat /\ n' \in Nat /\ n' <= n
    BY <2>2, AdmittingFinite, SubsetCard
  <2>4. CASE u \in Members' /\ u \notin Members
    <3>1. PICK r \in Requests : InsertMember(r) /\ req[r].user = u
      BY <2>0, <2>4, ComesInByInsert
    <3>2. r \notin Admitting(u)' /\ r \in Admitting(u)
      <4>1. Step(r)
        BY <3>1 DEF Step
      <4>2. r \notin Admitting(u)'
        BY <2>0, <3>1, <4>1, AdmitsUnbanned
      <4> QED BY <3>1, <4>2 DEF InsertMember, Admitting
    <3>3. Admitting(u)' \in SUBSET (Admitting(u) \ {r})
      BY <2>2, <3>2
    <3>4. IsFiniteSet(Admitting(u) \ {r}) /\ Cardinality(Admitting(u) \ {r}) = n - 1
      BY <3>2, AdmittingFinite, FS_RemoveElement
    <3>5. n' <= n - 1
      BY <3>3, <3>4, SubsetCard
    <3> QED BY <2>1, <2>3, <2>4, <3>5
  <2>5. CASE ~(u \in Members' /\ u \notin Members)
    BY <2>1, <2>3, <2>5
  <2> QED BY <2>4, <2>5
<1>2. TypeOK /\ TypeOK' /\ ControlOK /\ [Next]_vars => [Held]_vars
  BY <1>1
<1> QED BY <1>2, TypeCorrect, ControlInvariant, PTL DEF Spec, BannedStaysOut

===============================================================================
