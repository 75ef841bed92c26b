CONSTANTS
    o = o
    a = a
    b = b
    r1 = r1
    r2 = r2
    c1 = c1
    Users = {o, a, b}
    Creator = o
    Requests = {r1, r2}
    Codes = {c1}
    MemberLimits = {1}
    Routes = {"join", "remove", "leave", "unban", "createInvite", "revokeInvite", "joinInvite"}
    IsPublic = TRUE
    MayAbort = TRUE
    MaxUncounted = 1
SPECIFICATION Spec
SYMMETRY Symmetry
INVARIANTS CountExact InviteOvershootBounded
PROPERTIES DeadInviteAdmitsNobody
