CONSTANTS
    o = o
    a = a
    b = b
    r1 = r1
    r2 = r2
    c1 = c1
    Users = {o, a, b}
    Creator = o
    Requests = {r1, r2}
    Codes = {c1}
    MemberLimits = {1}
    Routes = {"addGroup", "setRole", "leave", "ban"}
    IsPublic = TRUE
    MayAbort = FALSE
    MaxUncounted = 0
SPECIFICATION Spec
SYMMETRY Symmetry
INVARIANTS TypeOK Ownership NoLostAnnouncement
PROPERTIES RoleChangesByOwner BannedStaysOut
