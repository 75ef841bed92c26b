CONSTANTS
    a = a
    o = o
    r1 = r1
    r2 = r2
    m1 = m1
    m2 = m2
    m3 = m3
    k1 = k1
    k2 = k2
    t1 = t1
    t2 = t2
    NoKey = NoKey
    InitialRole <- Roster
    RoleChanges = {}
    Users = {a}
    Requests = {r1, r2}
    Ids = {m1, m2}
    Keys = {k1}
    Texts = {t1}
    ChatType = "group"
    SlowMode = 0
    MaxTime = 0
    MaxLog = 3
    Routes = {"send"}
    MayAbort = TRUE
SPECIFICATION Spec
SYMMETRY Symmetry
INVARIANT AnsweredIsAnnounced
