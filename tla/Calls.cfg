CONSTANTS
    a = a
    b = b
    c1 = c1
    c2 = c2
    r1 = r1
    r2 = r2
    Nothing = Nothing
    Users = {a, b}
    InitialMembers = {a, b}
    CallIds = {c1, c2}
    MaxParticipants = 1
    Requests = {r1, r2}
    MembersChange = TRUE
    MayAbort = TRUE
SPECIFICATION Spec
SYMMETRY Symmetry
CONSTRAINT Bound
INVARIANTS TypeOK LiveCallHasParticipants CapacityOvershootBounded RingsForLiveCall
PROPERTIES NoFurtherCall OutsidersStayOut
