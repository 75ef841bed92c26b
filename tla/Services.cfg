CONSTANTS
    Two = {r1, r2}
    Three = {q1, q2, q3}
    Logins = {i1, i2}
    Lists = {l1}
    Resends = {n1}
    MAX_ATTEMPTS = 1
    HOURLY_LIMIT = 1
    Readers = {p1, p2}
    Users = {u1, u2}
    Options = {o1, o2}
    NoVote = NoVote
    Initiator = alice
    Responder = bob
    Deletions = {d1}
    Slots = {s1, s2}
    MAX_SKIP = 1
    MaxSent = 4
    Steps = {1, 2}
    MaxPairs = 4
    MaxBuilds = 3
    MaxSecrets = 3
    MaxFaults = 1
    Script <- FiveEvents
    BULK_MAX_SIZE = 2
    MAX_RETRIES = 1
    MaxBulks = 4
    Amounts = {1, 2}
    MaxMessages = 4
    MaxLosses = 2
SPECIFICATION Spec
SYMMETRY Symmetry
CHECK_DEADLOCK FALSE
INVARIANTS TypeOK NoNeedlessBounce LoggedOutStaysOut
INVARIANTS ReadOnArrivalOnly TreeHasEntry Conserved FindOrCreate
INVARIANTS SendsIndexedOnce BallotHolds AnnouncedPresence OneSavedChat CodeWorksOnce FactorAsConfirmed
