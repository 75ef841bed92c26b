CONSTANTS
    Tabs = {t1, t2}
    Requests = {r1, r2}
    MaxPairs = 3
    MaxFaults = 0
SPECIFICATION Spec
SYMMETRY Symmetry
CHECK_DEADLOCK FALSE
INVARIANT NoNeedlessBounce
