CONSTANTS
    Initiator = alice
    Responder = bob
    Slots = {1, 2}
    MAX_SKIP = 1
    MaxSent = 2
SPECIFICATION Spec
CHECK_DEADLOCK FALSE
INVARIANTS FreshKeys
