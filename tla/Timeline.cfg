CONSTANTS
    Me = Me
    Other = Other
    m1 = m1
    m2 = m2
    t1 = t1
    Messages = {m1, m2}
    Author <- Authors
    Text <- Texts
    Deletable = {m1, m2}
    MaxFaults = 1
    Crashes = TRUE
    RECONNECTION_ATTEMPTS = 2
    Limit = 1
SPECIFICATION Spec
CHECK_DEADLOCK FALSE
INVARIANTS TypeOK ShownOnce DeletedStaysGone
PROPERTIES AnnouncedIsShown OfflineMessagesAppear
