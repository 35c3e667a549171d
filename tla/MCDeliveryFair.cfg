\* One recipient, two devices, two messages, no fault: what FairSpec delivers.
SPECIFICATION FairSpec
CONSTANTS
    ua = ua
    Users = {ua}
    Messages = {m1, m2}
    Sockets = {s1, s2}
    Owner <- MCOwner
    Members = {ua}
    InboxLimit = 1
    ClientOps = {}
    MaxClientCalls = 0
    Faults = {}
INVARIANTS
    NothingLost
PROPERTIES
    QueuedIsMarked
CHECK_DEADLOCK FALSE
