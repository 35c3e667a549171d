\* One recipient, two devices, one message, every fault.
SPECIFICATION Spec
CONSTANTS
    ua = ua
    Users = {ua}
    Messages = {m1}
    Sockets = {s1, s2}
    Owner <- MCOwner
    Members = {ua}
    InboxLimit = 1
    ClientOps = {"deliver", "read", "read_all"}
    MaxClientCalls = 1
    Faults = {"crash", "reject", "expire", "membership"}
SYMMETRY Symmetry
INVARIANTS
    KeyHasSocket
    SenderToldTruth
    NothingLost
PROPERTIES
    ReadSticks
    QueuedUntilMarked
CHECK_DEADLOCK FALSE
