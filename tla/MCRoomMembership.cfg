\* One account with two devices, another without: every order of two requests.
SPECIFICATION FairSpec
CONSTANTS
    ua = ua
    ub = ub
    a1 = a1
    a2 = a2
    Users = {ua, ub}
    Sockets = {a1, a2}
    Owner <- MCOwner
    Workers = {w1, w2}
    Faults = TRUE
INVARIANTS
    MembersHear
    OutsidersHearNothing
PROPERTIES
    RoomCatchesUp
