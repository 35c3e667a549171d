\* Two devices, two requests in flight, three tokens, two seconds.
SPECIFICATION Spec
CONSTANTS
    Devices = {d1, d2}
    Workers = {w1, w2}
    MaxRows = 3
    MaxTime = 1
SYMMETRY Symmetry
INVARIANTS
    TypeOK
    LoggedOutStaysOut
PROPERTIES
    ImplementsTokenFamily
    UndisturbedResetRevokes
    OnlySignInsAdd
CHECK_DEADLOCK FALSE
