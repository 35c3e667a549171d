\* One device that refreshes with a token it has exchanged before.
SPECIFICATION Spec
CONSTANTS
    Devices = {d1}
    Workers = {w1}
    MaxRows = 3
    MaxTime = 1
SYMMETRY Symmetry
PROPERTIES
    ReuseRevokesFamily
CHECK_DEADLOCK FALSE
