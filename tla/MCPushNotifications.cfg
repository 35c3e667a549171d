\* Two accounts of which one is sent messages, two devices, three tokens.
SPECIFICATION Spec
CONSTANTS
    Users = {ua, ub}
    Recipients = {ua}
    Devices = {d1, d2}
    Tokens = {t1, t2, t3}
    Null = Null
    Workers = {w1, w2}
SYMMETRY Symmetry
PROPERTIES
    MutedStaysSilent
    WorkingTokenStays
    NoForeignPush
CHECK_DEADLOCK FALSE
