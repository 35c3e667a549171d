\* Three accounts and a limit of two: with one seat left, two additions overrun it.
SPECIFICATION Spec
CONSTANTS
    cr = cr
    ua = ua
    ub = ub
    Users = {cr, ua, ub}
    Creator = cr
    Workers = {w1, w2}
    MaxGroupSize = 2
    MaxBatch = 2
    Blockable <- MCBlockable
SYMMETRY Symmetry
INVARIANTS
    TypeOK
    CreatorKeepsGroup
    OverrunBounded
PROPERTIES
    IsolatedAddFits
    IsolatedCreatorLeaveKeepsAdmin
    BlockKeepsOut
CHECK_DEADLOCK FALSE
