\* The creator leaves while the only other admin is leaving, removed or demoted.
SPECIFICATION Spec
CONSTANTS
    cr = cr
    ua = ua
    ub = ub
    Users = {cr, ua, ub}
    Creator = cr
    Workers = {w1, w2}
    MaxGroupSize = 2
    MaxBatch = 2
    Blockable <- MCBlockable
SYMMETRY Symmetry
PROPERTIES
    CreatorLeavesAnAdmin
CHECK_DEADLOCK FALSE
