\* Two DIRECT conversations at most, one group, one pin: every limit is reached.
SPECIFICATION Spec
CONSTANTS
    ua = ua
    ub = ub
    Users = {ua, ub}
    Directs = {d1, d2}
    Groups = {g1}
    Self = ua
    Workers = {w1, w2}
    MaxPinned = 1
    Blockable <- MCBlockable
SYMMETRY Symmetry
PROPERTIES
    IsolatedCreateIsFirst
    IsolatedPinFits
    BlockSilences
    IsolatedSendReaches
