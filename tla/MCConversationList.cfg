\* Three conversations on pages of one, three messages.
SPECIFICATION Spec
CONSTANTS
    Conversations = {c1, c2, c3}
    Messages = {m1, m2, m3}
    Null = Null
    Workers = {w1}
    Limit = 1
    MaxTime = 6
    Views = {{}, {"isMuted"}}
    Walks = {"list", "history"}
    Ops = {"send", "delete", "read", "flags", "leave"}
SYMMETRY Symmetry
INVARIANTS
    ListWalkComplete
    HistoryWalkComplete
    NothingReadUnasked
CHECK_DEADLOCK FALSE
