\* Two passwords, two links in all, two requests for a link in a window.
SPECIFICATION Spec
CONSTANTS
    Workers = {w1, w2}
    Passwords = {p1, p2}
    Null = Null
    Max = 2
    MaxLinks = 2
    Ops = {"forgot", "reset", "change", "send", "verify"}
SYMMETRY Symmetry
INVARIANTS
    CounterEnds
    HonestAnswer
PROPERTIES
    ImplementsRateWindow
    OldLinksDie
    LinkServesOnce
CHECK_DEADLOCK FALSE
