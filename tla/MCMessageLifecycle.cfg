\* One account that is an admin of the group, three messages, one file uploaded as an image
\* or a document.
SPECIFICATION Spec
CONSTANTS
    Users = {ua}
    Admins = {ua}
    Group = TRUE
    Messages = {m1, m2, m3}
    Uploads = {k1}
    Files = {f1}
    Kinds = {"image", "document"}
    Contents = {c1}
    Null = Null
    Workers = {w1, w2}
    MaxTargets = 2
    Ops = {"text", "media", "edit", "delete", "forward", "failure", "crash"}
SYMMETRY Symmetry
INVARIANTS
    FilesBacked
    NoOrphanFiles
    LineageIsFlat
PROPERTIES
    DeletedIsFrozen
CHECK_DEADLOCK FALSE
