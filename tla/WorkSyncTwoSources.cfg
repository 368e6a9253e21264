CONSTANTS
    s1 = s1
    s2 = s2
    w1 = w1
    w2 = w2
    Sources = {s1, s2}
    Works = {w1, w2}
    Owner <- OwnerTwo
    Absent = Absent
    MaxVersion = 1
    MaxDups = 0
    MaxPatches = 0
    MaxResyncs = 1
SPECIFICATION Spec
INVARIANTS DeletedByOwner
\* The bounds are used up and every message delivered.
CHECK_DEADLOCK FALSE
