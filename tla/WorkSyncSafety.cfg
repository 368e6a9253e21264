CONSTANTS
    s1 = s1
    s2 = s2
    w1 = w1
    w2 = w2
    Sources = {s1}
    Works = {w1}
    Owner <- OwnerOne
    Absent = Absent
    MaxVersion = 3
    MaxDups = 1
    MaxPatches = 1
    MaxResyncs = 1
SPECIFICATION Spec
INVARIANTS TypeOK DeletedByOwner NeverAhead ResyncRepairs
PROPERTY CachePromise
\* The bounds are used up and every message delivered.
CHECK_DEADLOCK FALSE
