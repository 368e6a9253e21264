CONSTANTS
    Clients = {c1, c2, c3}
    Slots = {r1, r2, r3, r4}
    Publishers = {p1, p2}
    Subscribers = {s1, s2}
    ErrorsPerDrop = 1
    MaxDrops = 3
    None = None
SPECIFICATION Spec
SYMMETRY Symmetry
INVARIANTS
    TypeOK
    SendOnCurrentClient
    PanicOnlyInShutdown
    
    AtMostOneOrphan
\* A panic ends the process, and after a cancellation all goroutines may exit.
CHECK_DEADLOCK FALSE
