CONSTANTS
    Clients = {c1, c2, c3}
    Slots = {r1, r2, r3}
    Publishers = {p1}
    Subscribers = {s1}
    ErrorsPerDrop = 1
    MaxDrops = 2
    None = None
SPECIFICATION FairSpec
PROPERTIES
    
    CallsReturn
CHECK_DEADLOCK FALSE
