CONSTANTS
    s1 = s1
    s2 = s2
    c1 = c1
    c2 = c2
    Sources = {s1, s2}
    Clusters = {c1, c2}
    None = None
    MaxInt32 = 3
    VersionAs = "ToInteger"
    Clients = {s1, c1}
    Events <- Traffic
    MaxPublished = 1
    Pollers = 2
    Patchers = {p1}
SPECIFICATION FairSpec
PROPERTY Reconnects
\* The receiver has returned and nobody patches.
CHECK_DEADLOCK FALSE
