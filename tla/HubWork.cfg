CONSTANTS
    Specs = {A, B}
    Controllers = {c, d}
    None = None
    IgnoreResourceVersion = FALSE
    MaxSpecPatches = 1
    Losable = {"patch", "delete"}
    MaxWants = 2
    MaxLost = 1
SPECIFICATION Spec
INVARIANTS TypeOK NothingLost 
 
CHECK_DEADLOCK FALSE
