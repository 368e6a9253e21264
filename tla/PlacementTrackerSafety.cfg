CONSTANTS
    Clusters = {1, 2}
    NoName = ""
    Names = {"", "a"}
    MaxIndex = 2
    Decisions = {1, 2}
    Callers = {1}
    None = None
    BadLabel = BadLabel
SPECIFICATION Spec
INVARIANTS TypeOK  
