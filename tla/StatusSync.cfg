CONSTANTS
    Works = {work}
    Statuses = {empty, applied, available}
    Empty = empty
    Absent = absent
    MaxChanges = 3
    MaxMishaps = 1
    MaxResyncs = 2
SPECIFICATION Spec
INVARIANTS TypeOK StatusResyncRepairs PublishedFirst
PROPERTY Converges
\* The agent and the source have nothing to do once they agree.
CHECK_DEADLOCK FALSE
