CONSTANTS
    Clusters = {1, 2, 3}
    GroupOf <- Groups01
    Strategies <- SafetyStrategies
    None = None
    ReportsTimeOut = FALSE
    MaxChanges = 3
    MaxDrifts = 1
SPECIFICATION Spec
INVARIANTS TypeOK InNameOrder
PROPERTIES WithinConcurrency StopsWhenBreached  
\* The rollout is over when it has nothing to do and nothing changes.
CHECK_DEADLOCK FALSE
