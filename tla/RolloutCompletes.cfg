CONSTANTS
    Clusters = {1, 2, 3}
    GroupOf <- Groups01
    Strategies <- LivenessStrategies
    None = None
    ReportsTimeOut = TRUE
    MaxChanges = 1
    MaxDrifts = 0
SPECIFICATION FairSpec
PROPERTIES Completes
\* The rollout is over when it has nothing to do and nothing changes.
CHECK_DEADLOCK FALSE
