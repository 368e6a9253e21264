CONSTANTS
    deployment = deployment
    service = service
    secret = secret
    Keys = {deployment, service, secret}
    Sizes = {1, 2, 3}
    Demands <- Needs
    Limit = 3
    Names = {0, 1, 2, 3, 4, 5}
    UniqueNames = TRUE
    None = None
    MaxWants = 2
    MaxMishaps = 1
SPECIFICATION Spec
INVARIANTS TypeOK Rested
PROPERTIES WithinLimit NeverWithdrawn Converges
CHECK_DEADLOCK FALSE
