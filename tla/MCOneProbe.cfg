SPECIFICATION Spec
CONSTANTS
    Configs <- BreakerOnlyConfigs
    BatchSize = 2
    MaxId = 6
    MaxFailures = 2
INVARIANTS
    OneProbe
CHECK_DEADLOCK FALSE
