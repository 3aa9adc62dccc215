SPECIFICATION Spec
CONSTANTS
    Configs <- DlqConfigs
    BatchSize = 2
    MaxId = 2
    MaxFailures = 3
INVARIANTS
    AttemptsBeforeDlq
CHECK_DEADLOCK FALSE
