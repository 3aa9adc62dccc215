SPECIFICATION FairSpec
CONSTANTS
    Configs <- MCConfigs
    BatchSize = 2
    MaxId = 4
    MaxFailures = 2
INVARIANTS
    IInv
    SinkSpared
PROPERTIES
    ImplementsChannel
    FollowsDeliveryModel
    RowsGetPast
CHECK_DEADLOCK FALSE
