SPECIFICATION FairSpec
CONSTANTS
    orders = orders
    audit = audit
    c1 = c1
    Publishers = {p1}
    Sweepers = {s1, s2}
    Pipelines = {orders}
    ConsumerGroups = {audit}
    Readers <- OneConsumer
    SweepBatch = 1
    MaxId = 2
PROPERTIES
    EligibleRowsGo
CHECK_DEADLOCK FALSE
