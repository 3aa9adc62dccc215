SPECIFICATION ComponentsSpec
CONSTANTS
    Sessions = {s1, s2}
    NoEvent = NoEvent
    NoCatalogRow = NoCatalogRow
    NoOutbox = NoOutbox
    Roles = {p1, p2}
    Superusers = {p2}
    Groups = {g}
    orders = orders
    audit = audit
    g1 = g1
    g2 = g2
    Publishers = {p1}
    Sweepers = {s1, s2}
    Pipelines = {orders}
    ConsumerGroups = {audit}
    Readers <- TwoGroups
    SweepBatch = 1
    MaxId = 2
    BatchSize = 2
    MaxRetries = 1
    MaxRow = 3
    MaxTrouble = 3
    Events = {"e1", "e2"}
    MaxAttempts = 2
    MaxForgotten = 1
    MaxOutcomes = 3
    MaxReplayId = 3
    MaxSetbacks = 1
    MaxChanges = 5
    MaxBatches = 2
    MaxRows = 3
    Span = 2
    Ahead = 0
    MaxStoredId = 4
SYMMETRY Symmetry
INVARIANTS
    ComponentsInv FirstDeliveriesInOrder OnceWhileRemembered NothingPassedOver
    OneOutcome ReplayIsComplete ReplayStaysInRange
    ValidatedRowsStart SchemaCoversParser MigrationListsRemoved
    CheckedWhilePermitted NewOutboxIsSeen NothingOutlivesItsOutbox
    SuccessIsComplete EveryOutboxTried ReportsWhatWasDeleted IInv IdsUnique
PROPERTIES KeptUntilProcessed RemovesOnlyCleared NewRowsAheadUnlessRewound
CHECK_DEADLOCK FALSE
