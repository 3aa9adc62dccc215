SPECIFICATION FairSpec
CONSTANTS
    r1 = r1
    r2 = r2
    t1 = t1
    Relays = {r1, r2}
    Pipelines = {p1, p2}
    Configs = {good, invalid, nosecret}
    Tenants = {t1, t2}
    DefaultTenant = t1
    Limit <- MCLimit
    TenantOf <- MCTenantOf
    NoTenant = NoTenant
    Preflighted = {good, nosecret}
    Resolvable = {good, invalid}
    MaxTrouble = 2
INVARIANTS IInv OneLiveOwner WithinLimit
PROPERTIES EnabledPipelinesRun DisabledPipelinesStop  DrainEnds
