SPECIFICATION FairSpec
CONSTANTS
    r1 = r1
    r2 = r2
    t1 = t1
    Relays = {r1}
    Pipelines = {p1}
    Configs = {v1, v2}
    Tenants = {t1}
    DefaultTenant = t1
    Limit <- MCLimit
    TenantOf <- MCTenantOf
    NoTenant = NoTenant
    Preflighted = {v1, v2}
    Resolvable = {v1, v2}
    MaxTrouble = 1
PROPERTIES ModifiedPipelinesRestart
