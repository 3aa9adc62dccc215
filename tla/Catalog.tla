------------------------------ MODULE Catalog ------------------------------
(***************************************************************************)
(* The relay catalog: the rows of tide.relay_outbox_config and the SQL     *)
(* functions operators change them with (pg-tide-ext/src/relay.rs).  A     *)
(* configuration is a value; only two things are said of it: does it pass  *)
(* the relay's preflight, and do its secret references resolve.            *)
(***************************************************************************)
EXTENDS FiniteSets, Naturals

CONSTANTS
    Pipelines,      \* pipeline names
    Configs,        \* configuration documents
    Tenants,        \* tenant names
    DefaultTenant   \* the tenant_name of a new row

ASSUME DefaultTenantAssumption == DefaultTenant \in Tenants

VARIABLE catalog    \* rows by name: enabled, configuration, tenant

Rows == [enabled : BOOLEAN, config : Configs, tenant : Tenants]

\* Partial functions from S to T.
Partial(S, T) == UNION {[D -> T] : D \in SUBSET S}

CatalogTypeOK == catalog \in Partial(Pipelines, Rows)

\* f with y under x.
With(f, x, y) == [z \in DOMAIN f \cup {x} |-> IF z = x THEN y ELSE f[z]]

\* f without the entries of S.
Without(f, S) == [x \in DOMAIN f \ S |-> f[x]]

-----------------------------------------------------------------------------

\* The upsert names only enabled and config: a row keeps its tenant, a new one
\* gets the column's default.
relay_set_outbox_v2(p, c, on) ==
    LET tenant == IF p \in DOMAIN catalog THEN catalog[p].tenant
                                          ELSE DefaultTenant
    IN  catalog' = With(catalog, p, [enabled |-> on, config |-> c, tenant |-> tenant])

\* The functions below report RelayNotFound for a name without a row.
relay_enable(p) ==
    /\ p \in DOMAIN catalog
    /\ catalog' = [catalog EXCEPT ![p].enabled = TRUE]

relay_disable(p) ==
    /\ p \in DOMAIN catalog
    /\ catalog' = [catalog EXCEPT ![p].enabled = FALSE]

relay_delete(p) ==
    /\ p \in DOMAIN catalog
    /\ catalog' = Without(catalog, {p})

\* Nothing stops the worker of the pipeline first.
relay_set_tenant(p, t) ==
    /\ p \in DOMAIN catalog
    /\ catalog' = [catalog EXCEPT ![p].tenant = t]

CatalogChange ==
    \E p \in Pipelines :
        \/ \E c \in Configs, on \in BOOLEAN : relay_set_outbox_v2(p, c, on)
        \/ relay_enable(p)
        \/ relay_disable(p)
        \/ relay_delete(p)
        \/ \E t \in Tenants : relay_set_tenant(p, t)

=============================================================================
