--------------------------- MODULE MCCoordinator ---------------------------
(* A relay for all tenants and a smaller one for tenant t1.                 *)
EXTENDS Coordinator

CONSTANTS r1, r2, t1

MCLimit == [r \in Relays |-> IF r = r1 THEN 2 ELSE 1]
MCTenantOf == [r \in Relays |-> IF r = r2 THEN t1 ELSE NoTenant]

=============================================================================
