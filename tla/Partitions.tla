----------------------------- MODULE Partitions -----------------------------
(***************************************************************************)
(* The storage of all outboxes (sql/pg_tide--0.42.0--0.43.0.sql): the      *)
(* conversion of the shared table to ID-range partitions, and the          *)
(* maintenance that creates the next ranges and drops old empty ones,      *)
(* beside publishers, relays and sweeps.  The ids of all outboxes come     *)
(* from one identity.  A row is in the child of its range or, when there   *)
(* is none, in the default partition.                                      *)
(***************************************************************************)
EXTENDS Integers, FiniteSets, FiniteSetsExt

CONSTANTS
    Outboxes,     \* each with one publishing session and one relay
    Span,         \* partition_span
    Ahead,        \* p_premake of the conversion, p_ahead of maintenance
    MaxId         \* bound: ids that are drawn

PartitionsAssumption == Span \in Nat \ {0} /\ Ahead \in Nat /\ MaxId \in Nat

VARIABLES
    layout,       \* storage_layout: heap or id_range
    children,     \* lower bounds of the ID-range children
    rows,         \* committed rows, records [id, outbox]
    last_id,      \* the identity
    writing,      \* id of the uncommitted row of each publisher, or 0
    offset,       \* durable offset of each outbox's relay
    maintenance,  \* the maintenance transaction: what it has read and created
    rewound       \* history: a conversion came after the newest row was swept

tableVars == <<layout, children, rows, last_id>>
vars == <<tableVars, writing, offset, maintenance, rewound>>

Lower(id) == (id \div Span) * Span
RowsIn(lower) == {r \in rows : Lower(r.id) = lower}
InDefault == {r \in rows : Lower(r.id) \notin children}

\* COALESCE(MIN(id), 0) and COALESCE(MAX(id), 0)
MinId == Min({r.id : r \in rows} \cup (IF rows = {} THEN {0} ELSE {}))
HighestId == Max({r.id : r \in rows} \cup {0})

Idle == [stage |-> "idle", min |-> 0, max |-> 0, created |-> {}, child |-> 0]

Init ==
    /\ layout = "heap" /\ children = {} /\ rows = {} /\ last_id = 0
    /\ writing = [o \in Outboxes |-> 0]
    /\ offset = [o \in Outboxes |-> 0]
    /\ maintenance = Idle
    /\ rewound = FALSE

-----------------------------------------------------------------------------
(* Publishers, relays and sweeps; OutboxRelay and Retention have them in    *)
(* detail.                                                                  *)

\* A maintenance that has created a child holds the default partition, which
\* keeps out all who read the table, and the rows that would go there.
DefaultLocked == maintenance.created # {}

outbox_publish(o) ==
    /\ writing[o] = 0
    /\ last_id < MaxId
    /\ DefaultLocked => Lower(last_id + 1) \in children
    /\ last_id' = last_id + 1
    /\ writing' = [writing EXCEPT ![o] = last_id + 1]
    /\ UNCHANGED <<layout, children, rows, offset, maintenance, rewound>>

end_transaction(o) ==
    /\ writing[o] # 0
    /\ \/ rows' = rows \cup {[id |-> writing[o], outbox |-> o]}
       \/ UNCHANGED rows
    /\ writing' = [writing EXCEPT ![o] = 0]
    /\ UNCHANGED <<layout, children, last_id, offset, maintenance, rewound>>

\* A fenced poll, and the offset behind the batch.
relay_batch(o) ==
    /\ writing[o] = 0 /\ ~DefaultLocked
    /\ \E r \in rows :
          /\ r.outbox = o /\ r.id > offset[o]
          /\ offset' = [offset EXCEPT ![o] = r.id]
    /\ UNCHANGED <<tableVars, writing, maintenance, rewound>>

outbox_sweep(o) ==
    /\ writing[o] = 0 /\ ~DefaultLocked
    /\ \E r \in rows :
          /\ r.outbox = o /\ r.id <= offset[o]
          /\ rows' = rows \ {r}
    /\ UNCHANGED <<layout, children, last_id, writing, offset, maintenance, rewound>>

-----------------------------------------------------------------------------
(* admin_convert_outbox_storage()                                           *)

\* The ranges from the one of MIN(id) to those ahead of MAX(id).
Ranges(min, max, ahead) ==
    {Lower(min) + i * Span : i \in 0 .. (max - Lower(min)) \div Span + ahead}

\* A bug: publishers go on while the table is converted.
StillPublishing == TRUE

NobodyWrites == \A o \in Outboxes : writing[o] = 0

\* A bug: the new table's identity stays as it was created.
FreshIdentity == 0

\* setval(MAX(id)); an empty table leaves the new identity at its start.
NewIdentity == HighestId

\* Under every outbox's fence, the table locked.  Rows are copied as they are.
admin_convert_outbox_storage ==
    /\ layout = "heap"
    /\ maintenance.stage = "idle"
    /\ NobodyWrites
    /\ layout' = "id_range"
    /\ children' = Ranges(MinId, HighestId, Ahead + 1)
    /\ last_id' = NewIdentity
    /\ rewound' = (HighestId < last_id)
    /\ UNCHANGED <<rows, writing, offset, maintenance>>

-----------------------------------------------------------------------------
(* outbox_maintain_partitions(): one transaction, whose statements each see *)
(* what is committed when they start.  It takes no outbox's fence.          *)

begin_maintenance ==
    /\ layout = "id_range"
    /\ maintenance.stage = "idle"
    /\ maintenance' = [Idle EXCEPT !.stage = "read", !.min = MinId, !.max = HighestId]
    /\ UNCHANGED <<tableVars, writing, offset, rewound>>

Missing == Ranges(maintenance.min, maintenance.max, Ahead) \ children

\* CREATE TABLE ... PARTITION OF waits for the writers of the default
\* partition, and is refused while that one holds rows of the range: the
\* maintenance fails.  What it would drain is thus never there when it comes
\* to drain the default partition.
create_ranges ==
    /\ maintenance.stage = "read"
    /\ Missing # {} => \A o \in Outboxes : writing[o] = 0 \/ Lower(writing[o]) \in children
    /\ maintenance' = IF \E r \in InDefault : Lower(r.id) \in Missing THEN Idle
                      ELSE [maintenance EXCEPT !.stage = "created", !.created = Missing]
    /\ UNCHANGED <<tableVars, writing, offset, rewound>>

\* Everything in the range is gone, and so is everything older.
Droppable(child) == child + Span <= maintenance.min /\ RowsIn(child) = {}

count_rows(child) ==
    /\ maintenance.stage = "created"
    /\ Droppable(child)
    /\ maintenance' = [maintenance EXCEPT !.stage = "counted", !.child = child]
    /\ UNCHANGED <<tableVars, writing, offset, rewound>>

\* DROP TABLE waits for the publishers, and takes with it what they committed
\* meanwhile.  Behind its lock the other empty children go, too, and the
\* maintenance commits.
drop_child ==
    /\ maintenance.stage = "counted"
    /\ NobodyWrites
    /\ children' = {c \in children \ {maintenance.child} : ~Droppable(c)} \cup maintenance.created
    /\ rows' = rows \ RowsIn(maintenance.child)
    /\ maintenance' = Idle
    /\ UNCHANGED <<layout, last_id, writing, offset, rewound>>

\* Nothing to drop, or rolled back.
end_maintenance ==
    /\ \/ /\ maintenance.stage = "created"
          /\ \A c \in children : ~Droppable(c)
          /\ children' = children \cup maintenance.created
       \/ maintenance.stage # "idle" /\ UNCHANGED children
    /\ maintenance' = Idle
    /\ UNCHANGED <<layout, rows, last_id, writing, offset, rewound>>

Next ==
    \/ \E o \in Outboxes : \/ outbox_publish(o) \/ end_transaction(o)
                           \/ relay_batch(o) \/ outbox_sweep(o)
    \/ admin_convert_outbox_storage
    \/ begin_maintenance \/ create_ranges
    \/ \E child \in children : count_rows(child)
    \/ drop_child
    \/ end_maintenance

Spec == Init /\ [][Next]_vars

-----------------------------------------------------------------------------
(* Properties *)

\* ADR-013, "A whole child is dropped only after every row satisfies its own
\* outbox's age, safe offset, and lease predicates": no row disappears before
\* its relay is past it.  The maintenance counts a child's rows, waits for the
\* publishers, and drops what they have committed.
RowsKeptUntilPassed ==
    [][\A r \in rows \ rows' : r.id <= offset[r.outbox]]_vars

\* ADR-013, "a lower-ID transaction cannot commit after a poller has advanced
\* past its invisible row": a row becomes visible above the offset of its
\* relay.  A conversion sets the identity to the highest row that is left, so
\* that once the newest rows are swept, later rows get ids that are behind.
NewRowsAhead ==
    [][\A r \in rows' \ rows : r.id > offset[r.outbox]]_vars

\* The same where the conversion found the newest row still there: then the
\* identity of the new table goes on where the old one was, and no range that
\* is created, refused or dropped changes what relays see of new rows.
NewRowsAheadUnlessRewound ==
    [][\A r \in rows' \ rows : r.id > offset[r.outbox] \/ rewound]_vars

\* No two rows have one id, although the conversion starts a new identity,
\* ids are drawn before their rows are to be seen, and the ids of rows that
\* were swept may be drawn a second time.
IdsUnique == \A r, s \in rows : r.id = s.id => r = s

Stages == [stage : {"idle", "read", "created", "counted"}, min : Nat, max : Nat,
           created : SUBSET Int, child : Int]

\* Types.
TypeOK ==
    /\ layout \in {"heap", "id_range"}
    /\ children \subseteq Int
    /\ last_id \in 0 .. MaxId
    /\ writing \in [Outboxes -> 0 .. MaxId] /\ offset \in [Outboxes -> 0 .. MaxId]
    /\ maintenance \in Stages
    /\ rewound \in BOOLEAN

\* Every id that is in use was drawn and belongs to one row or one publisher.
IdsDrawn ==
    /\ \A r \in rows : r.id \in 1 .. last_id
    /\ \A o \in Outboxes : writing[o] <= last_id
    /\ \A r \in rows, o \in Outboxes : r.id # writing[o]
    /\ \A o, p \in Outboxes : writing[o] = writing[p] => writing[o] = 0 \/ o = p

\* Until a conversion sets the identity back, the offsets are behind it.
IdentityAhead ==
    ~rewound => \A o \in Outboxes : /\ offset[o] <= last_id
                                    /\ writing[o] # 0 => offset[o] < writing[o]

\* The default partition has no row of a range that is being created, and no
\* publisher is about to give it one.
DefaultIsClear ==
    /\ layout = "heap" => children = {} /\ maintenance = Idle /\ ~rewound
    /\ maintenance.stage = "idle" => maintenance.created = {}
    /\ maintenance.created # {} =>
          \A o \in Outboxes : writing[o] # 0 => Lower(writing[o]) \in children
    /\ \A r \in InDefault : Lower(r.id) \notin maintenance.created

\* The inductive invariant.
PartitionsInv == TypeOK /\ IdsDrawn /\ IdentityAhead /\ DefaultIsClear

=============================================================================
