----------------------------- MODULE Components -----------------------------
(***************************************************************************)
(* The components that share no state, side by side.  Which of them a      *)
(* behaviour is about is chosen in its initial state; the others stay in   *)
(* one initial state of their own.  Retention is extended, the others are  *)
(* instances.                                                              *)
(***************************************************************************)
EXTENDS Retention

CONSTANTS
    Sessions,       \* two or more of whatever a component has several of
    BatchSize,      \* of a worker, and of a replay
    MaxRetries, MaxRow, MaxTrouble,                                \* Destinations
    Events, NoEvent, MaxAttempts, MaxForgotten, MaxOutcomes,       \* InboxProcessing
    MaxReplayId, MaxSetbacks,                                      \* BoundedReplay
    NoCatalogRow,                                                  \* Admission
    NoOutbox, Roles, Superusers, Groups, MaxChanges,               \* Publishing
    MaxBatches, MaxRows,                                           \* SweepCommand
    Span, Ahead, MaxStoredId                                       \* Partitions

VARIABLES
    part,
    \* Destinations
    sink_type, dlq_enabled, written, checkpoint, mark, sent, top, failures,
    keys, effects, forgotten, dead, trouble,
    \* InboxProcessing
    registered, table, retry_count, reading, failed, row_locks, outcomes, forgot,
    \* BoundedReplay
    replay_rows, next_id, swept, live, pipeline, range, phase, live_before, last_offset,
    replay_top, batch, replayed, owed, setbacks,
    \* Admission
    row, by, secrets, compiled, stage,
    \* Publishing
    outbox, publishers, members, groups, offsets, messages, last_id, call, admin,
    polled, relay_checkpoint, delivered, saw_enabled, saw_permitted, changes,
    \* SweepCommand
    options, existing, eligible, locked, sweep_phase, queue, current, batches,
    total_deleted, sweep_failures, connected, deleted, emptied, called,
    \* Partitions
    layout, children, stored, identity, writing, relay_offset, maintenance, rewound

dest_vars ==
    <<sink_type, dlq_enabled, written, checkpoint, mark, sent, top, failures,
      keys, effects, forgotten, dead, trouble>>
inbox_vars ==
    <<registered, table, retry_count, reading, failed, row_locks, outcomes, forgot>>
replay_vars ==
    <<replay_rows, next_id, swept, live, pipeline, range, phase, live_before, last_offset,
      replay_top, batch, replayed, owed, setbacks>>
row_vars ==
    <<row, by, secrets, compiled, stage>>
publish_vars ==
    <<outbox, publishers, members, groups, offsets, messages, last_id, call, admin,
      polled, relay_checkpoint, delivered, saw_enabled, saw_permitted, changes>>
sweep_vars ==
    <<options, existing, eligible, locked, sweep_phase, queue, current, batches,
      total_deleted, sweep_failures, connected, deleted, emptied, called>>
store_vars ==
    <<layout, children, stored, identity, writing, relay_offset, maintenance, rewound>>

Dest == INSTANCE Destinations WITH Workers <- Sessions

Inbox == INSTANCE InboxProcessing WITH Consumers <- Sessions

Replay == INSTANCE BoundedReplay WITH
    MaxId <- MaxReplayId, rows <- replay_rows, top <- replay_top

Row == INSTANCE Admission WITH NoRow <- NoCatalogRow

Publish == INSTANCE Publishing WITH
    Admins <- Sessions, checkpoint <- relay_checkpoint

Command == INSTANCE SweepCommand WITH
    Outboxes <- Sessions, BatchSize <- SweepBatch,
    phase <- sweep_phase, batch <- batches, failures <- sweep_failures

Store == INSTANCE Partitions WITH
    Outboxes <- Sessions, MaxId <- MaxStoredId,
    rows <- stored, last_id <- identity, offset <- relay_offset

\* Batches are not empty, ranges are not, bounds are numbers, and "nobody" is no
\* event, no row, no outbox and no state of one.
ASSUME BatchAssumption == BatchSize \in Nat \ {0} /\ MaxRow \in Nat
ASSUME SweepAssumption == MaxBatches \in Nat /\ MaxRows \in Nat
ASSUME ReplayConstants == Replay!ReplayAssumption
ASSUME StoreConstants == Store!PartitionsAssumption
ASSUME NobodyAssumption ==
    /\ NoEvent \notin Events
    /\ NoOutbox \notin {"enabled", "disabled"} \cup Sessions
    /\ \A d \in Row!Rows : NoCatalogRow \notin {d, Row!full_config(d)}

Parts == {"destinations", "inbox", "replay", "admission", "publishing", "sweep",
          "retention", "partitions"}

\* The first initial state of a component that this behaviour is not about.
ComponentsInit ==
    /\ part \in Parts
    /\ IF part = "destinations" THEN TRUE ELSE sink_type = "nats" /\ dlq_enabled = FALSE
    /\ IF part = "inbox" THEN TRUE ELSE row_locks = TRUE
    /\ IF part = "replay" THEN TRUE
       ELSE /\ pipeline = [enabled |-> TRUE, consumer_group |-> FALSE]
            /\ range = [from_id |-> 0, to_id |-> 0]
    /\ IF part = "admission" THEN TRUE ELSE secrets = FALSE /\ compiled = FALSE
    /\ IF part = "publishing" THEN TRUE ELSE members = {}
    /\ IF part = "sweep" THEN TRUE
       ELSE /\ options = [dry_run |-> FALSE, max_batches |-> 1]
            /\ eligible = [o \in Sessions |-> 0]
    /\ Dest!Init /\ Inbox!Init /\ Replay!Init /\ Row!Init /\ Publish!Init /\ Command!Init
    /\ Init /\ Store!Init

ComponentsNext ==
    /\ UNCHANGED part
    /\ \/ /\ part = "destinations" /\ Dest!Next
          /\ UNCHANGED <<inbox_vars, replay_vars, row_vars, publish_vars,
                        sweep_vars, vars, store_vars>>
       \/ /\ part = "inbox" /\ Inbox!Next
          /\ UNCHANGED <<dest_vars, replay_vars, row_vars, publish_vars,
                        sweep_vars, vars, store_vars>>
       \/ /\ part = "replay" /\ Replay!Next
          /\ UNCHANGED <<dest_vars, inbox_vars, row_vars, publish_vars,
                        sweep_vars, vars, store_vars>>
       \/ /\ part = "admission" /\ Row!Next
          /\ UNCHANGED <<dest_vars, inbox_vars, replay_vars, publish_vars,
                        sweep_vars, vars, store_vars>>
       \/ /\ part = "publishing" /\ Publish!Next
          /\ UNCHANGED <<dest_vars, inbox_vars, replay_vars, row_vars,
                        sweep_vars, vars, store_vars>>
       \/ /\ part = "sweep" /\ Command!Next
          /\ UNCHANGED <<dest_vars, inbox_vars, replay_vars, row_vars,
                        publish_vars, vars, store_vars>>
       \/ /\ part = "retention" /\ Next
          /\ UNCHANGED <<dest_vars, inbox_vars, replay_vars, row_vars,
                        publish_vars, sweep_vars, store_vars>>
       \/ /\ part = "partitions" /\ Store!Next
          /\ UNCHANGED <<dest_vars, inbox_vars, replay_vars, row_vars,
                        publish_vars, sweep_vars, vars>>

ComponentsVars ==
    <<part, dest_vars, inbox_vars, replay_vars, row_vars, publish_vars, sweep_vars,
      vars, store_vars>>

ComponentsSpec == ComponentsInit /\ [][ComponentsNext]_ComponentsVars

-----------------------------------------------------------------------------
(* The components' properties under names of this module.                  *)

\* The type invariant of each component, with what makes it inductive.
ComponentsInv ==
    CASE part = "destinations" -> Dest!DestinationsInv
      [] part = "inbox" -> Inbox!InboxInv
      [] part = "replay" -> Replay!ReplayInv
      [] part = "admission" -> Row!AdmissionInv
      [] part = "publishing" -> Publish!PublishingInv
      [] part = "sweep" -> Command!SweepInv
      [] part = "partitions" -> Store!PartitionsInv
      [] OTHER -> TRUE

\* Rows reach a destination for the first time in their order.
FirstDeliveriesInOrder == part = "destinations" => Dest!FirstDeliveriesInOrder
\* A deduplicating destination lets a row take effect once while it remembers.
OnceWhileRemembered == part = "destinations" => Dest!OnceWhileRemembered
\* What the durable offset has passed took effect or is a dead letter.
NothingPassedOver == part = "destinations" => Dest!NothingPassedOver

\* An event that consumers lock has one outcome while the inbox remembers it.
OneOutcome == part = "inbox" => Inbox!OneOutcome
\* Only processing takes a pending event out of the table.
KeptUntilProcessed == Inbox!KeptUntilProcessed

\* A successful replay sent the whole range.
ReplayIsComplete == part = "replay" => Replay!ReplayIsComplete
\* A replay sends nothing but its range.
ReplayStaysInRange == part = "replay" => Replay!ReplayStaysInRange

\* What is called valid can be built, but for four kinds of rows.
ValidatedRowsStart == part = "admission" => Row!ValidatedRowsStart
\* The published schema accepts what the parser accepts.
SchemaCoversParser == part = "admission" => Row!SchemaCoversParser
\* migrate-config lists what the upgraded relay refuses as removed.
MigrationListsRemoved == part = "admission" => Row!MigrationListsRemoved

\* A row comes from a call that saw the outbox enabled and its role permitted.
CheckedWhilePermitted == part = "publishing" => Publish!CheckedWhilePermitted
\* A checkpoint left over from a dropped outbox hides no row of the next one.
NewOutboxIsSeen == part = "publishing" => Publish!NewOutboxIsSeen
\* Nothing that belongs to an outbox is there without it.
NothingOutlivesItsOutbox == part = "publishing" => Publish!NothingOutlivesItsOutbox

\* A sweep that reports success has swept as far as it was asked to.
SuccessIsComplete == part = "sweep" => Command!SuccessIsComplete
\* One outbox's failure keeps the sweep from no other.
EveryOutboxTried == part = "sweep" => Command!EveryOutboxTried
\* A sweep reports as deleted what it deleted.
ReportsWhatWasDeleted == part = "sweep" => Command!ReportsWhatWasDeleted

\* No two rows have one id.
IdsUnique == part = "partitions" => Store!IdsUnique
\* New rows are ahead of their relays unless the newest were gone at the conversion.
NewRowsAheadUnlessRewound == Store!NewRowsAheadUnlessRewound

=============================================================================
