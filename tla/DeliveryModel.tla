--------------------------- MODULE DeliveryModel ---------------------------
(***************************************************************************)
(* The delivery state machine of ADR-012, from its executable form         *)
(* transition() in pg-tide-relay/src/delivery_model.rs.  The relay does    *)
(* not run that function: the coordinator is the runtime state machine.    *)
(* RelayWorker is shown to follow this specification.                      *)
(*                                                                         *)
(* transition() starts from the facts of a polled batch; "Start" is the    *)
(* matrix's state before that, to which an attempt returns when it is      *)
(* given up for a retry.  The facts that only restate the state            *)
(* (source_visible, duplicate_possible, cleanup_allowed) are left out.     *)
(***************************************************************************)
EXTENDS Integers

VARIABLES
    state,               \* DeliveryState
    source_checkpoint,   \* checkpoint of the polled batch, 0 in "Start"
    sink_acknowledged_frontier,   \* set by an acknowledgment, else 0
    failure_transient,
    durable              \* the checkpoint the source has persisted

vars == <<state, source_checkpoint, sink_acknowledged_frontier,
          failure_transient, durable>>

Terminal == {"SinkAcknowledged", "DryRunObserved", "IntentionallyFiltered",
             "DlqPersisted"}

NoBatch ==
    /\ state = "Start"
    /\ source_checkpoint = 0
    /\ sink_acknowledged_frontier = 0
    /\ failure_transient = FALSE

Init == NoBatch /\ durable = 0

\* Start -> Polled and NextBatch: fresh facts for a batch ahead of the source's
\* checkpoint.
Polled ==
    /\ state \in {"Start", "CheckpointCommitted", "CleanupEligible"}
    /\ state' = "Polled"
    /\ source_checkpoint' > durable
    /\ sink_acknowledged_frontier' = 0
    /\ failure_transient' = FALSE
    /\ UNCHANGED durable

Move(from, to) ==
    /\ state \in from
    /\ state' = to
    /\ UNCHANGED <<source_checkpoint, durable>>

Encoded ==
    /\ Move({"Polled"}, "Encoded")
    /\ UNCHANGED <<sink_acknowledged_frontier, failure_transient>>

PublishStarted ==
    /\ Move({"Encoded"}, "PublishStarted")
    /\ UNCHANGED <<sink_acknowledged_frontier, failure_transient>>

SinkAccepted ==
    /\ Move({"PublishStarted"}, "SinkAccepted")
    /\ UNCHANGED <<sink_acknowledged_frontier, failure_transient>>

SinkAcknowledged ==
    /\ Move({"PublishStarted", "SinkAccepted"}, "SinkAcknowledged")
    /\ sink_acknowledged_frontier' = source_checkpoint
    /\ UNCHANGED failure_transient

DryRunObserved ==
    /\ Move({"Encoded"}, "DryRunObserved")
    /\ UNCHANGED <<sink_acknowledged_frontier, failure_transient>>

IntentionallyFiltered ==
    /\ Move({"Encoded"}, "IntentionallyFiltered")
    /\ UNCHANGED <<sink_acknowledged_frontier, failure_transient>>

PublishFailed ==
    /\ Move({"PublishStarted", "SinkAccepted"}, "PublishFailed")
    /\ failure_transient' \in BOOLEAN
    /\ UNCHANGED sink_acknowledged_frontier

DlqPersisted ==
    /\ Move({"PublishFailed"}, "DlqPersisted")
    /\ UNCHANGED <<sink_acknowledged_frontier, failure_transient>>

CheckpointCommitted ==
    /\ state \in Terminal
    /\ state' = "CheckpointCommitted"
    /\ durable' = source_checkpoint
    /\ UNCHANGED <<source_checkpoint, sink_acknowledged_frontier,
                   failure_transient>>

CleanupAllowed ==
    /\ Move({"CheckpointCommitted"}, "CleanupEligible")
    /\ UNCHANGED <<sink_acknowledged_frontier, failure_transient>>

\* "Retry after crash: poll/redeliver", from any state.
Retry == NoBatch' /\ UNCHANGED durable

Next ==
    \/ Polled
    \/ Encoded
    \/ PublishStarted
    \/ SinkAccepted
    \/ SinkAcknowledged
    \/ DryRunObserved
    \/ IntentionallyFiltered
    \/ PublishFailed
    \/ DlqPersisted
    \/ CheckpointCommitted
    \/ CleanupAllowed
    \/ Retry

Spec == Init /\ [][Next]_vars

=============================================================================
