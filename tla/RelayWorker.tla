---------------------------- MODULE RelayWorker ----------------------------
(***************************************************************************)
(* The loop of one pipeline worker: worker_inner() in                      *)
(* pg-tide-relay/src/coordinator.rs with its helpers poll_and_decode,      *)
(* publish_with_circuit_breaker, handle_publish_outcome, route_to_dlq and  *)
(* commit_checkpoint.  The configuration is chosen in the initial state    *)
(* from those the worker can be given.                                     *)
(*                                                                         *)
(* OutboxRelay models how rows become visible and who may own a pipeline;  *)
(* here the outbox is a list that grows: its committed ids are             *)
(* 1 .. appended, and the batch being processed is always                  *)
(* last_offset + 1 .. checkpoint.                                          *)
(***************************************************************************)
EXTENDS CircuitBreaker

CONSTANTS
    Configs,       \* the pipeline configurations to consider
    BatchSize,
    MaxId,         \* bound: rows the publishers append
    MaxFailures    \* bound: where the failure counters saturate

WorkerConfigs ==
    [dry_run : BOOLEAN, dlq_enabled : BOOLEAN, max_retries : 0 .. MaxFailures - 1,
     breaker : BreakerConfigs]

ASSUME MaxFailuresAssumption == MaxFailures \in Nat \ {0}
ASSUME ConfigsAssumption == Configs \subseteq WorkerConfigs
ASSUME BatchSizeAssumption == BatchSize \in Nat \ {0}
ASSUME MaxIdAssumption == MaxId \in Nat

VARIABLES
    config,
    appended,              \* committed rows of the outbox
    last_change_id,        \* durable offset
    stage,                 \* where the worker is
    last_offset,           \* its in-memory mark
    checkpoint,            \* the last id it polled
    outcome,               \* result of its last publish
    consecutive_failures,
    breaker,
    confirmed,             \* ids in batches the sink acknowledged
    dlq,                   \* ids in tide.relay_dlq
    observed,              \* ids logged by a dry run
    attempts,              \* history: failed calls for the batch at the mark
    unpaid                 \* history: failed calls of this worker, from its
                           \* start or its last success on, that no elapsed
                           \* timeout has paid for

memVars  == <<last_offset, checkpoint, consecutive_failures, breaker>>
sinkVars == <<confirmed, dlq, observed>>
histVars == <<attempts, unpaid>>
vars == <<config, appended, last_change_id, stage, last_offset, checkpoint,
          outcome, consecutive_failures, breaker, confirmed, dlq, observed,
          attempts, unpaid>>

Stages == {"stopped", "polling", "polled", "encoded", "publish_started",
           "calling", "publish_failed", "sink_acknowledged", "dry_run_observed",
           "dlq_persisted", "checkpoint_committed"}

TypeOK ==
    /\ config \in Configs
    /\ appended \in Nat
    /\ last_change_id \in Nat
    /\ stage \in Stages
    /\ last_offset \in Nat
    /\ checkpoint \in Nat
    /\ outcome \in {"none", "success", "transient", "permanent", "breaker_open"}
    /\ consecutive_failures \in 0 .. MaxFailures
    /\ breaker \in BreakerStates
    /\ confirmed \in SUBSET Nat
    /\ dlq \in SUBSET Nat
    /\ observed \in SUBSET Nat
    /\ attempts \in 0 .. MaxFailures
    /\ unpaid \in Int

Init ==
    /\ config \in Configs
    /\ appended = 0
    /\ last_change_id = 0
    /\ stage = "stopped"
    /\ last_offset = 0
    /\ checkpoint = 0
    /\ outcome = "none"
    /\ consecutive_failures = 0
    /\ breaker = NewBreaker
    /\ confirmed = {}
    /\ dlq = {}
    /\ observed = {}
    /\ attempts = 0
    /\ unpaid = 0

\* The top of the loop, for the first time, after a failure or after a commit.
AtTop == stage \in {"polling", "checkpoint_committed"}

\* A terminal disposition is reached and the checkpoint is still to commit.
Terminal == stage \in {"sink_acknowledged", "dry_run_observed", "dlq_persisted"}

Batch == last_offset + 1 .. checkpoint
Lesser(a, b) == IF a <= b THEN a ELSE b
OneMore(n) == Lesser(n + 1, MaxFailures)

-----------------------------------------------------------------------------
\* A publishing transaction commits a row.
publish_row ==
    /\ appended < MaxId
    /\ appended' = appended + 1
    /\ UNCHANGED <<config, last_change_id, stage, memVars, outcome, sinkVars,
                   histVars>>

\* The coordinator starts a worker: everything but the offset begins anew, the
\* breaker too, and with it the account of failing calls.
start ==
    /\ stage = "stopped"
    /\ stage' = "polling"
    /\ last_offset' = last_change_id
    /\ checkpoint' = 0
    /\ outcome' = "none"
    /\ consecutive_failures' = 0
    /\ breaker' = NewBreaker
    /\ attempts' = 0
    /\ unpaid' = 0
    /\ UNCHANGED <<config, appended, last_change_id, sinkVars>>

\* The poll returns the next rows.  (PollOutcome::Empty changes nothing.)
poll ==
    /\ AtTop
    /\ last_offset < appended
    /\ stage' = "polled"
    /\ checkpoint' = Lesser(last_offset + BatchSize, appended)
    /\ outcome' = "none"
    /\ UNCHANGED <<config, appended, last_change_id, last_offset,
                   consecutive_failures, breaker, sinkVars, histVars>>

\* PollOutcome::TransientError: count, sleep, poll again.
poll_transient_error ==
    /\ AtTop
    /\ consecutive_failures' = OneMore(consecutive_failures)
    /\ UNCHANGED <<config, appended, last_change_id, stage, last_offset,
                   checkpoint, outcome, breaker, sinkVars, histVars>>

encode ==
    /\ stage = "polled"
    /\ stage' = "encoded"
    /\ UNCHANGED <<config, appended, last_change_id, memVars, outcome,
                   sinkVars, histVars>>

observe_dry_run ==
    /\ stage = "encoded"
    /\ config.dry_run
    /\ stage' = "dry_run_observed"
    /\ observed' = observed \cup Batch
    /\ UNCHANGED <<config, appended, last_change_id, memVars, outcome,
                   confirmed, dlq, histVars>>

\* After the rate limiter and the in-flight permit.
start_publish ==
    /\ stage = "encoded"
    /\ ~ config.dry_run
    /\ stage' = "publish_started"
    /\ UNCHANGED <<config, appended, last_change_id, memVars, outcome,
                   sinkVars, histVars>>

-----------------------------------------------------------------------------
(* publish_with_circuit_breaker() and validate_publish_limits().            *)

\* The batch exceeds a limit of the connector: a permanent failure that the
\* breaker does not hear of.
exceed_limits ==
    /\ stage = "publish_started"
    /\ stage' = "publish_failed"
    /\ outcome' = "permanent"
    /\ consecutive_failures' = OneMore(consecutive_failures)
    /\ UNCHANGED <<config, appended, last_change_id, last_offset, checkpoint,
                   breaker, sinkVars, histVars>>

breaker_refuses ==
    /\ stage = "publish_started"
    /\ ~ should_allow(config.breaker, breaker)
    /\ stage' = "publish_failed"
    /\ outcome' = "breaker_open"
    /\ UNCHANGED <<config, appended, last_change_id, memVars, sinkVars, histVars>>

call_sink ==
    /\ stage = "publish_started"
    /\ should_allow(config.breaker, breaker)
    /\ stage' = "calling"
    /\ breaker' = Allowed(config.breaker, breaker)
    /\ UNCHANGED <<config, appended, last_change_id, last_offset, checkpoint,
                   outcome, consecutive_failures, sinkVars, histVars>>

sink_acknowledges ==
    /\ stage = "calling"
    /\ stage' = "sink_acknowledged"
    /\ confirmed' = confirmed \cup Batch
    /\ breaker' = record_success(config.breaker, breaker)
    /\ consecutive_failures' = 0
    /\ outcome' = "success"
    /\ attempts' = 0
    /\ unpaid' = 0
    /\ UNCHANGED <<config, appended, last_change_id, last_offset, checkpoint,
                   dlq, observed>>

sink_fails(error) ==
    /\ stage = "calling"
    /\ stage' = "publish_failed"
    /\ outcome' = error
    /\ breaker' = record_failure(config.breaker, breaker)
    /\ consecutive_failures' = OneMore(consecutive_failures)
    /\ attempts' = OneMore(attempts)
    /\ unpaid' = IF config.breaker.enabled THEN unpaid + 1 ELSE 0
    /\ UNCHANGED <<config, appended, last_change_id, last_offset, checkpoint,
                   sinkVars>>

\* half_open_timeout has passed since the circuit opened.
timeout_elapses ==
    /\ stage # "stopped"
    /\ breaker.state = "open"
    /\ ~ breaker.elapsed
    /\ breaker' = [breaker EXCEPT !.elapsed = TRUE]
    /\ unpaid' = unpaid - 1
    /\ UNCHANGED <<config, appended, last_change_id, stage, last_offset,
                   checkpoint, outcome, consecutive_failures, sinkVars, attempts>>

-----------------------------------------------------------------------------
(* handle_publish_outcome() and what worker_inner() does with its directive. *)

\* Mutant: nobody compares the failures with max_retries, so retries never end.
NeverExhausted == outcome \in {"permanent", "breaker_open"} /\ config.dlq_enabled

GoesToDlq ==
    /\ config.dlq_enabled
    /\ \/ outcome \in {"permanent", "breaker_open"}
       \/ consecutive_failures > config.max_retries

\* Mutant: the mark moves past a batch that is to be retried.
BackOffSkips ==
    /\ stage = "publish_failed"
    /\ ~ GoesToDlq
    /\ outcome # "permanent"
    /\ stage' = "polling"
    /\ last_change_id' = checkpoint
    /\ last_offset' = checkpoint
    /\ UNCHANGED <<config, appended, checkpoint, consecutive_failures, breaker,
                   outcome, sinkVars, histVars>>

\* WorkerDirective::BackoffMs.
back_off ==
    /\ stage = "publish_failed"
    /\ ~ GoesToDlq
    /\ outcome # "permanent"
    /\ stage' = "polling"
    /\ UNCHANGED <<config, appended, last_change_id, memVars, outcome,
                   sinkVars, histVars>>

\* WorkerDirective::Shutdown: the worker returns the error.
shut_down ==
    /\ stage = "publish_failed"
    /\ ~ GoesToDlq
    /\ outcome = "permanent"
    /\ stage' = "stopped"
    /\ UNCHANGED <<config, appended, last_change_id, memVars, outcome,
                   sinkVars, histVars>>

\* WorkerDirective::RouteToDlq and insert_batch() commits.
route_to_dlq ==
    /\ stage = "publish_failed"
    /\ GoesToDlq
    /\ stage' = "dlq_persisted"
    /\ dlq' = dlq \cup Batch
    /\ UNCHANGED <<config, appended, last_change_id, memVars, outcome,
                   confirmed, observed, histVars>>

\* insert_batch() rolls back: sleep and poll again.
dlq_transient_error ==
    /\ stage = "publish_failed"
    /\ GoesToDlq
    /\ stage' = "polling"
    /\ UNCHANGED <<config, appended, last_change_id, memVars, outcome,
                   sinkVars, histVars>>

-----------------------------------------------------------------------------
Greatest(a, b) == IF a >= b THEN a ELSE b

\* Mutant: the next batch counts as read when this one is acknowledged.
CommitAhead ==
    /\ Terminal
    /\ stage' = "checkpoint_committed"
    /\ last_change_id' = appended
    /\ last_offset' = appended
    /\ consecutive_failures' =
          IF stage = "dlq_persisted" THEN 0 ELSE consecutive_failures
    /\ attempts' = 0
    /\ UNCHANGED <<config, appended, checkpoint, outcome, breaker, sinkVars,
                   unpaid>>

commit_checkpoint ==
    /\ Terminal
    /\ stage' = "checkpoint_committed"
    /\ last_change_id' = Greatest(last_change_id, checkpoint)
    /\ last_offset' = Greatest(last_offset, checkpoint)
    /\ consecutive_failures' =
          IF stage = "dlq_persisted" THEN 0 ELSE consecutive_failures
    /\ attempts' = 0
    /\ UNCHANGED <<config, appended, checkpoint, outcome, breaker, sinkVars,
                   unpaid>>

\* The worker is gone, wherever it was: stop signal at the top of the loop or
\* in a sleep, an error returned with `?` (a failed checkpoint write), abort
\* after the drain timeout, loss of the ownership session, a crash.
worker_ends ==
    /\ stage # "stopped"
    /\ stage' = "stopped"
    /\ UNCHANGED <<config, appended, last_change_id, memVars, outcome,
                   sinkVars, histVars>>

Publishing ==
    \/ exceed_limits
    \/ breaker_refuses
    \/ call_sink
    \/ sink_acknowledges
    \/ sink_fails("transient")
    \/ sink_fails("permanent")

Disposition ==
    \/ back_off
    \/ shut_down
    \/ route_to_dlq
    \/ dlq_transient_error
    \/ commit_checkpoint

Next ==
    \/ publish_row
    \/ timeout_elapses
    \/ start
    \/ poll
    \/ poll_transient_error
    \/ encode
    \/ observe_dry_run
    \/ start_publish
    \/ Publishing
    \/ Disposition
    \/ worker_ends

Spec == Init /\ [][Next]_vars

(***************************************************************************)
(* Fairness.  The steps of the loop follow each other and the timeout      *)
(* passes (weak).  A poll and the admission of a batch to the sink do not  *)
(* fail for ever (strong).  The sink itself may fail for ever when there   *)
(* is a dead-letter queue, and the queue may fail, but not for ever.       *)
(***************************************************************************)
Fairness ==
    /\ WF_vars(start)
    /\ SF_vars(poll)
    /\ WF_vars(encode \/ observe_dry_run \/ start_publish)
    /\ WF_vars(breaker_refuses)
    /\ SF_vars(call_sink)
    /\ WF_vars(sink_acknowledges \/ sink_fails("transient") \/ sink_fails("permanent"))
    /\ WF_vars(timeout_elapses)
    /\ WF_vars(back_off \/ shut_down \/ route_to_dlq \/ dlq_transient_error)
    /\ SF_vars(route_to_dlq \/ (~ config.dlq_enabled /\ sink_acknowledges))
    /\ WF_vars(commit_checkpoint)

FairSpec == Spec /\ Fairness

-----------------------------------------------------------------------------
(* Properties *)

Disposed == confirmed \cup dlq \cup observed

\* The worker implements the at-least-once channel: the durable offset moves
\* only over rows that were acknowledged, dead-lettered or observed by a dry
\* run that the operator asked for, and a retry never loses the batch.
Channel == INSTANCE AtLeastOnce
    WITH sent <- 1 .. appended, disposed <- Disposed, frontier <- last_change_id

ImplementsChannel == Channel!Spec

\* The worker follows the delivery state machine of ADR-012: whatever fails,
\* the source checkpoint is only ever committed from a terminal disposition of
\* the batch it was polled with, and a given-up attempt starts from a poll.
MachineState ==
    CASE stage \in {"stopped", "polling"} -> "Start"
      [] stage = "polled" -> "Polled"
      [] stage = "encoded" -> "Encoded"
      [] stage \in {"publish_started", "calling"} -> "PublishStarted"
      [] stage = "publish_failed" -> "PublishFailed"
      [] stage = "sink_acknowledged" -> "SinkAcknowledged"
      [] stage = "dry_run_observed" -> "DryRunObserved"
      [] stage = "dlq_persisted" -> "DlqPersisted"
      [] stage = "checkpoint_committed" -> "CheckpointCommitted"

InAttempt == stage \notin {"stopped", "polling"}

Model == INSTANCE DeliveryModel WITH
    state <- MachineState,
    source_checkpoint <- IF InAttempt THEN checkpoint ELSE 0,
    sink_acknowledged_frontier <-
        IF InAttempt /\ outcome = "success" THEN checkpoint ELSE 0,
    failure_transient <- InAttempt /\ outcome = "transient",
    durable <- last_change_id

FollowsDeliveryModel == Model!Spec

\* The breaker of one worker spares a sink that is down: from the worker's
\* start or its last success on, whichever came later, it lets through at most
\* failure_threshold failing calls and one more for each half-open timeout that
\* has passed in that time.  It says nothing across workers: the next worker of
\* the pipeline begins with a closed breaker and is allowed failure_threshold
\* calls again, although no timeout has passed.
SinkSpared ==
    config.breaker.enabled =>
        unpaid <= Greatest(1, config.breaker.failure_threshold)

\* Trouble comes to an end: from some time on the worker is not stopped and
\* does not crash.  (A shutdown on a permanent error is not trouble.)
Calm == <>[][worker_ends => shut_down]_vars

\* After any amount of trouble every row gets behind the durable offset: an
\* open breaker, failing polls and failing DLQ inserts only delay it, and with
\* a dead-letter queue not even a sink that never accepts a batch blocks it.
RowsGetPast == Calm => \A id \in 1 .. MaxId : appended >= id ~> last_change_id >= id

\* Claim of dead-letter-queue.md on dlq.max_retries, "Delivery attempts before
\* DLQ routing": a batch whose failure was transient is dead-lettered only
\* after at least max_retries failed attempts to deliver it.
AttemptsBeforeDlq ==
    stage = "dlq_persisted" /\ outcome = "transient" => attempts >= config.max_retries

\* Claim of circuit_breaker.rs, "HalfOpen -> allow exactly one probe": no
\* second call is made while the circuit is half-open.
OneProbe ==
    stage = "calling" /\ breaker.state = "half_open" => breaker.success_count = 0

-----------------------------------------------------------------------------
(* The inductive invariant.                                                 *)

\* Memory and disk agree while a worker runs, except for the batch between.
MarksInStep ==
    /\ last_change_id <= appended
    /\ stage # "stopped" => last_offset = last_change_id
    /\ InAttempt /\ stage # "checkpoint_committed" =>
          last_offset < checkpoint /\ checkpoint <= appended
    /\ stage = "checkpoint_committed" => checkpoint = last_change_id

\* A terminal stage really has disposed of the batch.
BatchDisposed == Terminal => Batch \subseteq Disposed

DisposedBelowMark == 1 .. last_change_id \subseteq Disposed

OnlyRowsDisposed == Disposed \subseteq 1 .. appended

\* The outcome of the last publish agrees with the stage.
OutcomeInStage ==
    /\ stage \in {"polled", "encoded", "publish_started", "calling",
                  "dry_run_observed"} => outcome = "none"
    /\ stage = "sink_acknowledged" => outcome = "success"
    /\ stage \in {"publish_failed", "dlq_persisted"} =>
          outcome \in {"transient", "permanent", "breaker_open"}

\* The breaker's counters keep the account of failing calls.
BreakerLedger ==
    LET most == Greatest(1, config.breaker.failure_threshold) IN
    config.breaker.enabled =>
        /\ unpaid <= most
        /\ breaker.state = "closed" =>
              unpaid = breaker.failure_count /\ unpaid < most
        /\ breaker.state = "half_open" => unpaid < most
        /\ breaker.state = "open" => (breaker.elapsed => unpaid < most)
        /\ stage = "calling" => breaker.state # "open"

Marks ==
    /\ MarksInStep
    /\ BatchDisposed
    /\ DisposedBelowMark
    /\ OnlyRowsDisposed
    /\ OutcomeInStage

IInv ==
    /\ TypeOK
    /\ Marks
    /\ BreakerLedger

=============================================================================
