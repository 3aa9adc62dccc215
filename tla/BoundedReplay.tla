--------------------------- MODULE BoundedReplay ---------------------------
(***************************************************************************)
(* pg-tide replay execute: run_replay_once() of                            *)
(* pg-tide-relay/src/coordinator.rs, which sends a range of an outbox      *)
(* through worker_inner() once more while the live worker of the same      *)
(* pipeline, publishers, sweeps and an operator's rewind go on.  The ids   *)
(* of one outbox have gaps.                                                *)
(***************************************************************************)
EXTENDS Naturals, FiniteSets

CONSTANTS
    BatchSize,     \* of the replay
    MaxId,         \* bound: highest id written
    MaxSetbacks    \* bound: failed calls and rewinds

ReplayAssumption == BatchSize \in Nat \ {0} /\ MaxId \in Nat

Ids == 1 .. MaxId

VARIABLES
    rows,          \* ids in the outbox
    next_id,       \* the next id to be drawn
    swept,         \* history: ids the retention has deleted
    live,          \* durable offset of the live worker
    pipeline,      \* the pipeline to replay: [enabled, consumer_group]
    range,         \* [from_id, to_id] of the replay
    phase,
    live_before,   \* live checkpoint read at the beginning
    last_offset,   \* the replay's mark
    top,           \* the last id it polled
    batch,         \* the polled ids that are in the range
    replayed,      \* ids the sink acknowledged or the DLQ took
    owed,          \* history: ids of the range when the replay began
    setbacks

vars == <<rows, next_id, swept, live, pipeline, range, phase, live_before,
          last_offset, top, batch, replayed, owed, setbacks>>
outboxVars == <<rows, next_id, swept, live>>
replayVars == <<pipeline, range, phase, live_before, last_offset, top, batch, replayed>>

PipelineRows == [enabled : BOOLEAN, consumer_group : BOOLEAN]
Ranges == {r \in [from_id : 0 .. MaxId, to_id : 0 .. MaxId] : r.from_id <= r.to_id}
Phases == {"idle", "started", "polling", "publishing", "ending", "done", "failed"}

TypeOK ==
    /\ rows \subseteq Ids /\ swept \subseteq Ids /\ owed \subseteq Ids
    /\ next_id \in 1 .. MaxId + 1
    /\ live \in 0 .. MaxId /\ live_before \in 0 .. MaxId
    /\ pipeline \in PipelineRows /\ range \in Ranges /\ phase \in Phases
    /\ last_offset \in 0 .. MaxId /\ top \in 0 .. MaxId
    /\ batch \subseteq Ids /\ replayed \subseteq Ids
    /\ setbacks \in Nat

Init ==
    /\ rows = {} /\ next_id = 1 /\ swept = {} /\ live = 0
    /\ pipeline \in PipelineRows
    /\ range \in Ranges
    /\ phase = "idle"
    /\ live_before = 0 /\ last_offset = 0 /\ top = 0
    /\ batch = {} /\ replayed = {} /\ owed = {}
    /\ setbacks = 0

InRange(id) == range.from_id <= id /\ id <= range.to_id

-----------------------------------------------------------------------------
(* Everybody else.                                                          *)

\* A publisher commits a row; another outbox may have drawn an id before.
publish_row ==
    /\ next_id <= MaxId
    /\ \E id \in next_id .. MaxId :
          /\ id <= next_id + 1
          /\ rows' = rows \cup {id}
          /\ next_id' = id + 1
    /\ UNCHANGED <<swept, live, replayVars, owed, setbacks>>

live_worker_commits ==
    /\ \E id \in rows : id > live /\ live' = id
    /\ UNCHANGED <<rows, next_id, swept, replayVars, owed, setbacks>>

admin_rewind_relay_offset ==
    /\ setbacks < MaxSetbacks
    /\ \E target \in 0 .. live - 1 :
          /\ \A id \in swept : id <= target
          /\ live' = target
    /\ setbacks' = setbacks + 1
    /\ UNCHANGED <<rows, next_id, swept, replayVars, owed>>

\* A row behind the live offset is past its retention and goes.
sweep(id) ==
    /\ id \in rows /\ id <= live
    /\ rows' = rows \ {id}
    /\ swept' = swept \cup {id}
    /\ UNCHANGED <<next_id, live, replayVars, owed, setbacks>>

-----------------------------------------------------------------------------
(* The replay.                                                              *)

\* run_replay_once() up to the worker: a disabled pipeline and one that reads
\* through a consumer group are refused; else the live checkpoint is read.
run_replay_once ==
    /\ phase = "idle"
    /\ IF pipeline.enabled
       THEN /\ live_before' = live
            /\ owed' = {id \in rows : InRange(id)}
            /\ phase' = "started"
       ELSE /\ phase' = "failed"
            /\ UNCHANGED <<live_before, owed>>
    /\ UNCHANGED <<outboxVars, pipeline, range, last_offset, top, batch, replayed,
                   setbacks>>

\* A bug: the first id of the range is taken for the offset before it.
MarkAtFirst(from_id) == from_id

\* saturating_sub(1); ids begin at 1, so that 0 and -1 mean the same.
BeforeFirst(from_id) == IF from_id = 0 THEN 0 ELSE from_id - 1

configure_replay ==
    /\ phase = "started"
    /\ IF pipeline.consumer_group
       THEN /\ phase' = "failed"
            /\ UNCHANGED last_offset
       ELSE /\ phase' = "polling"
            /\ last_offset' = BeforeFirst(range.from_id)
    /\ UNCHANGED <<outboxVars, pipeline, range, live_before, top, batch, replayed,
                   owed, setbacks>>

\* The next rows of the outbox, under the fence and in the order of their ids.
Polled ==
    {id \in rows : /\ id > last_offset
                   /\ Cardinality({i \in rows : last_offset < i /\ i <= id}) <= BatchSize}

Last(ids) == CHOOSE id \in ids : \A i \in ids : i <= id

\* A bug: the range is not applied to the batch that straddles its end.
Unfiltered(ids) == IF \E id \in ids : InRange(id) THEN ids ELSE {}

filter_replay_batch(ids) == {id \in ids : InRange(id)}

\* The replay is complete when nothing is left, or nothing in the range.
poll_and_decode ==
    /\ phase = "polling"
    /\ batch' = filter_replay_batch(Polled)
    /\ IF batch' = {}
       THEN phase' = "ending" /\ UNCHANGED top
       ELSE phase' = "publishing" /\ top' = Last(Polled)
    /\ UNCHANGED <<outboxVars, pipeline, range, live_before, last_offset, replayed,
                   owed, setbacks>>

\* In replay mode acknowledge() moves the mark in memory and nothing else.
acknowledge ==
    /\ last_offset' = top
    /\ UNCHANGED live

\* The sink takes the batch, or the dead-letter queue does.
batch_disposed ==
    /\ phase = "publishing"
    /\ acknowledge
    /\ replayed' = replayed \cup batch
    /\ batch' = {}
    /\ phase' = "polling"
    /\ UNCHANGED <<rows, next_id, swept, pipeline, range, live_before, top, owed, setbacks>>

\* A transient failure: the batch is polled again.
back_off ==
    /\ phase = "publishing"
    /\ setbacks < MaxSetbacks
    /\ setbacks' = setbacks + 1
    /\ batch' = {}
    /\ phase' = "polling"
    /\ UNCHANGED <<outboxVars, pipeline, range, live_before, last_offset, top, replayed, owed>>

\* A permanent failure without a dead-letter queue, or a lost connection.
replay_aborts ==
    /\ phase \in {"started", "polling", "publishing"}
    /\ phase = "publishing" \/ setbacks < MaxSetbacks
    /\ phase' = "failed"
    /\ batch' = {}
    /\ UNCHANGED <<outboxVars, pipeline, range, live_before, last_offset, top, replayed,
                   owed, setbacks>>

\* The live checkpoint is read again; a difference is reported as an error.
compare_checkpoints ==
    /\ phase = "ending"
    /\ phase' = IF live = live_before THEN "done" ELSE "failed"
    /\ UNCHANGED <<outboxVars, pipeline, range, live_before, last_offset, top, batch, replayed,
                   owed, setbacks>>

ReplayStep ==
    \/ run_replay_once
    \/ configure_replay
    \/ poll_and_decode
    \/ batch_disposed
    \/ back_off
    \/ replay_aborts
    \/ compare_checkpoints

Next ==
    \/ publish_row
    \/ live_worker_commits
    \/ admin_rewind_relay_offset
    \/ \E id \in rows : sweep(id)
    \/ ReplayStep

Spec == Init /\ [][Next]_vars

-----------------------------------------------------------------------------
(* Properties *)

\* A replay that reports success has sent every row of the range that was in
\* the outbox when it began, through gaps in the ids, retries, batches that
\* straddle the range and rows that come after it; only the retention sweep
\* may have taken one away before it was read.
ReplayIsComplete == phase = "done" => owed \subseteq replayed \cup swept

\* A replay sends nothing outside the range it was asked for.
ReplayStaysInRange == \A id \in replayed : InRange(id)

-----------------------------------------------------------------------------
(* The inductive invariant.                                                 *)

Working == phase \in {"polling", "publishing", "ending", "done"}

\* What is owed and behind the mark has been sent or swept; the batch is the
\* part of the rows up to top that is in the range, or has been swept since.
Progress ==
    /\ Working => \A id \in owed : id <= last_offset => id \in replayed \cup swept
    /\ phase = "publishing" =>
          \A id \in owed : last_offset < id /\ id <= top => id \in batch \cup swept
    /\ phase \in {"ending", "done"} => owed \subseteq replayed \cup swept

ReplayInv ==
    /\ TypeOK
    /\ rows \cap swept = {}
    /\ \A id \in rows \cup swept : id < next_id
    /\ owed \subseteq rows \cup swept
    /\ \A id \in owed \cup batch \cup replayed : InRange(id)
    /\ Working => range.from_id <= last_offset + 1
    /\ phase = "publishing" => last_offset < top
    /\ Progress

=============================================================================
