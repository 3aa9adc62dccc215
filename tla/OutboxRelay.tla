---------------------------- MODULE OutboxRelay ----------------------------
(***************************************************************************)
(* One native outbox, the transactions that publish into it, and the relay *)
(* processes that compete for the pipeline reading from it.                *)
(*                                                                         *)
(*   publishing   pg-tide-ext/src/outbox.rs      outbox_publish_impl       *)
(*   polling      pg-tide-relay/src/source/outbox.rs                       *)
(*   the worker   pg-tide-relay/src/coordinator.rs  worker_inner           *)
(*   rewinding    sql/pg_tide--0.42.0--0.43.0.sql                          *)
(*                                                                         *)
(* Row ids come from one identity sequence and are handed out before the   *)
(* transaction commits, so id order is not commit order.  The worker keeps *)
(* only a high-water mark, last_offset, and reads rows above it.  What     *)
(* stops a row from becoming visible below the mark is the outbox fence:   *)
(* an advisory lock that publishers hold in shared mode until they end     *)
(* their transaction and a poll takes in exclusive mode around its SELECT. *)
(***************************************************************************)
EXTENDS Integers, FiniteSets

CONSTANTS
    Publishers,   \* database sessions that run publishing transactions
    Relays,       \* relay processes of one relay group
    NoRelay,      \* "nobody", for the two exclusive locks
    BatchSize,    \* LIMIT of a poll
    MaxId         \* bound: ids the identity sequence may hand out

ASSUME NoRelayAssumption == NoRelay \notin Relays
ASSUME BatchSizeAssumption == BatchSize \in Nat \ {0}
ASSUME MaxIdAssumption == MaxId \in Nat

VARIABLES
    seq,             \* last value of the identity sequence
    txn,             \* "idle" or "open": has the session locked the fence?
    pending,         \* ids inserted by each uncommitted transaction
    rows,            \* ids of the committed rows of tide_outbox_messages
    last_change_id,  \* durable offset in tide.relay_consumer_offsets
    fence,           \* holder of the fence in exclusive mode
    owner,           \* holder of the pipeline's session-level lock
    pc,              \* where each relay's worker is in its loop
    last_offset,     \* the worker's in-memory high-water mark
    batch,           \* ids of the rows it copied in its last poll
    checkpoint,      \* id of the last of them
    delivered,       \* ids some publish handed to the sink
    dlq              \* ids inserted into tide.relay_dlq

pubVars    == <<seq, txn, pending, rows>>
workerVars == <<pc, last_offset, batch, checkpoint>>
sinkVars   == <<delivered, dlq>>
vars == <<seq, txn, pending, rows, last_change_id, fence, owner,
          pc, last_offset, batch, checkpoint, delivered, dlq>>

PCs == {"off", "starting", "ready", "waiting", "fenced",
        "batch", "failed", "disposed"}

TypeOK ==
    /\ seq \in Nat
    /\ txn \in [Publishers -> {"idle", "open"}]
    /\ pending \in [Publishers -> SUBSET Nat]
    /\ rows \in SUBSET Nat
    /\ last_change_id \in Nat
    /\ fence \in Relays \cup {NoRelay}
    /\ owner \in Relays \cup {NoRelay}
    /\ pc \in [Relays -> PCs]
    /\ last_offset \in [Relays -> Nat]
    /\ batch \in [Relays -> SUBSET Nat]
    /\ checkpoint \in [Relays -> Nat]
    /\ delivered \in SUBSET Nat
    /\ dlq \in SUBSET Nat

Init ==
    /\ seq = 0
    /\ txn = [p \in Publishers |-> "idle"]
    /\ pending = [p \in Publishers |-> {}]
    /\ rows = {}
    /\ last_change_id = 0
    /\ fence = NoRelay
    /\ owner = NoRelay
    /\ pc = [r \in Relays |-> "off"]
    /\ last_offset = [r \in Relays |-> 0]
    /\ batch = [r \in Relays |-> {}]
    /\ checkpoint = [r \in Relays |-> 0]
    /\ delivered = {}
    /\ dlq = {}

-----------------------------------------------------------------------------
(* Publishing.  outbox_publish locks the fence, then inserts; the lock and  *)
(* the row belong to the caller's transaction, which may publish again and  *)
(* ends whenever the application likes.                                     *)

\* A poll is queued for the fence in exclusive mode.
FenceRequested == \E r \in Relays : owner = r /\ pc[r] = "waiting"

\* The first outbox_publish of a transaction takes the fence in shared mode,
\* behind any poll that PostgreSQL has queued or granted before it.
lock_outbox(p) ==
    /\ txn[p] = "idle"
    /\ fence = NoRelay
    /\ ~ FenceRequested
    /\ txn' = [txn EXCEPT ![p] = "open"]
    /\ UNCHANGED <<seq, pending, rows, last_change_id, fence, owner,
                   workerVars, sinkVars>>

\* The INSERT draws the next id.
insert_message(p) ==
    /\ txn[p] = "open"
    /\ seq < MaxId
    /\ seq' = seq + 1
    /\ pending' = [pending EXCEPT ![p] = @ \cup {seq + 1}]
    /\ UNCHANGED <<txn, rows, last_change_id, fence, owner,
                   workerVars, sinkVars>>

commit_transaction(p) ==
    /\ txn[p] = "open"
    /\ rows' = rows \cup pending[p]
    /\ pending' = [pending EXCEPT ![p] = {}]
    /\ txn' = [txn EXCEPT ![p] = "idle"]
    /\ UNCHANGED <<seq, last_change_id, fence, owner, workerVars, sinkVars>>

\* An abort, a lost client or a database restart: the ids stay unused.
rollback_transaction(p) ==
    /\ txn[p] = "open"
    /\ pending' = [pending EXCEPT ![p] = {}]
    /\ txn' = [txn EXCEPT ![p] = "idle"]
    /\ UNCHANGED <<seq, rows, last_change_id, fence, owner,
                   workerVars, sinkVars>>

-----------------------------------------------------------------------------
(* The worker of relay r.  Its database work runs on the session that holds *)
(* the ownership lock, so each such step needs owner = r; a worker whose    *)
(* session is gone can still be in the middle of a publish.                 *)

\* reconcile() takes pg_try_advisory_lock on a fresh session.
try_acquire_ownership(r) ==
    /\ pc[r] = "off"
    /\ owner = NoRelay
    /\ owner' = r
    /\ pc' = [pc EXCEPT ![r] = "starting"]
    /\ UNCHANGED <<pubVars, last_change_id, fence, last_offset, batch,
                   checkpoint, sinkVars>>

\* Mutant: the worker resumes from what it remembers of an earlier ownership.
ResumeFromMemory(r) ==
    /\ pc[r] = "starting"
    /\ owner = r
    /\ pc' = [pc EXCEPT ![r] = "ready"]
    /\ UNCHANGED <<pubVars, last_change_id, fence, owner, last_offset, batch,
                   checkpoint, sinkVars>>

\* new_simple_native() reads where to resume.
load_offset(r) ==
    /\ pc[r] = "starting"
    /\ owner = r
    /\ last_offset' = [last_offset EXCEPT ![r] = last_change_id]
    /\ pc' = [pc EXCEPT ![r] = "ready"]
    /\ UNCHANGED <<pubVars, last_change_id, fence, owner, batch, checkpoint,
                   sinkVars>>

\* BEGIN; SELECT pg_advisory_xact_lock(fence) joins the lock's queue ...
request_fence(r) ==
    /\ pc[r] = "ready"
    /\ owner = r
    /\ pc' = [pc EXCEPT ![r] = "waiting"]
    /\ UNCHANGED <<pubVars, last_change_id, fence, owner, last_offset, batch,
                   checkpoint, sinkVars>>

\* The shared holders of the fence are gone.  (Mutant: the poll takes the fence
\* in shared mode, too.)
SharedPoll == TRUE
PublishersIdle == \A p \in Publishers : txn[p] = "idle"

\* ... and is granted when every publishing transaction before it has ended.
acquire_fence(r) ==
    /\ pc[r] = "waiting"
    /\ owner = r
    /\ fence = NoRelay
    /\ PublishersIdle
    /\ fence' = r
    /\ pc' = [pc EXCEPT ![r] = "fenced"]
    /\ UNCHANGED <<pubVars, last_change_id, owner, last_offset, batch,
                   checkpoint, sinkVars>>

\* Mutant: an off-by-one in the comparison with the mark.
UnreadOffByOne(r) == {id \in rows : id > last_offset[r] + 1}

\* The committed rows the next poll of r may return.
Unread(r) == {id \in rows : id > last_offset[r]}

\* SELECT ... WHERE id > last_offset ORDER BY id LIMIT batch_size; COMMIT.
\* The rows are copied and the fence is released before anything is sent.
select_rows(r) ==
    /\ pc[r] = "fenced"
    /\ owner = r
    /\ fence' = NoRelay
    /\ \/ /\ Unread(r) = {}
          /\ pc' = [pc EXCEPT ![r] = "ready"]
          /\ UNCHANGED <<batch, checkpoint>>
       \/ \E last \in Unread(r) :
             LET taken == {id \in Unread(r) : id <= last} IN
             /\ Cardinality(taken) <= BatchSize
             /\ Cardinality(taken) = BatchSize \/ taken = Unread(r)
             /\ batch' = [batch EXCEPT ![r] = taken]
             /\ checkpoint' = [checkpoint EXCEPT ![r] = last]
             /\ pc' = [pc EXCEPT ![r] = "batch"]
    /\ UNCHANGED <<pubVars, last_change_id, owner, last_offset, sinkVars>>

\* Sink::publish() reaches the connector's durable boundary.
publish_acknowledged(r) ==
    /\ pc[r] = "batch"
    /\ delivered' = delivered \cup batch[r]
    /\ pc' = [pc EXCEPT ![r] = "disposed"]
    /\ UNCHANGED <<pubVars, last_change_id, fence, owner, last_offset, batch,
                   checkpoint, dlq>>

\* It fails after the destination accepted any part of the batch (none, when
\* the circuit breaker refused or the batch could not be decoded).
publish_fails(r) ==
    /\ pc[r] = "batch"
    /\ \E accepted \in SUBSET batch[r] : delivered' = delivered \cup accepted
    /\ pc' = [pc EXCEPT ![r] = "failed"]
    /\ UNCHANGED <<pubVars, last_change_id, fence, owner, last_offset, batch,
                   checkpoint, dlq>>

\* Mutant: the mark moves when a batch is read, so a retry skips the batch.
BackOffAdvances(r) ==
    /\ pc[r] = "failed"
    /\ pc' = [pc EXCEPT ![r] = "ready"]
    /\ batch' = [batch EXCEPT ![r] = {}]
    /\ last_offset' = [last_offset EXCEPT ![r] = checkpoint[r]]
    /\ UNCHANGED <<pubVars, last_change_id, fence, owner, checkpoint, sinkVars>>

\* BackoffMs, or a transient DLQ error: sleep, drop the batch, poll again.
back_off(r) ==
    /\ pc[r] = "failed"
    /\ pc' = [pc EXCEPT ![r] = "ready"]
    /\ batch' = [batch EXCEPT ![r] = {}]
    /\ UNCHANGED <<pubVars, last_change_id, fence, owner, last_offset,
                   checkpoint, sinkVars>>

\* Mutant: the dead letters are inserted one by one, outside a transaction.
PartialDlq(r) ==
    /\ pc[r] = "failed"
    /\ owner = r
    /\ \E inserted \in SUBSET batch[r] : dlq' = dlq \cup inserted
    /\ pc' = [pc EXCEPT ![r] = "disposed"]
    /\ UNCHANGED <<pubVars, last_change_id, fence, owner, last_offset, batch,
                   checkpoint, delivered>>

\* RouteToDlq: the whole batch goes into tide.relay_dlq in one transaction.
route_to_dlq(r) ==
    /\ pc[r] = "failed"
    /\ owner = r
    /\ dlq' = dlq \cup batch[r]
    /\ pc' = [pc EXCEPT ![r] = "disposed"]
    /\ UNCHANGED <<pubVars, last_change_id, fence, owner, last_offset, batch,
                   checkpoint, delivered>>

Greatest(a, b) == IF a >= b THEN a ELSE b

\* commit_checkpoint(): the upsert of the durable offset, then the memory.
acknowledge(r) ==
    /\ pc[r] = "disposed"
    /\ owner = r
    /\ last_change_id' = Greatest(last_change_id, checkpoint[r])
    /\ last_offset' = [last_offset EXCEPT ![r] = Greatest(@, checkpoint[r])]
    /\ batch' = [batch EXCEPT ![r] = {}]
    /\ pc' = [pc EXCEPT ![r] = "ready"]
    /\ UNCHANGED <<pubVars, fence, owner, checkpoint, sinkVars>>

\* The server ends r's session: both locks go, and r may not know it yet.
session_lost(r) ==
    /\ owner = r
    /\ owner' = NoRelay
    /\ fence' = IF fence = r THEN NoRelay ELSE fence
    /\ UNCHANGED <<pubVars, last_change_id, workerVars, sinkVars>>

\* The worker ends while its session is alive: stop signal, abort after the
\* drain timeout, an error, or a crash of the process, which ends the session.
worker_exits(r) ==
    /\ pc[r] # "off"
    /\ owner = r
    /\ pc' = [pc EXCEPT ![r] = "off"]
    /\ batch' = [batch EXCEPT ![r] = {}]
    /\ owner' = NoRelay
    /\ fence' = IF fence = r THEN NoRelay ELSE fence
    /\ UNCHANGED <<pubVars, last_change_id, last_offset, checkpoint, sinkVars>>

\* Mutant: nobody watches the session, and the worker hangs.
LossUnnoticed(r) == FALSE

\* The session's connection task reports that the session is gone (or the
\* worker's next statement fails): the worker is dropped where it stands.
ownership_lost(r) ==
    /\ pc[r] # "off"
    /\ owner # r
    /\ pc' = [pc EXCEPT ![r] = "off"]
    /\ batch' = [batch EXCEPT ![r] = {}]
    /\ UNCHANGED <<pubVars, last_change_id, fence, owner, last_offset,
                   checkpoint, sinkVars>>

-----------------------------------------------------------------------------
\* admin_rewind_relay_offset(): the pipeline is disabled, nobody owns it, and
\* the target is not ahead of the offset.  (Retention.tla adds the floor.)
admin_rewind_relay_offset(target) ==
    /\ owner = NoRelay
    /\ target < last_change_id
    /\ last_change_id' = target
    /\ UNCHANGED <<pubVars, fence, owner, workerVars, sinkVars>>

Rewind == \E target \in 0 .. MaxId : admin_rewind_relay_offset(target)

Publish(p) ==
    \/ lock_outbox(p)
    \/ insert_message(p)
    \/ commit_transaction(p)
    \/ rollback_transaction(p)

Work(r) ==
    \/ try_acquire_ownership(r)
    \/ load_offset(r)
    \/ request_fence(r)
    \/ acquire_fence(r)
    \/ select_rows(r)
    \/ publish_acknowledged(r)
    \/ publish_fails(r)
    \/ back_off(r)
    \/ route_to_dlq(r)
    \/ acknowledge(r)
    \/ session_lost(r)
    \/ worker_exits(r)
    \/ ownership_lost(r)

Next ==
    \/ \E p \in Publishers : Publish(p)
    \/ \E r \in Relays : Work(r)
    \/ Rewind

Spec == Init /\ [][Next]_vars

(***************************************************************************)
(* Fairness.  Transactions end, reconciliation runs on a timer, and the    *)
(* steps of the worker loop are awaited one after the other, so each is    *)
(* taken when it stays possible (weak).  One step needs more: the sink is  *)
(* assumed not to fail for ever, unless the dead-letter queue takes the    *)
(* batch (strong).  That new publishers do not starve a poll needs no      *)
(* fairness: they queue behind it.                                         *)
(***************************************************************************)
Fairness ==
    /\ \A p \in Publishers :
          WF_vars(commit_transaction(p) \/ rollback_transaction(p))
    /\ WF_vars(\E r \in Relays : try_acquire_ownership(r))
    /\ \A r \in Relays :
          /\ WF_vars(ownership_lost(r))
          /\ WF_vars(load_offset(r))
          /\ WF_vars(request_fence(r))
          /\ WF_vars(acquire_fence(r))
          /\ WF_vars(select_rows(r))
          /\ WF_vars(publish_acknowledged(r) \/ publish_fails(r))
          /\ WF_vars(back_off(r) \/ route_to_dlq(r))
          /\ SF_vars(publish_acknowledged(r) \/ route_to_dlq(r))
          /\ WF_vars(acknowledge(r))

FairSpec == Spec /\ Fairness

-----------------------------------------------------------------------------
(* Properties *)

\* Ids with a durable terminal disposition.
Disposed == delivered \cup dlq

\* No committed message at or below the durable offset is without a terminal
\* disposition, whatever crashes, lost sessions, rollbacks, commit orders and
\* rewinds happened before (ADR-012: "silent loss is forbidden").
NoSkip == \A id \in rows : id <= last_change_id => id \in Disposed

\* A transaction never commits a row behind the durable offset or behind the
\* mark of the worker that owns the pipeline: such a row would never be read.
NoLateRow ==
    [][\A id \in rows' \ rows :
          /\ id > last_change_id
          /\ \A r \in Relays : owner = r /\ pc[r] # "starting"
                                  => id > last_offset[r]]_vars

\* A message reaches its first disposition ahead of fewer than BatchSize older
\* messages that have none: batches never overtake each other, not even when a
\* worker that lost its session publishes beside its successor.
BoundedOvertaking ==
    [][\A id \in Disposed' \ Disposed :
          Cardinality({j \in rows : j < id /\ j \notin Disposed'}) < BatchSize]_vars

\* The mechanism implements the promised channel.
Channel == INSTANCE AtLeastOnce
    WITH sent <- rows, disposed <- Disposed, frontier <- last_change_id

ImplementsChannel == Channel!Spec

\* Trouble comes to an end: from some time on no session is lost, no worker
\* is stopped and no operator rewinds.
Calm ==
    <>[][~ \/ Rewind
           \/ \E r \in Relays : session_lost(r) \/ worker_exits(r)]_vars

\* After any amount of trouble, every committed message gets behind the
\* durable offset (and so, by NoSkip, gets a disposition): workers without a
\* session and stale marks never block the pipeline.
EventuallyPast ==
    Calm => \A id \in 1 .. MaxId : id \in rows ~> id <= last_change_id

-----------------------------------------------------------------------------
(* The inductive invariant.                                                 *)

\* The exclusive fence excludes every open publishing transaction.
FenceExcludes == fence # NoRelay => \A p \in Publishers : txn[p] = "idle"

\* A relay holds the fence exactly while its live session is between the lock
\* and the end of the polling transaction.
FenceHeld == \A r \in Relays : fence = r <=> owner = r /\ pc[r] = "fenced"

\* Uncommitted ids exist only under the fence and above every mark that any
\* worker holds or could commit.
PendingAhead ==
    \A p \in Publishers :
        /\ txn[p] = "idle" => pending[p] = {}
        /\ \A id \in pending[p] :
              /\ id <= seq
              /\ id > last_change_id
              /\ \A r \in Relays : id > last_offset[r] /\ id > checkpoint[r]

\* Every mark is a value the sequence has handed out.
MarksBehindSequence ==
    /\ \A id \in rows : id <= seq
    /\ last_change_id <= seq
    /\ \A r \in Relays : last_offset[r] <= seq /\ checkpoint[r] <= seq

\* The owner's memory agrees with the durable offset once it has loaded it.
OwnerInSync ==
    \A r \in Relays :
        owner = r => /\ pc[r] # "off"
                     /\ pc[r] # "starting" => last_offset[r] = last_change_id

\* A copied batch is exactly the committed rows between the mark and the
\* checkpoint, also for a worker that lost its session.
BatchExact ==
    \A r \in Relays :
        pc[r] \in {"batch", "failed", "disposed"} =>
            batch[r] = {id \in rows : id > last_offset[r] /\ id <= checkpoint[r]}

DisposedMeansDisposed ==
    \A r \in Relays : pc[r] = "disposed" => batch[r] \subseteq Disposed

OnlyRowsDisposed == Disposed \subseteq rows

IInv ==
    /\ TypeOK
    /\ FenceExcludes
    /\ FenceHeld
    /\ PendingAhead
    /\ MarksBehindSequence
    /\ OwnerInSync
    /\ BatchExact
    /\ DisposedMeansDisposed
    /\ OnlyRowsDisposed
    /\ NoSkip

\* What a worker's mark has passed is disposed of: it comes from the durable
\* offset, or from a checkpoint whose batch the worker disposed of itself.
PassedMeansDisposed ==
    \A r \in Relays : \A id \in rows : id <= last_offset[r] => id \in Disposed

\* A batch is as large as the LIMIT of the poll at most.
BatchBounded ==
    \A r \in Relays :
        pc[r] \in {"batch", "failed", "disposed"} =>
            IsFiniteSet(batch[r]) /\ Cardinality(batch[r]) <= BatchSize

\* What the bound on overtaking needs beside IInv.
OInv == PassedMeansDisposed /\ BatchBounded

=============================================================================
