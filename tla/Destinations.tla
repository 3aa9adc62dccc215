---------------------------- MODULE Destinations ----------------------------
(***************************************************************************)
(* What reaches a destination: the publish() of the sinks in               *)
(* pg-tide-relay/src/sink/, called batch by batch by workers that crash,   *)
(* lose their ownership unnoticed and retry.  NATS and Kafka take a batch  *)
(* message by message, a webhook takes it in one request, a PostgreSQL     *)
(* inbox in one statement.  Any request may fail after the destination     *)
(* has taken it, and a retried batch is polled anew, so that it may hold   *)
(* more rows than the one that failed.                                     *)
(*                                                                         *)
(* The committed rows of the outbox are 1 .. written.  A worker has three  *)
(* marks: the rows up to mark are disposed of, those up to sent have been  *)
(* acknowledged by the destination, those up to top are in its batch.      *)
(* RelayWorker has the loop around the call, the breaker and the failing   *)
(* dead-letter inserts.                                                    *)
(***************************************************************************)
EXTENDS Naturals, FiniteSets

CONSTANTS
    Workers,       \* the owner of the pipeline and a former owner
    BatchSize,
    MaxRetries,    \* dlq.max_retries
    MaxRow,        \* bound: rows written
    MaxTrouble     \* bound: failing calls, restarts and forgotten keys

SinkTypes == {"nats", "kafka", "webhook", "inbox"}
Rows == 1 .. MaxRow

VARIABLES
    sink_type,
    dlq_enabled,
    written,
    checkpoint,        \* durable offset
    mark, sent, top,   \* marks of each worker
    failures,          \* consecutive failures of each worker
    keys,              \* idempotency keys the destination remembers
    effects,           \* times a row took effect at the destination
    forgotten,         \* times the destination forgot the key of a row
    dead,              \* rows in tide.relay_dlq
    trouble

workerVars == <<mark, sent, top, failures>>
remoteVars == <<keys, effects, forgotten>>
vars == <<sink_type, dlq_enabled, written, checkpoint, mark, sent, top,
          failures, keys, effects, forgotten, dead, trouble>>

TypeOK ==
    /\ sink_type \in SinkTypes /\ dlq_enabled \in BOOLEAN
    /\ written \in 0 .. MaxRow /\ checkpoint \in 0 .. MaxRow
    /\ mark \in [Workers -> 0 .. MaxRow]
    /\ sent \in [Workers -> 0 .. MaxRow]
    /\ top \in [Workers -> 0 .. MaxRow]
    /\ failures \in [Workers -> Nat]
    /\ keys \subseteq SUBSET Rows
    /\ effects \in [Rows -> Nat] /\ forgotten \in [Rows -> Nat]
    /\ dead \subseteq Rows
    /\ trouble \in Nat

Init ==
    /\ sink_type \in SinkTypes
    /\ dlq_enabled \in BOOLEAN
    /\ written = 0
    /\ checkpoint = 0
    /\ mark = [w \in Workers |-> 0]
    /\ sent = [w \in Workers |-> 0]
    /\ top = [w \in Workers |-> 0]
    /\ failures = [w \in Workers |-> 0]
    /\ keys = {}
    /\ effects = [r \in Rows |-> 0]
    /\ forgotten = [r \in Rows |-> 0]
    /\ dead = {}
    /\ trouble = 0

-----------------------------------------------------------------------------
(* The destination.                                                         *)

\* A bug: the rows of a batch share one key.
OneKeyPerBatch(r, request) == request

\* The key a row is sent under: its dedup_key, and for a webhook the digest of
\* the dedup keys of the whole request.
idempotency_key(r, request) == IF sink_type = "webhook" THEN request ELSE {r}

\* A destination that remembers keys lets a key take effect once.
Fresh(request) ==
    {r \in request : sink_type = "kafka" \/ idempotency_key(r, request) \notin keys}

Takes(request) ==
    /\ effects' = [r \in Rows |-> effects[r] + IF r \in Fresh(request) THEN 1 ELSE 0]
    /\ keys' = IF sink_type = "kafka" THEN keys
               ELSE keys \cup {idempotency_key(r, request) : r \in request}
    /\ UNCHANGED forgotten

Refuses == UNCHANGED remoteVars

\* The failures a publish can report, and those no retry will cure.
FailureCodes ==
    [nats    |-> {"unavailable", "timeout", "throttled", "invalid_destination",
                  "protocol_rejection"},
     kafka   |-> {"unavailable", "unknown", "message_too_large", "authentication",
                  "authorization", "invalid_destination"},
     webhook |-> {"unavailable", "timeout", "throttled", "unknown",
                  "authentication", "invalid_destination", "protocol_rejection"},
     inbox   |-> {"unavailable", "timeout", "unknown", "authentication",
                  "authorization", "protocol_rejection"}]

Permanent == {"authentication", "authorization", "invalid_destination",
              "message_too_large", "protocol_rejection"}

-----------------------------------------------------------------------------
(* The worker around the call.                                              *)

write_row ==
    /\ written < MaxRow
    /\ written' = written + 1
    /\ UNCHANGED <<sink_type, dlq_enabled, checkpoint, workerVars, remoteVars,
                   dead, trouble>>

Lesser(a, b) == IF a < b THEN a ELSE b

poll(w) ==
    /\ top[w] = mark[w]
    /\ mark[w] < written
    /\ top' = [top EXCEPT ![w] = Lesser(mark[w] + BatchSize, written)]
    /\ UNCHANGED <<sink_type, dlq_enabled, written, checkpoint, mark, sent,
                   failures, remoteVars, dead, trouble>>

\* The destination acknowledged the request.
Acknowledged(w, request) ==
    /\ Takes(request)
    /\ sent' = [sent EXCEPT ![w] = @ + Cardinality(request)]
    /\ UNCHANGED <<checkpoint, mark, top, failures, dead, trouble>>

\* A bug: a call that failed counts as delivered.
FailureIgnored(w) ==
    /\ checkpoint' = IF top[w] > checkpoint THEN top[w] ELSE checkpoint
    /\ mark' = [mark EXCEPT ![w] = top[w]]
    /\ sent' = [sent EXCEPT ![w] = top[w]]
    /\ UNCHANGED <<top, failures, dead>>

\* The batch is given up, to be polled anew.
BackOff(w) ==
    /\ top' = [top EXCEPT ![w] = mark[w]]
    /\ sent' = [sent EXCEPT ![w] = mark[w]]
    /\ failures' = [failures EXCEPT ![w] = @ + 1]
    /\ UNCHANGED <<checkpoint, mark, dead>>

\* The durable offset and the worker's marks pass the batch.
Commit(w) ==
    /\ checkpoint' = IF top[w] > checkpoint THEN top[w] ELSE checkpoint
    /\ mark' = [mark EXCEPT ![w] = top[w]]
    /\ sent' = [sent EXCEPT ![w] = top[w]]
    /\ failures' = [failures EXCEPT ![w] = 0]
    /\ UNCHANGED top

\* The whole batch goes to the dead-letter queue, whatever of it was sent.
RouteToDlq(w) ==
    /\ dead' = dead \cup (mark[w] + 1 .. top[w])
    /\ Commit(w)

\* A worker begins at the durable offset.
Restart(w) ==
    /\ mark' = [mark EXCEPT ![w] = checkpoint]
    /\ sent' = [sent EXCEPT ![w] = checkpoint]
    /\ top' = [top EXCEPT ![w] = checkpoint]
    /\ failures' = [failures EXCEPT ![w] = 0]

\* A failure ends the batch.  It is dead-lettered if no retry can cure it or
\* the retries are used up.  A row that was refused took no effect, and after
\* any other failure nobody knows.
handle_publish_outcome(w, request, code) ==
    /\ trouble < MaxTrouble
    /\ trouble' = trouble + 1
    /\ Refuses \/ (code \notin Permanent /\ Takes(request))
    /\ IF dlq_enabled /\ (code \in Permanent \/ failures[w] + 1 > MaxRetries)
       THEN RouteToDlq(w)
       ELSE IF code \in Permanent
            THEN Restart(w) /\ UNCHANGED <<checkpoint, dead>>
            ELSE BackOff(w)

Call(w, request) ==
    /\ sent[w] < top[w]
    /\ \/ Acknowledged(w, request)
       \/ \E code \in FailureCodes[sink_type] :
              handle_publish_outcome(w, request, code)
    /\ UNCHANGED <<sink_type, dlq_enabled, written>>

\* A bug: the messages of a batch are sent from its end.
LastFirst(w) == {top[w] - (sent[w] - mark[w])}

NextMessage(w) == {sent[w] + 1}
WholeBatch(w) == mark[w] + 1 .. top[w]

nats_publish(w) == sink_type = "nats" /\ Call(w, NextMessage(w))
kafka_publish(w) == sink_type = "kafka" /\ Call(w, NextMessage(w))
webhook_publish(w) == sink_type = "webhook" /\ Call(w, WholeBatch(w))
inbox_publish(w) == sink_type = "inbox" /\ Call(w, WholeBatch(w))

commit_checkpoint(w) ==
    /\ mark[w] < top[w]
    /\ sent[w] = top[w]
    /\ Commit(w)
    /\ UNCHANGED <<sink_type, dlq_enabled, written, remoteVars, dead, trouble>>

\* The relay crashes, or loses the pipeline and gets it back.
restart(w) ==
    /\ trouble < MaxTrouble
    /\ trouble' = trouble + 1
    /\ Restart(w)
    /\ UNCHANGED <<sink_type, dlq_enabled, written, checkpoint, remoteVars, dead>>

\* The deduplication window of a stream passes, or an inbox is purged.
key_forgotten(r) ==
    /\ sink_type \in {"nats", "inbox"}
    /\ {r} \in keys
    /\ trouble < MaxTrouble
    /\ trouble' = trouble + 1
    /\ keys' = keys \ {{r}}
    /\ forgotten' = [forgotten EXCEPT ![r] = @ + 1]
    /\ UNCHANGED <<sink_type, dlq_enabled, written, checkpoint, workerVars,
                   effects, dead>>

Next ==
    \/ write_row
    \/ \E w \in Workers :
          \/ poll(w)
          \/ nats_publish(w)
          \/ kafka_publish(w)
          \/ webhook_publish(w)
          \/ inbox_publish(w)
          \/ commit_checkpoint(w)
          \/ restart(w)
    \/ \E r \in Rows : key_forgotten(r)

Spec == Init /\ [][Next]_vars

-----------------------------------------------------------------------------
(* Properties *)

Delivered == {r \in Rows : effects[r] > 0}

\* Two workers, partial batches, retries and dead letters notwithstanding,
\* rows reach the destination for the first time in their order: whatever has
\* arrived, every earlier row has arrived or is in the dead-letter queue.
FirstDeliveriesInOrder ==
    \A r \in Delivered : 1 .. r \subseteq Delivered \cup dead

\* message-guarantees.md: an inbox deduplicates durably and NATS within its
\* window, so that a row takes effect once, and once more at most for every
\* time its key was forgotten, however its batch was cut and retried.
OnceWhileRemembered ==
    sink_type \in {"nats", "inbox"} =>
        \A r \in Rows : effects[r] <= 1 + forgotten[r]

\* No row is lost between the outbox and the destination: what the durable
\* offset has passed took effect or is in the dead-letter queue.
NothingPassedOver == 1 .. checkpoint \subseteq Delivered \cup dead

-----------------------------------------------------------------------------
(* The inductive invariant.                                                 *)

Accounted == Delivered \cup dead

\* The marks of every worker are in order, what lies behind what was sent is
\* accounted for, and a sink that takes batches whole has sent all or nothing.
MarksOrdered ==
    \A w \in Workers :
        /\ mark[w] <= sent[w] /\ sent[w] <= top[w] /\ top[w] <= written
        /\ top[w] <= mark[w] + BatchSize
        /\ 1 .. sent[w] \subseteq Accounted
        /\ sink_type \in {"webhook", "inbox"} => sent[w] \in {mark[w], top[w]}

\* A remembered key has taken effect, once more than it was forgotten at most.
KeysKnown ==
    /\ \A request \in keys : request \subseteq Delivered
    /\ sink_type \in {"nats", "inbox"} =>
           \A r \in Rows :
               effects[r] <= forgotten[r] + IF {r} \in keys THEN 1 ELSE 0

DestinationsInv ==
    /\ TypeOK
    /\ checkpoint <= written
    /\ MarksOrdered
    /\ KeysKnown
    /\ FirstDeliveriesInOrder
    /\ NothingPassedOver

=============================================================================
