---------------------------- MODULE SweepCommand ----------------------------
(***************************************************************************)
(* pg-tide sweep (pg-tide-relay/src/cmd/sweep.rs): one command that sweeps *)
(* every outbox in bounded batches, each in a transaction of its own, and  *)
(* then maintains the partitions.  Meanwhile rows grow old, other sweeps   *)
(* hold rows locked, outboxes are dropped and the connection breaks.       *)
(* Retention has the sweep of one outbox in detail; here it is the number  *)
(* of rows that it may take.                                               *)
(***************************************************************************)
EXTENDS Integers, FiniteSets, FiniteSetsExt

CONSTANTS
    Outboxes,
    NoOutbox,
    BatchSize,
    MaxBatches,   \* bound: batches per outbox that are asked for
    MaxRows       \* bound: rows per outbox

VARIABLES
    options,      \* the arguments: [dry_run, max_batches]
    existing,     \* tide.tide_outbox_config
    eligible,     \* rows of each outbox that the retention rules let go
    locked,       \* those of them that other sweeps hold
    phase,
    queue,        \* outboxes the loop has still to come to
    current,      \* the outbox the loop is at
    batch,        \* batches of it that were completed
    total_deleted,
    failures,     \* what has failed: outboxes, and "partitions"
    connected,
    deleted,      \* history: rows the command has removed from each outbox
    emptied,      \* history: outboxes that had no unlocked row to take since the start
    called        \* history: outboxes for which a sweep was called

worldVars == <<existing, eligible, locked>>
loopVars == <<phase, queue, current, batch, total_deleted, failures>>
vars == <<options, worldVars, loopVars, connected, deleted, emptied, called>>

Options == [dry_run : BOOLEAN, max_batches : 1 .. MaxBatches]

Init ==
    /\ options \in Options
    /\ existing = Outboxes
    /\ eligible \in [Outboxes -> 0 .. MaxRows]
    /\ locked = [o \in Outboxes |-> 0]
    /\ phase = "listing"
    /\ queue = {} /\ current = NoOutbox /\ batch = 0
    /\ total_deleted = 0 /\ failures = {}
    /\ connected = TRUE
    /\ deleted = [o \in Outboxes |-> 0] /\ called = {}
    /\ emptied = {o \in Outboxes : eligible[o] = 0}

Free(o) == eligible[o] - locked[o]

-----------------------------------------------------------------------------
(* Everybody else.                                                          *)

row_grows_old(o) ==
    /\ o \in existing
    /\ eligible[o] + deleted[o] < MaxRows
    /\ eligible' = [eligible EXCEPT ![o] = @ + 1]
    /\ UNCHANGED <<options, existing, locked, loopVars, connected, deleted, called>>

other_sweep_locks(o) ==
    /\ Free(o) > 0
    /\ locked' = [locked EXCEPT ![o] = @ + 1]
    /\ UNCHANGED <<options, existing, eligible, loopVars, connected, deleted, called>>

\* The other sweep commits and the row is gone, or rolls back.
other_sweep_ends(o) ==
    /\ locked[o] > 0
    /\ locked' = [locked EXCEPT ![o] = @ - 1]
    /\ \/ eligible' = [eligible EXCEPT ![o] = @ - 1]
       \/ UNCHANGED eligible
    /\ UNCHANGED <<options, existing, loopVars, connected, deleted, called>>

outbox_dropped(o) ==
    /\ o \in existing
    /\ existing' = existing \ {o}
    /\ eligible' = [eligible EXCEPT ![o] = 0]
    /\ locked' = [locked EXCEPT ![o] = 0]
    /\ UNCHANGED <<options, loopVars, connected, deleted, called>>

connection_lost ==
    /\ connected
    /\ connected' = FALSE
    /\ UNCHANGED <<options, worldVars, loopVars, deleted, called>>

-----------------------------------------------------------------------------
(* The command.                                                             *)

list_outboxes ==
    /\ phase = "listing"
    /\ IF connected
       THEN phase' = "sweeping" /\ queue' = existing /\ UNCHANGED failures
       ELSE phase' = "failed" /\ failures' = {"list"} /\ UNCHANGED queue
    /\ UNCHANGED <<options, worldVars, current, batch, total_deleted, connected, deleted, called>>

next_outbox(o) ==
    /\ phase = "sweeping" /\ current = NoOutbox
    /\ o \in queue
    /\ current' = o
    /\ queue' = queue \ {o}
    /\ batch' = 0
    /\ UNCHANGED <<options, worldVars, phase, total_deleted, failures, connected, deleted, called>>

\* A bug: one batch is run, whatever was asked.
OneBatch == 1

Limit == IF options.dry_run THEN 1 ELSE options.max_batches

\* Rows one call removes, and whether it saw that there are more.
Affected(o) == IF options.dry_run THEN 0 ELSE Min({BatchSize, Free(o)})
HasMore(o) == Free(o) > BatchSize

Remove(o, n) ==
    /\ eligible' = [eligible EXCEPT ![o] = @ - n]
    /\ deleted' = [deleted EXCEPT ![o] = @ + n]

\* The loop leaves an outbox when its batches are used up or it is exhausted.
Calling(o) == phase = "sweeping" /\ current = o /\ batch < Limit

call_sweep(o) ==
    /\ Calling(o)
    /\ connected /\ o \in existing
    /\ Remove(o, Affected(o))
    /\ total_deleted' = total_deleted + Affected(o)
    /\ batch' = batch + 1
    /\ current' = IF options.dry_run \/ ~HasMore(o) \/ batch' = Limit THEN NoOutbox ELSE o
    /\ called' = called \cup {o}
    /\ UNCHANGED <<options, existing, locked, phase, queue, failures, connected>>

\* A bug: the first failure ends the loop.
GiveUp(o) ==
    /\ failures' = failures \cup {o}
    /\ current' = NoOutbox
    /\ queue' = {}
    /\ UNCHANGED <<phase, batch, total_deleted>>

\* A bug: a failure resets the count.
CountAgain(o) ==
    /\ failures' = failures \cup {o}
    /\ current' = NoOutbox
    /\ total_deleted' = 0
    /\ UNCHANGED <<phase, queue, batch>>

\* A failure is recorded, and the loop goes on with the next outbox.
RecordFailure(o) ==
    /\ failures' = failures \cup {o}
    /\ current' = NoOutbox
    /\ UNCHANGED <<phase, queue, batch, total_deleted>>

\* Nothing was removed: an error of the statement, an outbox that is gone, or
\* no connection.
sweep_fails(o) ==
    /\ Calling(o)
    /\ RecordFailure(o)
    /\ called' = called \cup {o}
    /\ UNCHANGED <<options, worldVars, connected, deleted>>

\* The COMMIT was carried out, and the answer got lost with the connection.
commit_unanswered(o) ==
    /\ Calling(o)
    /\ connected /\ o \in existing
    /\ Remove(o, Affected(o))
    /\ connected' = FALSE
    /\ RecordFailure(o)
    /\ called' = called \cup {o}
    /\ UNCHANGED <<options, existing, locked>>

\* After the last outbox.  An installation without the function has nothing to
\* maintain.
maintain_partitions ==
    /\ phase = "sweeping" /\ queue = {} /\ current = NoOutbox
    /\ \E failed \in {f \in BOOLEAN : connected \/ f} :
          /\ failures' = IF failed THEN failures \cup {"partitions"} ELSE failures
          /\ phase' = IF failures' = {} THEN "ok" ELSE "failed"
    /\ UNCHANGED <<options, worldVars, queue, current, batch, total_deleted, connected,
                   deleted, called>>

Command ==
    \/ list_outboxes
    \/ maintain_partitions
    \/ \E o \in Outboxes : \/ next_outbox(o) \/ call_sweep(o)
                           \/ sweep_fails(o) \/ commit_unanswered(o)

Next ==
    /\ \/ Command
       \/ connection_lost
       \/ \E o \in Outboxes : \/ row_grows_old(o) \/ outbox_dropped(o)
                              \/ other_sweep_locks(o) \/ other_sweep_ends(o)
    /\ emptied' = emptied \cup {o \in Outboxes : Free(o)' = 0}

Spec == Init /\ [][Next]_vars

-----------------------------------------------------------------------------
(* Properties *)

\* sweep.rs:79-81, "automation cannot mistake partial cleanup for success":
\* when the command reports success, every outbox either gave all the batches
\* that were asked for or had, at some moment since the command began, nothing
\* more to take that no other sweep held.
SuccessIsComplete ==
    phase = "ok" /\ ~options.dry_run =>
        \A o \in called : \/ deleted[o] = options.max_batches * BatchSize
                          \/ o \in emptied

\* A failed outbox does not keep the command from the others: it ends only
\* after each of the outboxes it listed was called.
EveryOutboxTried ==
    phase \in {"ok", "failed"} /\ "list" \notin failures => existing \subseteq called

\* The rows that the command removed, numbered in each outbox.
DeletedRows == UNION {{o} \X (1 .. deleted[o]) : o \in Outboxes}

\* What the command reports as deleted was deleted, less at most the batch
\* whose commit went unanswered; a success reports all of it.
ReportsWhatWasDeleted ==
    /\ phase = "ok" => total_deleted = Cardinality(DeletedRows)
    /\ Cardinality(DeletedRows) \in total_deleted .. total_deleted + BatchSize

-----------------------------------------------------------------------------
(* The inductive invariant.                                                 *)

TypeOK ==
    /\ options \in Options
    /\ existing \subseteq Outboxes /\ queue \subseteq Outboxes
    /\ called \subseteq Outboxes /\ emptied \subseteq Outboxes
    /\ eligible \in [Outboxes -> Nat] /\ locked \in [Outboxes -> Nat]
    /\ \A o \in Outboxes : locked[o] <= eligible[o]
    /\ phase \in {"listing", "sweeping", "ok", "failed"}
    /\ current \in Outboxes \cup {NoOutbox}
    /\ batch \in Nat /\ total_deleted \in Nat /\ deleted \in [Outboxes -> Nat]
    /\ connected \in BOOLEAN

\* The loop comes to each outbox once, and has taken whole batches from the one
\* it is at.
LoopInOrder ==
    /\ phase # "sweeping" => queue = {} /\ current = NoOutbox
    /\ phase = "listing" => called = {}
    /\ current \notin queue /\ called \cap queue = {}
    /\ \A o \in Outboxes \ called : deleted[o] = 0
    /\ current # NoOutbox =>
          /\ batch < Limit
          /\ ~options.dry_run => deleted[current] = batch * BatchSize
          /\ current \notin called => batch = 0

\* The outboxes the loop is done with.
DoneCompletely ==
    ~options.dry_run =>
        \A o \in called \ {current} :
            \/ o \in failures
            \/ o \in emptied
            \/ deleted[o] = options.max_batches * BatchSize

\* The outboxes the loop has to come to.
StillToTry ==
    /\ phase = "sweeping" => existing \subseteq called \cup queue \cup {current}
    /\ phase = "ok" => failures = {}

\* Every row is counted until the connection is lost, and what is lost with it
\* is one batch, with a failure.
Counted ==
    /\ IsFiniteSet(DeletedRows)
    /\ connected \/ failures = {} => total_deleted = Cardinality(DeletedRows)
    /\ Cardinality(DeletedRows) \in total_deleted .. total_deleted + BatchSize

LoopInv ==
    /\ TypeOK
    /\ LoopInOrder
    /\ DoneCompletely
    /\ StillToTry
    /\ EveryOutboxTried

SweepInv == LoopInv /\ Counted

=============================================================================
