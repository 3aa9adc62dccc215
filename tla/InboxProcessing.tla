-------------------------- MODULE InboxProcessing --------------------------
(***************************************************************************)
(* A logical inbox: the API of pg-tide-ext/src/inbox.rs, the insert of     *)
(* pg-tide-relay/src/sink/inbox.rs and tide.inbox_truncate_processed().    *)
(* The relay may deliver any event again at any time.  A consumer reads a  *)
(* pending event and processes it in a transaction that also marks it; the *)
(* transaction may fail, and the failure be recorded.  Whether consumers   *)
(* lock the event they read (SELECT ... FOR UPDATE) is their choice and    *)
(* fixed in the initial state.                                             *)
(***************************************************************************)
EXTENDS Naturals

CONSTANTS
    Events,        \* dedup keys, the event_id of the inbox
    Consumers,
    NoEvent,
    MaxAttempts,   \* max_retries of the inbox; retry_count saturates there
    MaxForgotten,  \* bound: times an event leaves the table
    MaxOutcomes    \* bound: times an event is processed

VARIABLES
    registered,    \* the inbox is in tide.tide_inbox_config, with its table
    table,         \* state of each event in the message table
    retry_count,
    reading,       \* the event each consumer has read and not finished
    failed,        \* consumers whose transaction failed, unrecorded
    row_locks,     \* consumers lock what they read
    outcomes,      \* history: committed processings of each event
    forgot         \* history: times each event left the table

vars == <<registered, table, retry_count, reading, failed, row_locks,
          outcomes, forgot>>
historyVars == <<outcomes, forgot>>

RowStates == {"absent", "pending", "processed"}

TypeOK ==
    /\ registered \in BOOLEAN
    /\ table \in [Events -> RowStates]
    /\ retry_count \in [Events -> Nat]
    /\ reading \in [Consumers -> Events \cup {NoEvent}]
    /\ failed \subseteq Consumers
    /\ row_locks \in BOOLEAN
    /\ outcomes \in [Events -> Nat] /\ forgot \in [Events -> Nat]

Init ==
    /\ registered = FALSE
    /\ table = [e \in Events |-> "absent"]
    /\ retry_count = [e \in Events |-> 0]
    /\ reading = [c \in Consumers |-> NoEvent]
    /\ failed = {}
    /\ row_locks \in BOOLEAN
    /\ outcomes = [e \in Events |-> 0]
    /\ forgot = [e \in Events |-> 0]

-----------------------------------------------------------------------------
(* The inbox and its operators.                                             *)

inbox_create ==
    /\ ~ registered
    /\ registered' = TRUE
    /\ UNCHANGED <<table, retry_count, reading, failed, row_locks, historyVars>>

\* DROP TABLE waits for the transactions that hold locks on the table.
inbox_drop ==
    /\ registered
    /\ row_locks => \A c \in Consumers : reading[c] = NoEvent \/ c \in failed
    /\ \A e \in Events : table[e] # "absent" => forgot[e] < MaxForgotten
    /\ registered' = FALSE
    /\ table' = [e \in Events |-> "absent"]
    /\ retry_count' = [e \in Events |-> 0]
    /\ forgot' = [e \in Events |-> IF table[e] = "absent" THEN forgot[e]
                                                          ELSE forgot[e] + 1]
    /\ UNCHANGED <<reading, failed, row_locks, outcomes>>

\* A bug: the cleanup goes by age alone.
OldUnprocessed == {e \in Events : table[e] # "absent"}

Old == {e \in Events : table[e] = "processed"}

\* Any number of the processed events is past the retention.
inbox_truncate_processed ==
    /\ registered
    /\ \E expired \in SUBSET Old \ {{}} :
          /\ \A e \in expired : forgot[e] < MaxForgotten
          /\ table' = [e \in Events |-> IF e \in expired THEN "absent" ELSE table[e]]
          /\ retry_count' = [e \in Events |-> IF e \in expired THEN 0
                                                               ELSE retry_count[e]]
          /\ forgot' = [e \in Events |-> IF e \in expired THEN forgot[e] + 1
                                                          ELSE forgot[e]]
    /\ UNCHANGED <<registered, reading, failed, row_locks, outcomes>>

\* A bug: a replay reopens what is processed.
Reopened(e) == table[e] # "absent"

Replayable(e) == table[e] = "pending"

replay_inbox_messages(e) ==
    /\ registered
    /\ Replayable(e)
    /\ table' = [table EXCEPT ![e] = "pending"]
    /\ retry_count' = [retry_count EXCEPT ![e] = 0]
    /\ UNCHANGED <<registered, reading, failed, row_locks, historyVars>>

-----------------------------------------------------------------------------
(* The relay.                                                               *)

\* ON CONFLICT (event_id) DO NOTHING: an event in the table stays as it is.
inbox_insert(batch) ==
    /\ registered
    /\ table' = [e \in Events |-> IF e \in batch /\ table[e] = "absent"
                                  THEN "pending" ELSE table[e]]
    /\ UNCHANGED <<registered, retry_count, reading, failed, row_locks, historyVars>>

-----------------------------------------------------------------------------
(* The consumers.                                                           *)

Exhausted(e) == retry_count[e] >= MaxAttempts

read_pending(c, e) ==
    /\ reading[c] = NoEvent
    /\ table[e] = "pending" /\ ~ Exhausted(e)
    /\ row_locks => \A d \in Consumers : reading[d] = e => d \in failed
    /\ reading' = [reading EXCEPT ![c] = e]
    /\ UNCHANGED <<registered, table, retry_count, failed, row_locks, historyVars>>

\* The business change and the mark commit together.  The statement marks
\* nothing when another consumer has marked the event, and does not say so.
inbox_mark_processed(c) ==
    LET e == reading[c] IN
    /\ registered
    /\ e # NoEvent /\ c \notin failed
    /\ outcomes[e] < MaxOutcomes
    /\ outcomes' = [outcomes EXCEPT ![e] = @ + 1]
    /\ table' = [table EXCEPT ![e] = IF @ = "pending" THEN "processed" ELSE @]
    /\ reading' = [reading EXCEPT ![c] = NoEvent]
    /\ UNCHANGED <<registered, retry_count, failed, row_locks, forgot>>

\* The consumer's transaction rolls back, and its row lock is gone.
processing_fails(c) ==
    /\ reading[c] # NoEvent /\ c \notin failed
    /\ failed' = failed \cup {c}
    /\ UNCHANGED <<registered, table, retry_count, reading, row_locks, historyVars>>

\* The failure is recorded on whatever row has the event id now.
inbox_mark_failed(c) ==
    LET e == reading[c] IN
    /\ c \in failed
    /\ registered
    /\ retry_count' = IF table[e] = "absent" \/ Exhausted(e) THEN retry_count
                      ELSE [retry_count EXCEPT ![e] = @ + 1]
    /\ reading' = [reading EXCEPT ![c] = NoEvent]
    /\ failed' = failed \ {c}
    /\ UNCHANGED <<registered, table, row_locks, historyVars>>

consumer_dies(c) ==
    /\ reading[c] # NoEvent
    /\ reading' = [reading EXCEPT ![c] = NoEvent]
    /\ failed' = failed \ {c}
    /\ UNCHANGED <<registered, table, retry_count, row_locks, historyVars>>

Next ==
    \/ inbox_create
    \/ inbox_drop
    \/ inbox_truncate_processed
    \/ \E e \in Events : replay_inbox_messages(e)
    \/ \E batch \in SUBSET Events : inbox_insert(batch)
    \/ \E c \in Consumers :
          \/ \E e \in Events : read_pending(c, e)
          \/ inbox_mark_processed(c)
          \/ processing_fails(c)
          \/ inbox_mark_failed(c)
          \/ consumer_dies(c)

Spec == Init /\ [][Next]_vars

-----------------------------------------------------------------------------
(* Properties *)

\* idempotent-inbox.md, "each unique message eligible for one transactional
\* processing outcome, regardless of how many times the relay delivers it":
\* true of consumers that lock what they read, until a cleanup or a drop makes
\* the inbox forget the event.
OneOutcome == row_locks => \A e \in Events : outcomes[e] <= 1 + forgot[e]

\* A received event is kept until somebody has processed it: neither the
\* cleanup nor a redelivery, a failure or a replay takes it from the table,
\* only dropping the whole inbox does.
KeptUntilProcessed ==
    [][registered' =>
        \A e \in Events : table[e] = "pending" /\ table'[e] # "pending" =>
            outcomes'[e] = outcomes[e] + 1]_vars

-----------------------------------------------------------------------------
(* The inductive invariant.                                                 *)

\* A consumer at work holds the lock of a pending event.
LockHolders ==
    row_locks =>
        \A c \in Consumers : reading[c] # NoEvent /\ c \notin failed =>
            /\ table[reading[c]] = "pending"
            /\ \A d \in Consumers \ {c} : reading[d] = reading[c] => d \in failed

\* What is not processed has had as many outcomes as it was forgotten at most.
OutcomesCounted ==
    row_locks =>
        \A e \in Events :
            outcomes[e] <= forgot[e] + IF table[e] = "processed" THEN 1 ELSE 0

InboxInv ==
    /\ TypeOK
    /\ ~ registered => \A e \in Events : table[e] = "absent"
    /\ LockHolders
    /\ OutcomesCounted

=============================================================================
