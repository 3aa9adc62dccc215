--------------------------- MODULE MCRelayWorker ---------------------------
(* Small instances of RelayWorker for TLC. *)
EXTENDS RelayWorker

NoBreaker == [enabled |-> FALSE, failure_threshold |-> 5, success_threshold |-> 3]
SmallBreaker == [enabled |-> TRUE, failure_threshold |-> 2, success_threshold |-> 2]

\* With and without breaker and dead-letter queue, and a dry run.
MCConfigs ==
    [dry_run : {FALSE}, dlq_enabled : BOOLEAN, max_retries : {1},
     breaker : {NoBreaker, SmallBreaker}]
    \cup
    [dry_run : {TRUE}, dlq_enabled : {FALSE}, max_retries : {1},
     breaker : {NoBreaker}]

\* A dead-letter queue and no breaker.
DlqConfigs ==
    [dry_run : {FALSE}, dlq_enabled : {TRUE}, max_retries : {2},
     breaker : {NoBreaker}]

\* A breaker and no dead-letter queue.
BreakerOnlyConfigs ==
    [dry_run : {FALSE}, dlq_enabled : {FALSE}, max_retries : {1},
     breaker : {SmallBreaker}]

=============================================================================
