--------------------------- MODULE CircuitBreaker ---------------------------
(***************************************************************************)
(* pg-tide-relay/src/circuit_breaker.rs: the methods of CircuitBreaker as  *)
(* functions of its configuration c and its state b.  The clock is reduced *)
(* to b.elapsed: has half_open_timeout passed since opened_at?             *)
(***************************************************************************)
EXTENDS Integers

BreakerConfigs ==
    [enabled : BOOLEAN, failure_threshold : Nat, success_threshold : Nat]

BreakerStates ==
    [state : {"closed", "open", "half_open"},
     failure_count : Nat, success_count : Nat, elapsed : BOOLEAN]

NewBreaker ==
    [state |-> "closed", failure_count |-> 0, success_count |-> 0,
     elapsed |-> FALSE]

should_allow(c, b) == ~ c.enabled \/ b.state # "open" \/ b.elapsed

\* What should_allow() leaves behind when it answers yes.
Allowed(c, b) ==
    IF c.enabled /\ b.state = "open"
    THEN [b EXCEPT !.state = "half_open", !.success_count = 0]
    ELSE b

record_success(c, b) ==
    IF ~ c.enabled \/ b.state = "open" THEN b
    ELSE IF b.state = "closed" THEN [b EXCEPT !.failure_count = 0]
    ELSE IF b.success_count + 1 >= c.success_threshold THEN NewBreaker
    ELSE [b EXCEPT !.success_count = @ + 1]

Reopened(b) == [b EXCEPT !.state = "open", !.success_count = 0, !.elapsed = FALSE]

\* Mutant: the timeout is measured from the first opening only.
StaleTimeout(c, b) ==
    IF ~ c.enabled \/ b.state = "open" THEN b
    ELSE IF b.state = "half_open" THEN [b EXCEPT !.state = "open", !.success_count = 0]
    ELSE IF b.failure_count + 1 >= c.failure_threshold
    THEN [b EXCEPT !.failure_count = @ + 1, !.state = "open"]
    ELSE [b EXCEPT !.failure_count = @ + 1]

record_failure(c, b) ==
    IF ~ c.enabled \/ b.state = "open" THEN b
    ELSE IF b.state = "half_open" THEN Reopened(b)
    ELSE IF b.failure_count + 1 >= c.failure_threshold
    THEN [Reopened(b) EXCEPT !.failure_count = @ + 1]
    ELSE [b EXCEPT !.failure_count = @ + 1]

=============================================================================
