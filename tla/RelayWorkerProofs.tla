------------------------- MODULE RelayWorkerProofs -------------------------
(***************************************************************************)
(* Proofs about RelayWorker for every set of configurations, batch size    *)
(* and bound.  The inductive invariant ties the two marks, the batch       *)
(* between them and the dispositions together (for the two refinements)    *)
(* and the breaker's counters to the account of failing calls (SinkSpared).*)
(***************************************************************************)
EXTENDS RelayWorker, TLAPS

(***************************************************************************)
(* The circuit breaker's methods on their own.                             *)
(***************************************************************************)
LEMMA BreakerTyped ==
  ASSUME NEW c \in BreakerConfigs, NEW b \in BreakerStates
  PROVE  /\ NewBreaker \in BreakerStates
         /\ Allowed(c, b) \in BreakerStates
         /\ record_success(c, b) \in BreakerStates
         /\ record_failure(c, b) \in BreakerStates
<1> USE DEF BreakerStates
<1>1. NewBreaker \in BreakerStates
  BY DEF NewBreaker
<1>2. Allowed(c, b) \in BreakerStates
  BY DEF Allowed
<1>3. [b EXCEPT !.failure_count = 0] \in BreakerStates
  OBVIOUS
<1>4. [b EXCEPT !.success_count = @ + 1] \in BreakerStates
  OBVIOUS
<1>5. [b EXCEPT !.failure_count = @ + 1] \in BreakerStates
  OBVIOUS
<1>6. record_success(c, b) \in BreakerStates
  BY <1>1, <1>3, <1>4 DEF record_success
<1>7. Reopened(b) \in BreakerStates
  BY DEF Reopened
<1>8. [Reopened(b) EXCEPT !.failure_count = @ + 1] \in BreakerStates
  BY <1>7
<1>9. record_failure(c, b) \in BreakerStates
  BY <1>5, <1>7, <1>8 DEF record_failure
<1> QED  BY <1>1, <1>2, <1>6, <1>9

\* An elapsed timeout changes no other part of the breaker.
LEMMA ElapsedTyped ==
  ASSUME NEW b \in BreakerStates
  PROVE  /\ [b EXCEPT !.elapsed = TRUE] \in BreakerStates
         /\ [b EXCEPT !.elapsed = TRUE].state = b.state
         /\ [b EXCEPT !.elapsed = TRUE].elapsed
  BY DEF BreakerStates

LEMMA ConfigTyped ==
  ASSUME config \in Configs
  PROVE  /\ config.breaker \in BreakerConfigs
         /\ config.breaker.failure_threshold \in Nat
         /\ config.breaker.enabled \in BOOLEAN
         /\ config.dlq_enabled \in BOOLEAN
         /\ config.max_retries \in Nat
  BY ConfigsAssumption DEF WorkerConfigs, BreakerConfigs

LEMMA InitIInv == Init => IInv
  BY MaxFailuresAssumption, ConfigTyped
  DEF Init, IInv, TypeOK, Stages, NewBreaker, BreakerStates, BreakerLedger,
      Greatest, MarksInStep, InAttempt, BatchDisposed, Terminal,
      Marks, DisposedBelowMark, OnlyRowsDisposed, Disposed, OutcomeInStage

(***************************************************************************)
(* Types.                                                                  *)
(***************************************************************************)
LEMMA TypeStep == TypeOK /\ [Next]_vars => TypeOK'
<1> SUFFICES ASSUME TypeOK, [Next]_vars  PROVE TypeOK'
  OBVIOUS
<1> USE MaxFailuresAssumption, BatchSizeAssumption, BreakerTyped, ConfigTyped
<1>1. CASE publish_row
  BY <1>1 DEF publish_row, TypeOK, Stages, memVars, sinkVars, histVars
<1>2. CASE start
  BY <1>2 DEF start, TypeOK, Stages, memVars, sinkVars, histVars, NewBreaker, BreakerStates
<1>3. CASE poll
  BY <1>3 DEF poll, TypeOK, Stages, memVars, sinkVars, histVars, AtTop, Lesser
<1>4. CASE poll_transient_error
  BY <1>4 DEF poll_transient_error, TypeOK, Stages, memVars, sinkVars, histVars, AtTop, OneMore, Lesser
<1>5. CASE encode
  BY <1>5 DEF encode, TypeOK, Stages, memVars, sinkVars, histVars
<1>6. CASE observe_dry_run
  BY <1>6 DEF observe_dry_run, TypeOK, Stages, memVars, sinkVars, histVars, Batch
<1>7. CASE start_publish
  BY <1>7 DEF start_publish, TypeOK, Stages, memVars, sinkVars, histVars
<1>8. CASE exceed_limits
  BY <1>8 DEF exceed_limits, TypeOK, Stages, memVars, sinkVars, histVars, OneMore, Lesser
<1>9. CASE breaker_refuses
  BY <1>9 DEF breaker_refuses, TypeOK, Stages, memVars, sinkVars, histVars
<1>10. CASE call_sink
  BY <1>10 DEF call_sink, TypeOK, Stages, memVars, sinkVars, histVars
<1>11. CASE sink_acknowledges
  BY <1>11 DEF sink_acknowledges, TypeOK, Stages, memVars, sinkVars, histVars, Batch
<1>12. CASE timeout_elapses
  <2>1. breaker' \in BreakerStates
    BY <1>12, ElapsedTyped DEF timeout_elapses, TypeOK
  <2> QED  BY <1>12, <2>1 DEF timeout_elapses, TypeOK, sinkVars
<1>13. CASE back_off
  BY <1>13 DEF back_off, TypeOK, Stages, memVars, sinkVars, histVars
<1>14. CASE shut_down
  BY <1>14 DEF shut_down, TypeOK, Stages, memVars, sinkVars, histVars
<1>15. CASE route_to_dlq
  BY <1>15 DEF route_to_dlq, TypeOK, Stages, memVars, sinkVars, histVars, Batch
<1>16. CASE dlq_transient_error
  BY <1>16 DEF dlq_transient_error, TypeOK, Stages, memVars, sinkVars, histVars
<1>17. CASE commit_checkpoint
  BY <1>17 DEF commit_checkpoint, TypeOK, Stages, memVars, sinkVars, histVars, Greatest
<1>18. CASE worker_ends
  BY <1>18 DEF worker_ends, TypeOK, Stages, memVars, sinkVars, histVars
<1>19. ASSUME NEW error \in {"transient", "permanent"}, sink_fails(error)
       PROVE  TypeOK'
  BY <1>19 DEF sink_fails, TypeOK, Stages, memVars, sinkVars, histVars, OneMore,
     Lesser
<1>20. CASE UNCHANGED vars
  BY <1>20 DEF vars, TypeOK
<1> QED  BY <1>1, <1>2, <1>3, <1>4, <1>5, <1>6, <1>7, <1>8, <1>9, <1>10, <1>11, <1>12, <1>13, <1>14, <1>15, <1>16, <1>17, <1>18, <1>19, <1>20 DEF Next, Publishing, Disposition

(***************************************************************************)
(* Marks, batches and dispositions.                                        *)
(***************************************************************************)
LEMMA MarksStep ==
  TypeOK /\ Marks /\ [Next]_vars => Marks'
<1> SUFFICES ASSUME TypeOK, Marks, [Next]_vars  PROVE Marks'
  OBVIOUS
<1> USE BatchSizeAssumption
    DEF Marks, MarksInStep, InAttempt, BatchDisposed, Terminal, Batch,
        DisposedBelowMark, OnlyRowsDisposed, Disposed, OutcomeInStage,
        TypeOK, memVars, sinkVars, histVars
<1>1. CASE publish_row
  BY <1>1 DEF publish_row
<1>2. CASE start
  BY <1>2 DEF start
<1>3. CASE poll
  BY <1>3 DEF poll, AtTop, Lesser
<1>4. CASE poll_transient_error
  BY <1>4 DEF poll_transient_error, AtTop
<1>5. CASE encode
  BY <1>5 DEF encode
<1>6. CASE observe_dry_run
  BY <1>6 DEF observe_dry_run
<1>7. CASE start_publish
  BY <1>7 DEF start_publish
<1>8. CASE exceed_limits
  BY <1>8 DEF exceed_limits
<1>9. CASE breaker_refuses
  BY <1>9 DEF breaker_refuses
<1>10. CASE call_sink
  BY <1>10 DEF call_sink
<1>11. CASE sink_acknowledges
  BY <1>11 DEF sink_acknowledges
<1>12. CASE timeout_elapses
  BY <1>12 DEF timeout_elapses
<1>13. CASE back_off
  BY <1>13 DEF back_off
<1>14. CASE shut_down
  BY <1>14 DEF shut_down
<1>15. CASE route_to_dlq
  BY <1>15 DEF route_to_dlq
<1>16. CASE dlq_transient_error
  BY <1>16 DEF dlq_transient_error
<1>17. CASE commit_checkpoint
  BY <1>17 DEF commit_checkpoint, Greatest
<1>18. CASE worker_ends
  BY <1>18 DEF worker_ends
<1>19. ASSUME NEW error \in {"transient", "permanent"}, sink_fails(error)
       PROVE  Marks'
  BY <1>19 DEF sink_fails
<1>20. CASE UNCHANGED vars
  BY <1>20 DEF vars
<1> QED  BY <1>1, <1>2, <1>3, <1>4, <1>5, <1>6, <1>7, <1>8, <1>9, <1>10, <1>11, <1>12, <1>13, <1>14, <1>15, <1>16, <1>17, <1>18, <1>19, <1>20
      DEF Next, Publishing, Disposition

(***************************************************************************)
(* The account of failing calls.                                           *)
(***************************************************************************)

\* What the breaker's methods do to its state and its failure counter.
LEMMA BreakerSteps ==
  ASSUME NEW c \in BreakerConfigs, NEW b \in BreakerStates, c.enabled
  PROVE  /\ Allowed(c, b).state # "open"
         /\ b.state # "open" => Allowed(c, b) = b
         /\ b.state = "open" => Allowed(c, b).state = "half_open"
         /\ b.state # "open" =>
              record_success(c, b).state \in {"closed", "half_open"}
         /\ record_success(c, b).state = "closed" =>
              record_success(c, b).failure_count = 0
         /\ b.state = "half_open" =>
              record_failure(c, b).state = "open" /\ ~ record_failure(c, b).elapsed
         /\ b.state = "closed" /\ record_failure(c, b).state = "closed" =>
              /\ record_failure(c, b).failure_count = b.failure_count + 1
              /\ b.failure_count + 1 < c.failure_threshold
         /\ b.state = "closed" =>
              \/ record_failure(c, b).state = "closed"
              \/ record_failure(c, b).state = "open" /\ ~ record_failure(c, b).elapsed
  BY DEF BreakerConfigs, BreakerStates, Allowed, record_success, record_failure,
     Reopened, NewBreaker

LEMMA LedgerStep ==
  TypeOK /\ BreakerLedger /\ [Next]_vars => BreakerLedger'
<1> SUFFICES ASSUME TypeOK, BreakerLedger, [Next]_vars  PROVE BreakerLedger'
  OBVIOUS
<1>1. config' = config
  BY DEF Next, Publishing, Disposition, publish_row, start, poll,
     poll_transient_error, encode, observe_dry_run, start_publish, exceed_limits,
     breaker_refuses, call_sink, sink_acknowledges, sink_fails, timeout_elapses,
     back_off, shut_down, route_to_dlq, dlq_transient_error, commit_checkpoint,
     worker_ends, vars
<1> SUFFICES ASSUME config.breaker.enabled  PROVE BreakerLedger'
  BY <1>1 DEF BreakerLedger
<1> USE <1>1, ConfigTyped, BreakerSteps
    DEF BreakerLedger, Greatest, TypeOK, memVars, sinkVars, histVars
<1>2. CASE publish_row
  BY <1>2 DEF publish_row
<1>3. CASE start
  BY <1>3 DEF start, NewBreaker
<1>4. CASE poll
  BY <1>4 DEF poll, AtTop
<1>5. CASE poll_transient_error
  BY <1>5 DEF poll_transient_error
<1>6. CASE encode
  BY <1>6 DEF encode
<1>7. CASE observe_dry_run
  BY <1>7 DEF observe_dry_run
<1>8. CASE start_publish
  BY <1>8 DEF start_publish
<1>9. CASE exceed_limits
  BY <1>9 DEF exceed_limits
<1>10. CASE breaker_refuses
  BY <1>10 DEF breaker_refuses
<1>11. CASE call_sink
  BY <1>11 DEF call_sink, should_allow
<1>12. CASE sink_acknowledges
  BY <1>12 DEF sink_acknowledges
<1>13. CASE timeout_elapses
  BY <1>13 DEF timeout_elapses, BreakerStates
<1>14. CASE back_off
  BY <1>14 DEF back_off
<1>15. CASE shut_down
  BY <1>15 DEF shut_down
<1>16. CASE route_to_dlq
  BY <1>16 DEF route_to_dlq
<1>17. CASE dlq_transient_error
  BY <1>17 DEF dlq_transient_error
<1>18. CASE commit_checkpoint
  BY <1>18 DEF commit_checkpoint
<1>19. CASE worker_ends
  BY <1>19 DEF worker_ends
<1>20. ASSUME NEW error \in {"transient", "permanent"}, sink_fails(error)
       PROVE  BreakerLedger'
  <2>1. /\ breaker.state \in {"closed", "half_open"}
        /\ breaker.failure_count \in Nat
    BY <1>20 DEF sink_fails, BreakerStates
  <2>2. /\ breaker' = record_failure(config.breaker, breaker)
        /\ unpaid' = unpaid + 1
        /\ stage' = "publish_failed"
    BY <1>20 DEF sink_fails
  <2>3. CASE breaker'.state = "open" /\ ~ breaker'.elapsed
    BY <2>1, <2>2, <2>3
  <2>4. CASE breaker'.state = "closed" /\ breaker.state = "closed"
    <3>1. /\ breaker'.failure_count = breaker.failure_count + 1
          /\ breaker.failure_count + 1 < config.breaker.failure_threshold
      BY <2>2, <2>4
    <3> QED  BY <2>1, <2>2, <2>4, <3>1
  <2> QED  BY <2>1, <2>2, <2>3, <2>4
<1>21. CASE UNCHANGED vars
  BY <1>21 DEF vars
<1> QED  BY <1>2, <1>3, <1>4, <1>5, <1>6, <1>7, <1>8, <1>9, <1>10, <1>11, <1>12, <1>13, <1>14, <1>15, <1>16, <1>17, <1>18, <1>19, <1>20, <1>21
      DEF Next, Publishing, Disposition

(***************************************************************************)
(* The theorems.                                                           *)
(***************************************************************************)

\* The strengthened invariant holds of every reachable state.
THEOREM Inductive == Spec => []IInv
<1>1. Init => IInv
  BY InitIInv
<1>2. IInv /\ [Next]_vars => IInv'
  BY TypeStep, MarksStep, LedgerStep DEF IInv, Marks
<1> QED  BY <1>1, <1>2, PTL DEF Spec

\* Type correctness.
THEOREM TypeCorrect == Spec => []TypeOK
<1>1. IInv => TypeOK
  BY DEF IInv
<1> QED  BY <1>1, Inductive, PTL

\* One worker calls a sink that is down at most failure_threshold times, counted
\* from its start or its last success, and once more for every half-open
\* timeout that passes meanwhile.  (A restarted worker counts anew.)
THEOREM SinkIsSpared == Spec => []SinkSpared
<1>1. IInv => SinkSpared
  BY DEF IInv, BreakerLedger, SinkSpared
<1> QED  BY <1>1, Inductive, PTL

(***************************************************************************)
(* Refinement of the delivery state machine.                               *)
(***************************************************************************)
LEMMA ModelStep ==
  TypeOK /\ Marks /\ [Next]_vars => [Model!Next]_(Model!vars)
<1> SUFFICES ASSUME TypeOK, Marks, [Next]_vars  PROVE [Model!Next]_(Model!vars)
  OBVIOUS
<1> USE DEF Model!vars, MachineState, InAttempt, TypeOK, Stages, memVars, sinkVars,
        histVars
<1>1. CASE publish_row
  BY <1>1 DEF publish_row
<1>2. CASE start
  BY <1>2 DEF start
<1>3. CASE poll
  BY <1>3, BatchSizeAssumption DEF poll, AtTop, Lesser, Marks, MarksInStep,
      Model!Next, Model!Polled
<1>4. CASE poll_transient_error
  BY <1>4 DEF poll_transient_error, AtTop
<1>5. CASE encode
  BY <1>5 DEF encode, Model!Next, Model!Encoded, Model!Move
<1>6. CASE observe_dry_run
  BY <1>6 DEF observe_dry_run, Marks, OutcomeInStage, Model!Next,
      Model!DryRunObserved, Model!Move
<1>7. CASE start_publish
  BY <1>7 DEF start_publish, Model!Next, Model!PublishStarted, Model!Move
<1>8. CASE exceed_limits
  BY <1>8 DEF exceed_limits, Marks, OutcomeInStage, Model!Next,
      Model!PublishFailed, Model!Move
<1>9. CASE breaker_refuses
  BY <1>9 DEF breaker_refuses, Marks, OutcomeInStage, Model!Next,
      Model!PublishFailed, Model!Move
<1>10. CASE call_sink
  BY <1>10 DEF call_sink
<1>11. CASE sink_acknowledges
  BY <1>11 DEF sink_acknowledges, Marks, OutcomeInStage, Model!Next,
      Model!SinkAcknowledged, Model!Move
<1>12. CASE timeout_elapses
  BY <1>12 DEF timeout_elapses
<1>13. CASE back_off
  BY <1>13 DEF back_off, Model!Next, Model!Retry, Model!NoBatch
<1>14. CASE shut_down
  BY <1>14 DEF shut_down, Model!Next, Model!Retry, Model!NoBatch
<1>15. CASE route_to_dlq
  BY <1>15 DEF route_to_dlq, Model!Next, Model!DlqPersisted, Model!Move
<1>16. CASE dlq_transient_error
  BY <1>16 DEF dlq_transient_error, Model!Next, Model!Retry, Model!NoBatch
<1>17. CASE commit_checkpoint
  BY <1>17 DEF commit_checkpoint, Terminal, Greatest, Marks, MarksInStep,
      Model!Next, Model!CheckpointCommitted, Model!Terminal
<1>18. CASE worker_ends
  BY <1>18 DEF worker_ends, Model!Next, Model!Retry, Model!NoBatch
<1>19. ASSUME NEW error \in {"transient", "permanent"}, sink_fails(error)
       PROVE  [Model!Next]_(Model!vars)
  BY <1>19 DEF sink_fails, Marks, OutcomeInStage, Model!Next,
      Model!PublishFailed, Model!Move
<1>20. CASE UNCHANGED vars
  BY <1>20 DEF vars
<1> QED  BY <1>1, <1>2, <1>3, <1>4, <1>5, <1>6, <1>7, <1>8, <1>9, <1>10,
      <1>11, <1>12, <1>13, <1>14, <1>15, <1>16, <1>17, <1>18, <1>19, <1>20 DEF
      Next, Publishing, Disposition

\* The runtime loop follows ADR-012's state machine, whatever fails.
THEOREM FollowsModel == Spec => FollowsDeliveryModel
<1>1. Init => Model!Init
  BY DEF Init, Model!Init, Model!NoBatch, MachineState, InAttempt
<1>2. IInv /\ [Next]_vars => [Model!Next]_(Model!vars)
  BY ModelStep DEF IInv
<1> QED  BY <1>1, <1>2, Inductive, PTL DEF Spec, FollowsDeliveryModel, Model!Spec

(***************************************************************************)
(* Refinement of the channel.                                              *)
(***************************************************************************)
LEMMA ChannelStep ==
  TypeOK /\ Marks /\ [Next]_vars => [Channel!Next]_(Channel!vars)
<1> SUFFICES ASSUME TypeOK, Marks, [Next]_vars  PROVE [Channel!Next]_(Channel!vars)
  OBVIOUS
<1> USE DEF Channel!vars, Disposed, TypeOK, memVars, sinkVars, histVars
<1>1. CASE publish_row
  BY <1>1 DEF publish_row, Marks, MarksInStep, Channel!Next, Channel!Send
<1>2. CASE start
  BY <1>2 DEF start
<1>3. CASE poll
  BY <1>3 DEF poll
<1>4. CASE poll_transient_error
  BY <1>4 DEF poll_transient_error
<1>5. CASE encode
  BY <1>5 DEF encode
<1>6. CASE observe_dry_run
  BY <1>6 DEF observe_dry_run, Batch, Marks, MarksInStep, OnlyRowsDisposed,
      InAttempt, Channel!Next, Channel!Dispose
<1>7. CASE start_publish
  BY <1>7 DEF start_publish
<1>8. CASE exceed_limits
  BY <1>8 DEF exceed_limits
<1>9. CASE breaker_refuses
  BY <1>9 DEF breaker_refuses
<1>10. CASE call_sink
  BY <1>10 DEF call_sink
<1>11. CASE sink_acknowledges
  BY <1>11 DEF sink_acknowledges, Batch, Marks, MarksInStep, OnlyRowsDisposed,
      InAttempt, Channel!Next, Channel!Dispose
<1>12. CASE timeout_elapses
  BY <1>12 DEF timeout_elapses
<1>13. CASE back_off
  BY <1>13 DEF back_off
<1>14. CASE shut_down
  BY <1>14 DEF shut_down
<1>15. CASE route_to_dlq
  BY <1>15 DEF route_to_dlq, Batch, Marks, MarksInStep, OnlyRowsDisposed,
      InAttempt, Channel!Next, Channel!Dispose
<1>16. CASE dlq_transient_error
  BY <1>16 DEF dlq_transient_error
<1>17. CASE commit_checkpoint
  BY <1>17 DEF commit_checkpoint, Batch, Greatest, Terminal, InAttempt, Marks,
      MarksInStep, BatchDisposed, DisposedBelowMark, Channel!Next,
      Channel!Advance
<1>18. CASE worker_ends
  BY <1>18 DEF worker_ends
<1>19. ASSUME NEW error \in {"transient", "permanent"}, sink_fails(error)
       PROVE  [Channel!Next]_(Channel!vars)
  BY <1>19 DEF sink_fails
<1>20. CASE UNCHANGED vars
  BY <1>20 DEF vars
<1> QED  BY <1>1, <1>2, <1>3, <1>4, <1>5, <1>6, <1>7, <1>8, <1>9, <1>10,
      <1>11, <1>12, <1>13, <1>14, <1>15, <1>16, <1>17, <1>18, <1>19, <1>20 DEF
      Next, Publishing, Disposition

\* For every configuration the loop implements the at-least-once channel.
THEOREM Refines == Spec => ImplementsChannel
<1>1. Init => Channel!Init
  BY DEF Init, Channel!Init, Disposed
<1>2. IInv /\ [Next]_vars => [Channel!Next]_(Channel!vars)
  BY ChannelStep DEF IInv
<1> QED  BY <1>1, <1>2, Inductive, PTL DEF Spec, ImplementsChannel, Channel!Spec

=============================================================================
