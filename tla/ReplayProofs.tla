---------------------------- MODULE ReplayProofs ----------------------------
(***************************************************************************)
(* Proofs about BoundedReplay for every range, batch size and number of    *)
(* ids: a replay that reports success has sent all rows of its range that  *)
(* no sweep took, and it never sends another row.  The invariant says that *)
(* behind the replay's mark nothing is owed any more, and that a batch has *)
(* all that is owed up to the row it ends with.                            *)
(***************************************************************************)
EXTENDS BoundedReplay, NumberLemmas

-----------------------------------------------------------------------------
(* What a poll returns.                                                     *)

\* A poll returns rows above the mark.
LEMMA PollReadsAbove == Polled \subseteq rows /\ \A id \in Polled : id > last_offset
  BY DEF Polled

\* The last row of a batch is the greatest.
LEMMA LastOfPoll ==
  ASSUME ReplayAssumption, TypeOK, Polled # {}
  PROVE  Last(Polled) \in Polled /\ \A id \in Polled : id <= Last(Polled)
<1>1. Polled \in SUBSET (0 .. MaxId) /\ MaxId \in Nat
  BY PollReadsAbove DEF TypeOK, Ids, ReplayAssumption
<1>2. \E last \in Polled : \A id \in Polled : id <= last
  <2> HIDE DEF Polled
  <2> QED  BY <1>1, GreatestExists
<1> QED  BY <1>2 DEF Last

\* A poll leaves no row out below one that it returns.
LEMMA PollHasNoGaps ==
  ASSUME ReplayAssumption, TypeOK, NEW last \in Polled,
         NEW id \in rows, last_offset < id, id <= last
  PROVE  id \in Polled
<1> DEFINE UpTo(n) == {i \in rows : last_offset < i /\ i <= n}
<1>0. last \in Nat /\ rows \subseteq Nat /\ id \in Nat /\ last_offset \in Nat
  BY PollReadsAbove DEF TypeOK, Ids
<1>1. UpTo(id) \subseteq UpTo(last) /\ UpTo(last) \in SUBSET Nat
  <2>1. \A i \in Nat : i <= id => i <= last
    BY <1>0
  <2> QED  BY <1>0, <2>1
<1>2. IsFiniteSet(UpTo(last))
  <2>1. \A i \in UpTo(last) : i <= MaxId
    BY DEF TypeOK, Ids
  <2> HIDE DEF UpTo
  <2> QED  BY <1>1, <2>1, FS_BoundedSetOfNaturals DEF ReplayAssumption
<1>3. /\ Cardinality(UpTo(id)) <= Cardinality(UpTo(last))
      /\ Cardinality(UpTo(id)) \in Nat /\ Cardinality(UpTo(last)) \in Nat
  <2> HIDE DEF UpTo
  <2> QED  BY <1>1, <1>2, FS_Subset, FS_CardinalityType
<1>4. Cardinality(UpTo(last)) <= BatchSize
  BY DEF Polled
<1>5. Cardinality(UpTo(id)) <= BatchSize
  <2> HIDE DEF UpTo
  <2> QED  BY <1>3, <1>4 DEF ReplayAssumption
<1> QED  BY <1>5 DEF Polled

\* Whatever the batch size, a poll returns the first row above the mark.
LEMMA PollHasFirst ==
  ASSUME ReplayAssumption, TypeOK, NEW id \in rows, last_offset < id
  PROVE  \E first \in Polled : first <= id
<1> DEFINE Above == {i \in rows : last_offset < i}
<1>1. Above \in SUBSET Nat /\ Above # {}
  <2>1. id \in Above
    OBVIOUS
  <2>2. rows \subseteq Nat
    BY DEF TypeOK, Ids
  <2> QED  BY <2>1, <2>2
<1>2. PICK first \in Above : \A i \in Above : first <= i
  <2> HIDE DEF Above
  <2> QED  BY <1>1, SmallestExists
<1>3. {i \in rows : last_offset < i /\ i <= first} = {first}
  <2>1. first \in rows /\ last_offset < first /\ rows \subseteq Nat
    BY DEF TypeOK, Ids
  <2>2. ASSUME NEW i \in rows, last_offset < i, i <= first  PROVE i = first
    BY <1>2, <2>1, <2>2
  <2>3. first <= first
    BY <2>1
  <2> QED  BY <2>1, <2>2, <2>3
<1>4. Cardinality({i \in rows : last_offset < i /\ i <= first}) <= BatchSize
  <2>1. Cardinality({first}) = 1
    BY FS_Singleton
  <2> QED  BY <1>3, <2>1 DEF ReplayAssumption
<1>5. first \in Polled
  BY <1>4 DEF Polled
<1> QED  BY <1>2, <1>5

-----------------------------------------------------------------------------
(* The parts of the invariant.                                              *)

LEMMA TypeStep == ReplayAssumption /\ TypeOK /\ [Next]_vars => TypeOK'
<1> SUFFICES ASSUME ReplayAssumption, TypeOK, [Next]_vars  PROVE TypeOK'
  OBVIOUS
<1> USE DEF TypeOK, Ids, outboxVars, replayVars, ReplayAssumption, Phases
<1>1. CASE publish_row
  BY <1>1 DEF publish_row
<1>2. CASE live_worker_commits
  BY <1>2 DEF live_worker_commits
<1>3. CASE admin_rewind_relay_offset
  BY <1>3 DEF admin_rewind_relay_offset
<1>4. ASSUME NEW id \in rows, sweep(id)  PROVE TypeOK'
  BY <1>4 DEF sweep
<1>5. CASE run_replay_once
  BY <1>5 DEF run_replay_once, InRange
<1>6. CASE configure_replay
  <2>1. range.from_id \in 0 .. MaxId
    BY DEF Ranges
  <2> QED  BY <1>6, <2>1 DEF configure_replay, BeforeFirst
<1>7. CASE poll_and_decode
  <2>1. filter_replay_batch(Polled) \subseteq Polled /\ Polled \subseteq Ids
    BY DEF filter_replay_batch, Polled
  <2>2. batch' # {} => Last(Polled) \in 0 .. MaxId
    <3>1. batch' # {} => Polled # {}
      BY <1>7, <2>1 DEF poll_and_decode
    <3>2. Polled # {} => Last(Polled) \in Polled
      BY LastOfPoll
    <3>3. Ids \subseteq 0 .. MaxId
      OBVIOUS
    <3> HIDE DEF Ids, TypeOK, Polled
    <3> QED  BY <2>1, <3>1, <3>2, <3>3
  <2> QED  BY <1>7, <2>1, <2>2 DEF poll_and_decode
<1>8. CASE batch_disposed
  BY <1>8 DEF batch_disposed, acknowledge
<1>9. CASE back_off
  BY <1>9 DEF back_off
<1>10. CASE replay_aborts
  BY <1>10 DEF replay_aborts
<1>11. CASE compare_checkpoints
  BY <1>11 DEF compare_checkpoints
<1>12. CASE UNCHANGED vars
  BY <1>12 DEF vars
<1> QED
  BY <1>1, <1>2, <1>3, <1>4, <1>5, <1>6, <1>7, <1>8, <1>9, <1>10, <1>11, <1>12 DEF Next, ReplayStep

\* Ids: what is swept stays swept, and new rows get new ids.
Drawn ==
    /\ rows \cap swept = {}
    /\ \A id \in rows \cup swept : id < next_id

LEMMA DrawnStep ==
  ReplayAssumption /\ TypeOK /\ Drawn /\ [Next]_vars => Drawn'
<1> SUFFICES ASSUME ReplayAssumption, TypeOK, Drawn, [Next]_vars  PROVE Drawn'
  OBVIOUS
<1> USE DEF TypeOK, Ids, outboxVars, replayVars, Drawn, ReplayAssumption
<1>1. CASE publish_row
  BY <1>1 DEF publish_row
<1>2. CASE live_worker_commits
  BY <1>2 DEF live_worker_commits
<1>3. CASE admin_rewind_relay_offset
  BY <1>3 DEF admin_rewind_relay_offset
<1>4. ASSUME NEW id \in rows, sweep(id)  PROVE Drawn'
  BY <1>4 DEF sweep
<1>5. CASE run_replay_once
  BY <1>5 DEF run_replay_once
<1>6. CASE configure_replay
  BY <1>6 DEF configure_replay
<1>7. CASE poll_and_decode
  BY <1>7 DEF poll_and_decode
<1>8. CASE batch_disposed
  BY <1>8 DEF batch_disposed, acknowledge
<1>9. CASE back_off
  BY <1>9 DEF back_off
<1>10. CASE replay_aborts
  BY <1>10 DEF replay_aborts
<1>11. CASE compare_checkpoints
  BY <1>11 DEF compare_checkpoints
<1>12. CASE UNCHANGED vars
  BY <1>12 DEF vars
<1> QED
  BY <1>1, <1>2, <1>3, <1>4, <1>5, <1>6, <1>7, <1>8, <1>9, <1>10, <1>11, <1>12 DEF Next, ReplayStep

\* What is owed was in the outbox and is in the range, and so is all that is
\* sent; the mark begins before the range.
Within ==
    /\ owed \subseteq rows \cup swept
    /\ \A id \in owed \cup batch \cup replayed : InRange(id)
    /\ Working => range.from_id <= last_offset + 1
    /\ phase = "publishing" => last_offset < top

LEMMA WithinStep ==
  ReplayAssumption /\ TypeOK /\ Within /\ [Next]_vars => Within'
<1> SUFFICES ASSUME ReplayAssumption, TypeOK, Within, [Next]_vars  PROVE Within'
  OBVIOUS
<1> USE DEF TypeOK, Ids, outboxVars, replayVars, Within, InRange, Working, ReplayAssumption
<1>1. CASE publish_row
  BY <1>1 DEF publish_row
<1>2. CASE live_worker_commits
  BY <1>2 DEF live_worker_commits
<1>3. CASE admin_rewind_relay_offset
  BY <1>3 DEF admin_rewind_relay_offset
<1>4. ASSUME NEW id \in rows, sweep(id)  PROVE Within'
  BY <1>4 DEF sweep
<1>5. CASE run_replay_once
  BY <1>5 DEF run_replay_once
<1>6. CASE configure_replay
  <2>1. range.from_id \in 0 .. MaxId
    BY DEF Ranges
  <2> QED  BY <1>6, <2>1 DEF configure_replay, BeforeFirst
<1>7. CASE poll_and_decode
  <2>1. batch' # {} => last_offset < Last(Polled)
    <3>1. batch' # {} => Polled # {}
      BY <1>7 DEF poll_and_decode, filter_replay_batch
    <3>2. Polled # {} => Last(Polled) \in Polled
      BY LastOfPoll
    <3> QED  BY <3>1, <3>2, PollReadsAbove
  <2>2. /\ phase = "polling" /\ UNCHANGED <<rows, swept, owed, replayed, range, last_offset>>
        /\ phase' \in {"ending", "publishing"}
        /\ phase' = "publishing" => batch' # {} /\ top' = Last(Polled)
    BY <1>7 DEF poll_and_decode
  <2>3. \A id \in batch' : InRange(id)'
    BY <1>7, <2>2 DEF poll_and_decode, filter_replay_batch
  <2> QED  BY <2>1, <2>2, <2>3
<1>8. CASE batch_disposed
  <2>1. top \in Nat /\ last_offset \in Nat /\ range.from_id \in Nat
    BY DEF Ranges
  <2>2. range.from_id <= last_offset + 1 /\ last_offset < top
    BY <1>8 DEF batch_disposed
  <2>3. range.from_id <= top + 1
    BY <2>1, <2>2
  <2>4. last_offset' = top /\ phase' = "polling" /\ range' = range
    BY <1>8 DEF batch_disposed, acknowledge
  <2>5. owed' \subseteq rows' \cup swept' /\ \A id \in owed' \cup batch' \cup replayed' : InRange(id)'
    BY <1>8 DEF batch_disposed, acknowledge
  <2> QED  BY <2>3, <2>4, <2>5
<1>9. CASE back_off
  BY <1>9 DEF back_off
<1>10. CASE replay_aborts
  BY <1>10 DEF replay_aborts
<1>11. CASE compare_checkpoints
  BY <1>11 DEF compare_checkpoints
<1>12. CASE UNCHANGED vars
  BY <1>12 DEF vars
<1> QED
  BY <1>1, <1>2, <1>3, <1>4, <1>5, <1>6, <1>7, <1>8, <1>9, <1>10, <1>11, <1>12 DEF Next, ReplayStep

\* Where a poll returns nothing of the range, nothing that is owed is still to
\* be read: the first row above the mark is in the poll, so it is past the range.
LEMMA EmptyBatchIsTheEnd ==
  ASSUME ReplayAssumption, TypeOK, Within, Progress, phase = "polling",
         filter_replay_batch(Polled) = {}, NEW id \in owed
  PROVE  id \in replayed \cup swept
<1>0. id \in Nat /\ last_offset \in Nat
  BY DEF TypeOK, Ids
<1>1. CASE id <= last_offset
  BY <1>1 DEF Progress, Working
<1>2. CASE last_offset < id /\ id \in rows
  <2>1. PICK first \in Polled : first <= id
    BY <1>2, PollHasFirst
  <2>2. /\ first \in Nat /\ last_offset < first
        /\ range.from_id \in Nat /\ range.to_id \in Nat
    BY PollReadsAbove DEF TypeOK, Ids, Ranges
  <2>3. range.from_id <= last_offset + 1 /\ id <= range.to_id
    BY DEF Within, Working, InRange
  <2>4. InRange(first)
    BY <1>0, <2>1, <2>2, <2>3 DEF InRange
  <2> QED  BY <2>4 DEF filter_replay_batch
<1> QED  BY <1>0, <1>1, <1>2 DEF Within

\* The mark moves past a row of the range only when the row has been disposed
\* of, and an end is seen only where nothing of the range is left above it.
LEMMA ProgressStep ==
  ReplayAssumption /\ TypeOK /\ Within /\ Progress /\ [Next]_vars => Progress'
<1> SUFFICES ASSUME ReplayAssumption, TypeOK, Within, Progress, [Next]_vars  PROVE Progress'
  OBVIOUS
<1>0. owed \subseteq Nat /\ rows \subseteq Nat /\ last_offset \in Nat /\ top \in Nat
  BY DEF TypeOK, Ids
<1> USE DEF outboxVars, replayVars, Progress, Working
<1>1. CASE publish_row
  BY <1>1 DEF publish_row
<1>2. CASE live_worker_commits
  BY <1>2 DEF live_worker_commits
<1>3. CASE admin_rewind_relay_offset
  BY <1>3 DEF admin_rewind_relay_offset
<1>4. ASSUME NEW id \in rows, sweep(id)  PROVE Progress'
  BY <1>4 DEF sweep
<1>5. CASE run_replay_once
  BY <1>5 DEF run_replay_once
<1>6. CASE configure_replay
  <2>1. CASE pipeline.consumer_group
    BY <1>6, <2>1 DEF configure_replay
  <2>2. CASE ~pipeline.consumer_group
    <3>1. phase' = "polling" /\ last_offset' = BeforeFirst(range.from_id)
          /\ owed' = owed /\ range' = range
      BY <1>6, <2>2 DEF configure_replay
    <3>2. ASSUME NEW id \in owed  PROVE ~(id <= BeforeFirst(range.from_id))
      <4>1. range.from_id \in Nat /\ range.from_id <= id
        BY DEF TypeOK, Ranges, Within, InRange
      <4>2. id \in Nat /\ id # 0
        BY DEF TypeOK, Ids
      <4> QED  BY <4>1, <4>2 DEF BeforeFirst
    <3> QED  BY <3>1, <3>2
  <2> QED  BY <2>1, <2>2
<1>7. CASE poll_and_decode
  <2>1. /\ phase = "polling" /\ UNCHANGED <<rows, swept, owed, replayed, range, last_offset>>
        /\ batch' = filter_replay_batch(Polled)
    BY <1>7 DEF poll_and_decode
  <2>2. CASE batch' = {}
    <3>1. phase' = "ending"
      BY <1>7, <2>2 DEF poll_and_decode
    <3>2. ASSUME NEW id \in owed  PROVE id \in replayed \cup swept
      BY <1>7, <2>1, <2>2, <3>2, EmptyBatchIsTheEnd DEF poll_and_decode
    <3> QED  BY <2>1, <3>1, <3>2
  <2>3. CASE batch' # {}
    <3>1. phase' = "publishing" /\ top' = Last(Polled) /\ Polled # {}
      BY <1>7, <2>1, <2>3 DEF poll_and_decode, filter_replay_batch
    <3>2. ASSUME NEW id \in owed, last_offset < id, id <= Last(Polled)
          PROVE  id \in filter_replay_batch(Polled) \cup swept
      <4>1. Last(Polled) \in Polled
        BY <3>1, LastOfPoll
      <4>2. CASE id \in rows
        <5>1. id \in Polled
          BY <3>2, <4>1, <4>2, PollHasNoGaps
        <5> QED  BY <5>1 DEF filter_replay_batch, Within
      <4> QED  BY <4>2 DEF Within
    <3> QED  BY <2>1, <3>1, <3>2
  <2> QED  BY <2>2, <2>3
<1>8. CASE batch_disposed
  <2>1. /\ phase = "publishing" /\ phase' = "polling" /\ last_offset' = top
        /\ owed' = owed /\ swept' = swept /\ replayed' = replayed \cup batch
    BY <1>8 DEF batch_disposed, acknowledge
  <2>2. ASSUME NEW id \in owed, id <= top  PROVE id \in replayed \cup batch \cup swept
    <3>1. CASE id <= last_offset
      BY <2>1, <3>1
    <3>2. CASE last_offset < id
      BY <2>1, <2>2, <3>2
    <3> QED  BY <1>0, <3>1, <3>2
  <2> QED  BY <2>1, <2>2
<1>9. CASE back_off
  BY <1>9 DEF back_off
<1>10. CASE replay_aborts
  BY <1>10 DEF replay_aborts
<1>11. CASE compare_checkpoints
  BY <1>11 DEF compare_checkpoints
<1>12. CASE UNCHANGED vars
  BY <1>12 DEF vars
<1> QED
  BY <1>1, <1>2, <1>3, <1>4, <1>5, <1>6, <1>7, <1>8, <1>9, <1>10, <1>11, <1>12 DEF Next, ReplayStep

-----------------------------------------------------------------------------
(* The theorems.                                                            *)

LEMMA InvOfParts == ReplayInv <=> TypeOK /\ Drawn /\ Within /\ Progress
  BY DEF ReplayInv, Drawn, Within

LEMMA Initially == ReplayAssumption /\ Init => ReplayInv
<1> SUFFICES ASSUME ReplayAssumption, Init  PROVE ReplayInv
  OBVIOUS
<1>1. TypeOK
  BY DEF Init, TypeOK, Ids, Phases, ReplayAssumption
<1>2. Drawn /\ Within /\ Progress
  BY DEF Init, Drawn, Within, Progress, Working
<1> QED  BY <1>1, <1>2, InvOfParts

\* The invariant is inductive: no publisher, live worker, rewind or sweep that
\* goes on beside the replay takes it away.
THEOREM Inductive ==
  ASSUME ReplayAssumption
  PROVE  Spec => []ReplayInv
<1>1. ReplayInv /\ [Next]_vars => ReplayInv'
  <2> SUFFICES ASSUME ReplayInv, [Next]_vars  PROVE (TypeOK /\ Drawn /\ Within /\ Progress)'
    BY InvOfParts DEF ReplayInv, Drawn, Within
  <2>1. TypeOK /\ Drawn /\ Within /\ Progress
    BY InvOfParts
  <2> QED  BY <2>1, TypeStep, DrawnStep, WithinStep, ProgressStep
<1> QED  BY <1>1, Initially, PTL DEF Spec

\* A replay that reports success has sent every row of the range that was in
\* the outbox when run_replay_once() began and that no sweep has taken, for
\* every range, batch size and pattern of gaps.
THEOREM ReplayIsCompleteHolds ==
  ASSUME ReplayAssumption
  PROVE  Spec => []ReplayIsComplete
<1>1. ReplayInv => ReplayIsComplete
  BY DEF ReplayInv, Progress, ReplayIsComplete
<1> QED  BY <1>1, Inductive, PTL

\* filter_replay_batch() lets nothing out of the range reach the sink.
THEOREM ReplayStaysInRangeHolds ==
  ASSUME ReplayAssumption
  PROVE  Spec => []ReplayStaysInRange
<1>1. ReplayInv => ReplayStaysInRange
  BY DEF ReplayInv, ReplayStaysInRange
<1> QED  BY <1>1, Inductive, PTL

=============================================================================
