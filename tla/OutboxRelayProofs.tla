------------------------- MODULE OutboxRelayProofs -------------------------
(***************************************************************************)
(* Proofs about OutboxRelay for any number of publishers and relays, any   *)
(* batch size and any bound on ids.  The inductive invariant IInv relates  *)
(* the marks the relays hold (durable offset, in-memory mark, checkpoint)  *)
(* to the ids that are still uncommitted.  NoSkip alone is not inductive:  *)
(* whether a commit or an acknowledgment keeps it depends on where the     *)
(* fence forced the uncommitted ids to lie.                                *)
(***************************************************************************)
EXTENDS OutboxRelay, FiniteSetTheorems, TLAPS

LEMMA InitIInv == Init => IInv
  BY NoRelayAssumption
  DEF Init, IInv, TypeOK, PCs, FenceExcludes, FenceHeld, PendingAhead,
      MarksBehindSequence, OwnerInSync, BatchExact, DisposedMeansDisposed,
      OnlyRowsDisposed, NoSkip, Disposed

(***************************************************************************)
(* The steps of publishing transactions.                                   *)
(***************************************************************************)

\* No poll is between its lock and its SELECT when a transaction starts.
LEMMA LockOutboxIInv ==
  ASSUME NEW p \in Publishers, IInv, lock_outbox(p)
  PROVE  IInv'
  BY DEF lock_outbox, workerVars, sinkVars, IInv, TypeOK, PCs,
     FenceExcludes, FenceHeld, PendingAhead, MarksBehindSequence, OwnerInSync,
     BatchExact, DisposedMeansDisposed, OnlyRowsDisposed, NoSkip, Disposed

\* A fresh id lies above every mark, because every mark was handed out before.
LEMMA InsertMessageIInv ==
  ASSUME NEW p \in Publishers, IInv, insert_message(p)
  PROVE  IInv'
  BY DEF insert_message, workerVars, sinkVars, IInv, TypeOK, PCs,
     FenceExcludes, FenceHeld, PendingAhead, MarksBehindSequence, OwnerInSync,
     BatchExact, DisposedMeansDisposed, OnlyRowsDisposed, NoSkip, Disposed

\* Ids become rows only ahead of every mark, so no batch misses one and no
\* offset has passed one.
LEMMA CommitIInv ==
  ASSUME NEW p \in Publishers, IInv, commit_transaction(p)
  PROVE  IInv'
<1> USE DEF commit_transaction, workerVars, sinkVars, IInv
<1>1. TypeOK'
  BY DEF TypeOK, PCs
<1>2. FenceExcludes' /\ FenceHeld'
  BY DEF FenceExcludes, FenceHeld, TypeOK
<1>3. PendingAhead'
  BY DEF PendingAhead, TypeOK
<1>4. MarksBehindSequence'
  BY DEF MarksBehindSequence, PendingAhead, TypeOK
<1>5. OwnerInSync'
  BY DEF OwnerInSync
<1>6. BatchExact'
  <2> SUFFICES ASSUME NEW r \in Relays, pc[r] \in {"batch", "failed", "disposed"}
               PROVE  batch[r] = {id \in rows' : /\ id > last_offset[r]
                                                 /\ id <= checkpoint[r]}
    BY DEF BatchExact
  <2>1. \A id \in pending[p] : ~ id <= checkpoint[r]
    BY DEF PendingAhead, TypeOK
  <2>2. batch[r] = {id \in rows : id > last_offset[r] /\ id <= checkpoint[r]}
    BY DEF BatchExact
  <2> QED  BY <2>1, <2>2
<1>7. DisposedMeansDisposed'
  BY DEF DisposedMeansDisposed, Disposed
<1>8. OnlyRowsDisposed'
  BY DEF OnlyRowsDisposed, Disposed
<1>9. NoSkip'
  <2>1. \A id \in pending[p] : ~ id <= last_change_id
    BY DEF PendingAhead, TypeOK
  <2> QED  BY <2>1 DEF NoSkip, Disposed
<1> QED  BY <1>1, <1>2, <1>3, <1>4, <1>5, <1>6, <1>7, <1>8, <1>9

LEMMA RollbackIInv ==
  ASSUME NEW p \in Publishers, IInv, rollback_transaction(p)
  PROVE  IInv'
  BY DEF rollback_transaction, workerVars, sinkVars, IInv, TypeOK, PCs,
     FenceExcludes, FenceHeld, PendingAhead, MarksBehindSequence, OwnerInSync,
     BatchExact, DisposedMeansDisposed, OnlyRowsDisposed, NoSkip, Disposed

(***************************************************************************)
(* The steps of a relay's worker.                                          *)
(***************************************************************************)

LEMMA AcquireOwnershipIInv ==
  ASSUME NEW r \in Relays, IInv, try_acquire_ownership(r)
  PROVE  IInv'
  BY NoRelayAssumption
  DEF try_acquire_ownership, pubVars, sinkVars, IInv, TypeOK, PCs,
      FenceExcludes, FenceHeld, PendingAhead, MarksBehindSequence, OwnerInSync,
      BatchExact, DisposedMeansDisposed, OnlyRowsDisposed, NoSkip, Disposed

LEMMA LoadOffsetIInv ==
  ASSUME NEW r \in Relays, IInv, load_offset(r)
  PROVE  IInv'
  BY NoRelayAssumption
  DEF load_offset, pubVars, sinkVars, IInv, TypeOK, PCs,
      FenceExcludes, FenceHeld, PendingAhead, MarksBehindSequence, OwnerInSync,
      BatchExact, DisposedMeansDisposed, OnlyRowsDisposed, NoSkip, Disposed

LEMMA RequestFenceIInv ==
  ASSUME NEW r \in Relays, IInv, request_fence(r)
  PROVE  IInv'
  BY NoRelayAssumption
  DEF request_fence, pubVars, workerVars, sinkVars, IInv, TypeOK, PCs,
      FenceExcludes, FenceHeld, PendingAhead, MarksBehindSequence,
      OwnerInSync, BatchExact, DisposedMeansDisposed, OnlyRowsDisposed,
      NoSkip, Disposed

LEMMA AcquireFenceIInv ==
  ASSUME NEW r \in Relays, IInv, acquire_fence(r)
  PROVE  IInv'
  BY NoRelayAssumption
  DEF acquire_fence, PublishersIdle, pubVars, sinkVars, IInv, TypeOK, PCs,
      FenceExcludes, FenceHeld, PendingAhead, MarksBehindSequence, OwnerInSync,
      BatchExact, DisposedMeansDisposed, OnlyRowsDisposed, NoSkip, Disposed

\* Nothing is uncommitted while rows are copied, so the copy has no holes and
\* its last id is a mark that no uncommitted id lies below.
LEMMA SelectRowsIInv ==
  ASSUME NEW r \in Relays, IInv, select_rows(r)
  PROVE  IInv'
<1> USE NoRelayAssumption DEF select_rows, pubVars, sinkVars, IInv
<1>1. \A p \in Publishers : pending[p] = {}
  BY DEF FenceHeld, FenceExcludes, PendingAhead
<1>2. CASE Unread(r) = {} /\ pc' = [pc EXCEPT ![r] = "ready"]
           /\ UNCHANGED <<batch, checkpoint>>
  BY <1>1, <1>2
  DEF TypeOK, PCs, FenceExcludes, FenceHeld, PendingAhead,
      MarksBehindSequence, OwnerInSync, BatchExact, DisposedMeansDisposed,
      OnlyRowsDisposed, NoSkip, Disposed
<1>3. ASSUME NEW last \in Unread(r),
             batch' = [batch EXCEPT ![r] = {id \in Unread(r) : id <= last}],
             checkpoint' = [checkpoint EXCEPT ![r] = last],
             pc' = [pc EXCEPT ![r] = "batch"]
      PROVE  IInv'
  <2>1. last \in Nat /\ last \in rows /\ last <= seq
    BY DEF Unread, TypeOK, MarksBehindSequence
  <2>2. TypeOK'
    BY <1>3, <2>1 DEF TypeOK, PCs, Unread
  <2>3. FenceExcludes' /\ FenceHeld' /\ OwnerInSync'
    BY <1>3 DEF FenceExcludes, FenceHeld, OwnerInSync, TypeOK
  <2>4. PendingAhead'
    BY <1>1 DEF PendingAhead
  <2>5. MarksBehindSequence'
    BY <1>3, <2>1 DEF MarksBehindSequence, TypeOK
  <2>6. BatchExact'
    BY <1>3 DEF BatchExact, TypeOK, Unread
  <2>7. DisposedMeansDisposed' /\ OnlyRowsDisposed' /\ NoSkip'
    BY <1>3 DEF DisposedMeansDisposed, OnlyRowsDisposed, NoSkip, Disposed, TypeOK
  <2> QED  BY <2>2, <2>3, <2>4, <2>5, <2>6, <2>7
<1> QED  BY <1>2, <1>3

\* Whatever the sink or the dead-letter queue accepted of a batch that is out,
\* only rows are disposed of, and nothing but the phase and the dispositions
\* changes.
LEMMA DisposeIInv ==
  ASSUME NEW r \in Relays, IInv, pc[r] \in {"batch", "failed"},
         NEW sent \in SUBSET batch[r], delivered' = delivered \cup sent,
         NEW dead \in SUBSET batch[r], dlq' = dlq \cup dead,
         NEW at \in {"disposed", "failed"}, pc' = [pc EXCEPT ![r] = at],
         at = "disposed" => sent \cup dead = batch[r],
         UNCHANGED <<pubVars, last_change_id, fence, owner, last_offset, batch,
                     checkpoint>>
  PROVE  IInv'
<1>1. /\ UNCHANGED <<seq, txn, pending, rows>>
      /\ UNCHANGED <<last_change_id, fence, owner, last_offset, batch, checkpoint>>
  BY DEF pubVars
<1>2. batch[r] = {id \in rows : id > last_offset[r] /\ id <= checkpoint[r]}
  BY DEF IInv, BatchExact
<1>3. pc' \in [Relays -> PCs] /\ pc'[r] = at /\ \A x \in Relays : x # r => pc'[x] = pc[x]
  BY DEF IInv, TypeOK, PCs
<1>4. TypeOK'
  <2>1. delivered' \subseteq Nat /\ dlq' \subseteq Nat
    BY DEF IInv, TypeOK
  <2> QED  BY <1>1, <1>3, <2>1 DEF IInv, TypeOK
<1>5. FenceExcludes'
  BY <1>1 DEF IInv, FenceExcludes
<1>6. FenceHeld'
  BY <1>1, <1>3 DEF IInv, FenceHeld
<1>7. PendingAhead'
  BY <1>1, <1>3 DEF IInv, PendingAhead
<1>8. MarksBehindSequence'
  BY <1>1 DEF IInv, MarksBehindSequence
<1>9. OwnerInSync'
  BY <1>1, <1>3 DEF IInv, OwnerInSync
<1>10. BatchExact'
  BY <1>1, <1>2, <1>3 DEF IInv, BatchExact
<1>11. Disposed \subseteq Disposed' /\ Disposed' = Disposed \cup (sent \cup dead)
  BY DEF Disposed
<1>12. DisposedMeansDisposed'
  BY <1>1, <1>3, <1>11 DEF IInv, DisposedMeansDisposed
<1>13. OnlyRowsDisposed'
  BY <1>1, <1>2, <1>11 DEF IInv, OnlyRowsDisposed
<1>14. NoSkip'
  BY <1>1, <1>11 DEF IInv, NoSkip
<1> QED  BY <1>4, <1>5, <1>6, <1>7, <1>8, <1>9, <1>10, <1>12, <1>13, <1>14 DEF IInv

LEMMA PublishAcknowledgedIInv ==
  ASSUME NEW r \in Relays, IInv, publish_acknowledged(r)
  PROVE  IInv'
<1>1. /\ pc[r] = "batch" /\ pc' = [pc EXCEPT ![r] = "disposed"]
      /\ UNCHANGED <<pubVars, last_change_id, fence, owner, last_offset, batch, checkpoint>>
  BY DEF publish_acknowledged
<1>2. /\ {} \in SUBSET batch[r] /\ dlq' = dlq \cup {}
      /\ batch[r] \in SUBSET batch[r] /\ delivered' = delivered \cup batch[r]
      /\ batch[r] \cup {} = batch[r]
  BY DEF publish_acknowledged
<1> QED  BY <1>1, <1>2, DisposeIInv

LEMMA PublishFailsIInv ==
  ASSUME NEW r \in Relays, IInv, publish_fails(r)
  PROVE  IInv'
<1>1. PICK accepted \in SUBSET batch[r] : delivered' = delivered \cup accepted
  BY DEF publish_fails
<1>2. dlq' = dlq \cup {}
  BY DEF publish_fails
<1> QED  BY <1>1, <1>2, DisposeIInv DEF publish_fails

LEMMA BackOffIInv ==
  ASSUME NEW r \in Relays, IInv, back_off(r)
  PROVE  IInv'
  BY NoRelayAssumption
  DEF back_off, pubVars, workerVars, sinkVars, IInv, TypeOK, PCs,
      FenceExcludes, FenceHeld, PendingAhead, MarksBehindSequence,
      OwnerInSync, BatchExact, DisposedMeansDisposed, OnlyRowsDisposed,
      NoSkip, Disposed

LEMMA RouteToDlqIInv ==
  ASSUME NEW r \in Relays, IInv, route_to_dlq(r)
  PROVE  IInv'
<1>1. /\ pc[r] = "failed" /\ pc' = [pc EXCEPT ![r] = "disposed"]
      /\ UNCHANGED <<pubVars, last_change_id, fence, owner, last_offset, batch, checkpoint>>
  BY DEF route_to_dlq
<1>2. /\ {} \in SUBSET batch[r] /\ delivered' = delivered \cup {}
      /\ batch[r] \in SUBSET batch[r] /\ dlq' = dlq \cup batch[r]
      /\ {} \cup batch[r] = batch[r]
  BY DEF route_to_dlq
<1> QED  BY <1>1, <1>2, DisposeIInv

\* The rows up to the checkpoint are those up to the old offset, disposed by
\* NoSkip, and those of the batch, disposed by this worker.
LEMMA AcknowledgeIInv ==
  ASSUME NEW r \in Relays, IInv, acknowledge(r)
  PROVE  IInv'
  BY NoRelayAssumption
  DEF acknowledge, Greatest, pubVars, workerVars, sinkVars, IInv, TypeOK, PCs,
      FenceExcludes, FenceHeld, PendingAhead, MarksBehindSequence,
      OwnerInSync, BatchExact, DisposedMeansDisposed, OnlyRowsDisposed,
      NoSkip, Disposed

LEMMA SessionLostIInv ==
  ASSUME NEW r \in Relays, IInv, session_lost(r)
  PROVE  IInv'
  BY NoRelayAssumption
  DEF session_lost, pubVars, workerVars, sinkVars, IInv, TypeOK, PCs,
      FenceExcludes, FenceHeld, PendingAhead, MarksBehindSequence,
      OwnerInSync, BatchExact, DisposedMeansDisposed, OnlyRowsDisposed,
      NoSkip, Disposed

LEMMA WorkerExitsIInv ==
  ASSUME NEW r \in Relays, IInv, worker_exits(r)
  PROVE  IInv'
  BY NoRelayAssumption
  DEF worker_exits, pubVars, workerVars, sinkVars, IInv, TypeOK, PCs,
      FenceExcludes, FenceHeld, PendingAhead, MarksBehindSequence,
      OwnerInSync, BatchExact, DisposedMeansDisposed, OnlyRowsDisposed,
      NoSkip, Disposed

LEMMA OwnershipLostIInv ==
  ASSUME NEW r \in Relays, IInv, ownership_lost(r)
  PROVE  IInv'
  BY NoRelayAssumption
  DEF ownership_lost, pubVars, workerVars, sinkVars, IInv, TypeOK, PCs,
      FenceExcludes, FenceHeld, PendingAhead, MarksBehindSequence,
      OwnerInSync, BatchExact, DisposedMeansDisposed, OnlyRowsDisposed,
      NoSkip, Disposed

LEMMA RewindIInv ==
  ASSUME NEW target \in 0 .. MaxId, IInv, admin_rewind_relay_offset(target)
  PROVE  IInv'
  BY NoRelayAssumption, MaxIdAssumption
  DEF admin_rewind_relay_offset, pubVars, workerVars, sinkVars, IInv, TypeOK,
      PCs, FenceExcludes, FenceHeld, PendingAhead, MarksBehindSequence,
      OwnerInSync, BatchExact, DisposedMeansDisposed, OnlyRowsDisposed,
      NoSkip, Disposed

(***************************************************************************)
(* The invariant is inductive.                                             *)
(***************************************************************************)
LEMMA NextIInv == IInv /\ [Next]_vars => IInv'
<1> SUFFICES ASSUME IInv, [Next]_vars  PROVE IInv'
  OBVIOUS
<1>1. ASSUME NEW p \in Publishers, Publish(p)  PROVE IInv'
  BY <1>1, LockOutboxIInv, InsertMessageIInv, CommitIInv, RollbackIInv
  DEF Publish
<1>2. ASSUME NEW r \in Relays, Work(r)  PROVE IInv'
  BY <1>2, AcquireOwnershipIInv, LoadOffsetIInv, RequestFenceIInv,
     AcquireFenceIInv, SelectRowsIInv, PublishAcknowledgedIInv, PublishFailsIInv, BackOffIInv,
     RouteToDlqIInv, AcknowledgeIInv, SessionLostIInv, WorkerExitsIInv,
     OwnershipLostIInv
  DEF Work
<1>3. CASE Rewind
  BY <1>3, RewindIInv DEF Rewind
<1>4. CASE UNCHANGED vars
  BY <1>4 DEF vars, IInv, TypeOK, FenceExcludes, FenceHeld, PendingAhead,
     MarksBehindSequence, OwnerInSync, BatchExact, DisposedMeansDisposed,
     OnlyRowsDisposed, NoSkip, Disposed
<1> QED  BY <1>1, <1>2, <1>3, <1>4 DEF Next

\* The strengthened invariant holds of every reachable state.
THEOREM Inductive == Spec => []IInv
<1>1. Init => IInv
  BY InitIInv
<1>2. IInv /\ [Next]_vars => IInv'
  BY NextIInv
<1> QED  BY <1>1, <1>2, PTL DEF Spec

\* Type correctness.
THEOREM TypeCorrect == Spec => []TypeOK
<1>1. IInv => TypeOK
  BY DEF IInv
<1> QED  BY <1>1, Inductive, PTL

\* No committed message is ever skipped by the durable offset.
THEOREM NothingSkipped == Spec => []NoSkip
<1>1. IInv => NoSkip
  BY DEF IInv
<1> QED  BY <1>1, Inductive, PTL

(***************************************************************************)
(* Action properties and refinement.                                       *)
(***************************************************************************)

\* A step that adds rows is a commit, and the rows were pending before it.
LEMMA NewRowsWerePending ==
  ASSUME IInv, [Next]_vars, NEW id \in rows' \ rows
  PROVE  \E p \in Publishers : commit_transaction(p) /\ id \in pending[p]
<1>1. CASE \E p \in Publishers : Publish(p)
  BY <1>1 DEF Publish, lock_outbox, insert_message, commit_transaction,
     rollback_transaction
<1>2. ASSUME NEW r \in Relays, Work(r)  PROVE rows' = rows
  BY <1>2 DEF Work, try_acquire_ownership, load_offset, request_fence,
     acquire_fence, select_rows, publish_acknowledged, publish_fails, back_off, route_to_dlq,
     acknowledge, session_lost, worker_exits, ownership_lost, pubVars
<1>3. CASE Rewind
  BY <1>3 DEF Rewind, admin_rewind_relay_offset, pubVars
<1>4. CASE UNCHANGED vars
  BY <1>4 DEF vars
<1> QED  BY <1>1, <1>2, <1>3, <1>4 DEF Next

\* No transaction commits a row behind the durable offset or behind the mark
\* of the worker that owns the pipeline.
THEOREM NothingArrivesLate == Spec => NoLateRow
<1> DEFINE Late(id) ==
      ~ /\ id > last_change_id
        /\ \A r \in Relays : owner = r /\ pc[r] # "starting"
                                => id > last_offset[r]
<1>1. ASSUME IInv, [Next]_vars, NEW id \in rows' \ rows  PROVE ~ Late(id)
  <2>1. PICK p \in Publishers : commit_transaction(p) /\ id \in pending[p]
    BY <1>1, NewRowsWerePending
  <2> QED  BY <1>1, <2>1 DEF IInv, PendingAhead
<1>2. IInv /\ [Next]_vars =>
        [\A id \in rows' \ rows :
            /\ id > last_change_id
            /\ \A r \in Relays : owner = r /\ pc[r] # "starting"
                                    => id > last_offset[r]]_vars
  BY <1>1
<1> QED  BY <1>2, Inductive, PTL DEF Spec, NoLateRow

(***************************************************************************)
(* Overtaking.  The durable offset and the marks never pass a message that *)
(* has no disposition, so what lies between a mark and a message of the    *)
(* batch is in the batch, too, and a batch is bounded.                     *)
(***************************************************************************)

\* What a poll copies is finite, because ids are natural numbers.
LEMMA TakenIsFinite ==
  ASSUME NEW S \in SUBSET Nat, NEW last \in Nat
  PROVE  IsFiniteSet({id \in S : id <= last})
<1>1. IsFiniteSet(0 .. last)
  BY FS_Interval
<1>2. {id \in S : id <= last} \in SUBSET (0 .. last)
  <2> SUFFICES ASSUME NEW id \in S, id <= last  PROVE id \in 0 .. last
    OBVIOUS
  <2>1. id \in Nat
    OBVIOUS
  <2> QED  BY <2>1
<1> QED  BY <1>1, <1>2, FS_Subset

\* Only a publish or the dead-letter queue changes the dispositions, and what
\* they add is of the batch of a worker that is out with one.
LEMMA NewlyDisposed ==
  ASSUME IInv, [Next]_vars
  PROVE  /\ Disposed \subseteq Disposed'
         /\ \A id \in Disposed' \ Disposed :
               \E r \in Relays : pc[r] \in {"batch", "failed"} /\ id \in batch[r]
<1> DEFINE Grows ==
      /\ Disposed \subseteq Disposed'
      /\ \A id \in Disposed' \ Disposed :
            \E r \in Relays : pc[r] \in {"batch", "failed"} /\ id \in batch[r]
<1>1. ASSUME UNCHANGED sinkVars  PROVE Grows
  BY <1>1 DEF sinkVars, Disposed
<1>2. ASSUME NEW p \in Publishers, Publish(p)  PROVE Grows
  BY <1>1, <1>2 DEF Publish, lock_outbox, insert_message, commit_transaction,
     rollback_transaction
<1>3. ASSUME NEW r \in Relays, Work(r)  PROVE Grows
  <2>1. CASE publish_acknowledged(r) \/ publish_fails(r) \/ route_to_dlq(r)
    <3>1. pc[r] \in {"batch", "failed"} /\ Disposed \subseteq Disposed'
      BY <2>1 DEF publish_acknowledged, publish_fails, route_to_dlq, Disposed
    <3>2. Disposed' \subseteq Disposed \cup batch[r]
      BY <2>1 DEF publish_acknowledged, publish_fails, route_to_dlq, Disposed
    <3> QED  BY <3>1, <3>2
  <2>2. CASE UNCHANGED sinkVars
    BY <1>1, <2>2
  <2> QED  BY <1>3, <2>1, <2>2 DEF Work, try_acquire_ownership, load_offset, request_fence,
       acquire_fence, select_rows, back_off, acknowledge, session_lost, worker_exits,
       ownership_lost
<1>4. CASE Rewind
  BY <1>1, <1>4 DEF Rewind, admin_rewind_relay_offset
<1>5. CASE UNCHANGED vars
  BY <1>1, <1>5 DEF vars, sinkVars
<1> QED  BY <1>2, <1>3, <1>4, <1>5 DEF Next

LEMMA NextPassed == IInv /\ OInv /\ [Next]_vars => PassedMeansDisposed'
<1> SUFFICES ASSUME IInv, OInv, [Next]_vars,
                    NEW r \in Relays, NEW id \in rows', id <= last_offset'[r]
             PROVE  id \in Disposed'
  BY DEF PassedMeansDisposed
<1>1. Disposed \subseteq Disposed'
  BY NewlyDisposed
<1>2. last_offset \in [Relays -> Nat] /\ rows \subseteq Nat /\ checkpoint \in [Relays -> Nat]
  BY DEF IInv, TypeOK
<1>3. CASE id \notin rows
  <2>1. PICK p \in Publishers : commit_transaction(p) /\ id \in pending[p]
    BY <1>3, NewRowsWerePending
  <2>2. last_offset' = last_offset
    BY <2>1 DEF commit_transaction, workerVars
  <2>3. id > last_offset[r] /\ id \in Nat
    BY <2>1 DEF IInv, PendingAhead, TypeOK
  <2> QED  BY <1>2, <2>2, <2>3
<1>4. CASE id \in rows /\ last_offset'[r] = last_offset[r]
  BY <1>1, <1>4 DEF OInv, PassedMeansDisposed
<1>5. CASE id \in rows /\ load_offset(r)
  <2>1. last_offset'[r] = last_change_id
    BY <1>2, <1>5 DEF load_offset
  <2> QED  BY <1>1, <1>5, <2>1 DEF IInv, NoSkip
<1>6. CASE id \in rows /\ acknowledge(r)
  <2>1. last_offset'[r] \in {last_offset[r], checkpoint[r]} /\ pc[r] = "disposed"
    BY <1>2, <1>6 DEF acknowledge, Greatest
  <2>2. CASE id <= last_offset[r]
    BY <1>1, <1>6, <2>2 DEF OInv, PassedMeansDisposed
  <2>3. CASE ~(id <= last_offset[r])
    <3>1. id > last_offset[r] /\ id <= checkpoint[r]
      BY <1>2, <1>6, <2>1, <2>3
    <3>2. id \in batch[r]
      BY <1>6, <2>1, <3>1 DEF IInv, BatchExact
    <3> QED  BY <1>1, <2>1, <3>2 DEF IInv, DisposedMeansDisposed
  <2> QED  BY <2>2, <2>3
<1>7. last_offset'[r] = last_offset[r] \/ load_offset(r) \/ acknowledge(r)
  <2>1. CASE UNCHANGED last_offset
    BY <2>1
  <2>2. ASSUME NEW s \in Relays, load_offset(s) \/ acknowledge(s), s # r
        PROVE  last_offset'[r] = last_offset[r]
    BY <1>2, <2>2 DEF load_offset, acknowledge
  <2>3. ASSUME NEW s \in Relays, Work(s)
        PROVE  load_offset(s) \/ acknowledge(s) \/ UNCHANGED last_offset
    BY <2>3 DEF Work, try_acquire_ownership, request_fence, acquire_fence, select_rows,
       publish_acknowledged, publish_fails, back_off, route_to_dlq, session_lost,
       worker_exits, ownership_lost, workerVars
  <2>4. ASSUME NEW p \in Publishers, Publish(p)  PROVE UNCHANGED last_offset
    BY <2>4 DEF Publish, lock_outbox, insert_message, commit_transaction,
       rollback_transaction, workerVars
  <2>5. ASSUME Rewind \/ UNCHANGED vars  PROVE UNCHANGED last_offset
    BY <2>5 DEF Rewind, admin_rewind_relay_offset, workerVars, vars
  <2> QED  BY <2>1, <2>2, <2>3, <2>4, <2>5 DEF Next
<1> QED  BY <1>3, <1>4, <1>5, <1>6, <1>7

LEMMA NextBounded == IInv /\ OInv /\ [Next]_vars => BatchBounded'
<1> SUFFICES ASSUME IInv, OInv, [Next]_vars,
                    NEW r \in Relays, pc'[r] \in {"batch", "failed", "disposed"}
             PROVE  IsFiniteSet(batch'[r]) /\ Cardinality(batch'[r]) <= BatchSize
  BY DEF BatchBounded
<1>0. /\ pc \in [Relays -> PCs] /\ batch \in [Relays -> SUBSET Nat] /\ rows \subseteq Nat
  BY DEF IInv, TypeOK
<1>1. CASE batch'[r] = batch[r] /\ pc[r] \in {"batch", "failed", "disposed"}
  BY <1>1 DEF OInv, BatchBounded
<1>2. CASE select_rows(r)
  <2>1. PICK last \in Unread(r) :
          LET taken == {id \in Unread(r) : id <= last}
          IN  Cardinality(taken) <= BatchSize /\ batch' = [batch EXCEPT ![r] = taken]
    BY <1>0, <1>2 DEF select_rows
  <2>2. last \in Nat /\ Unread(r) \in SUBSET Nat
    BY <1>0, <2>1 DEF Unread
  <2>3. IsFiniteSet({id \in Unread(r) : id <= last})
    BY <2>2, TakenIsFinite
  <2> QED  BY <1>0, <2>1, <2>3
<1>3. ASSUME NEW s \in Relays, Work(s), ~ select_rows(r)
      PROVE  batch'[r] = batch[r] /\ pc[r] \in {"batch", "failed", "disposed"}
  <2>1. CASE s # r
    <3>1. pc'[r] = pc[r] /\ batch'[r] = batch[r]
      BY <1>0, <1>3, <2>1 DEF Work, try_acquire_ownership, load_offset, request_fence,
         acquire_fence, select_rows, publish_acknowledged, publish_fails, back_off,
         route_to_dlq, acknowledge, session_lost, worker_exits, ownership_lost, workerVars
    <3> QED  BY <3>1
  <2>2. CASE s = r
    BY <1>0, <1>3, <2>2 DEF Work, try_acquire_ownership, load_offset, request_fence,
       acquire_fence, publish_acknowledged, publish_fails, back_off,
       route_to_dlq, acknowledge, session_lost, worker_exits, ownership_lost, workerVars
  <2> QED  BY <2>1, <2>2
<1>4. ASSUME NEW p \in Publishers, Publish(p)  PROVE UNCHANGED <<pc, batch>>
  BY <1>4 DEF Publish, lock_outbox, insert_message, commit_transaction,
     rollback_transaction, workerVars
<1>5. ASSUME Rewind \/ UNCHANGED vars  PROVE UNCHANGED <<pc, batch>>
  BY <1>5 DEF Rewind, admin_rewind_relay_offset, workerVars, vars
<1> QED  BY <1>1, <1>2, <1>3, <1>4, <1>5 DEF Next

\* A message is disposed of ahead of fewer than BatchSize older messages: all
\* of them are in the batch that brings it.
LEMMA OvertakesBatch ==
  ASSUME IInv, OInv, [Next]_vars, NEW id \in Disposed' \ Disposed
  PROVE  Cardinality({j \in rows : j < id /\ j \notin Disposed'}) < BatchSize
<1> DEFINE Older == {j \in rows : j < id /\ j \notin Disposed'}
<1>1. PICK r \in Relays : pc[r] \in {"batch", "failed"} /\ id \in batch[r]
  BY NewlyDisposed
<1>2. /\ batch[r] = {j \in rows : j > last_offset[r] /\ j <= checkpoint[r]}
      /\ rows \subseteq Nat /\ last_offset[r] \in Nat /\ checkpoint[r] \in Nat
  BY <1>1 DEF IInv, BatchExact, TypeOK
<1>3. Older \in SUBSET (batch[r] \ {id})
  <2> SUFFICES ASSUME NEW j \in rows, j < id, j \notin Disposed'
               PROVE  j \in batch[r] /\ j # id
    OBVIOUS
  <2>1. j \in Nat /\ id \in Nat /\ id <= checkpoint[r]
    BY <1>1, <1>2
  <2>2. ~(j <= last_offset[r])
    BY NewlyDisposed DEF OInv, PassedMeansDisposed
  <2> QED  BY <1>2, <2>1, <2>2
<1>4. /\ IsFiniteSet(batch[r]) /\ Cardinality(batch[r]) <= BatchSize
      /\ Cardinality(batch[r]) \in Nat
  BY <1>1, FS_CardinalityType DEF OInv, BatchBounded
<1>5. /\ IsFiniteSet(batch[r] \ {id})
      /\ Cardinality(batch[r] \ {id}) = Cardinality(batch[r]) - 1
  BY <1>1, <1>4, FS_RemoveElement
<1> HIDE DEF Older
<1>6. Cardinality(Older) <= Cardinality(batch[r] \ {id}) /\ Cardinality(Older) \in Nat
  BY <1>3, <1>5, FS_Subset, FS_CardinalityType
<1>7. Cardinality(Older) < BatchSize
  BY <1>4, <1>5, <1>6, BatchSizeAssumption
<1> QED  BY <1>7 DEF Older

\* A message reaches its first disposition ahead of fewer than BatchSize older
\* messages that have none, also when a worker that lost its session publishes
\* beside its successor.
THEOREM OvertakingIsBounded == Spec => BoundedOvertaking
<1>1. Init => OInv
  BY DEF Init, OInv, PassedMeansDisposed, BatchBounded
<1>2. IInv /\ OInv /\ [Next]_vars => OInv'
  BY NextPassed, NextBounded DEF OInv
<1>3. IInv /\ OInv /\ [Next]_vars =>
        [\A id \in Disposed' \ Disposed :
            Cardinality({j \in rows : j < id /\ j \notin Disposed'}) < BatchSize]_vars
  BY OvertakesBatch
<1> QED  BY <1>1, <1>2, <1>3, Inductive, PTL DEF Spec, BoundedOvertaking

\* The initial states are initial states of the channel.
LEMMA InitRefines == Init => Channel!Init
  BY DEF Init, Channel!Init, Disposed

\* Publishing: only a commit shows, as Send.
LEMMA PublishRefines ==
  ASSUME NEW p \in Publishers, IInv, Publish(p)
  PROVE  [Channel!Next]_(Channel!vars)
<1>1. CASE commit_transaction(p)
  BY <1>1 DEF IInv, PendingAhead, commit_transaction, sinkVars, Disposed,
     Channel!Next, Channel!Send
<1>2. CASE lock_outbox(p) \/ insert_message(p) \/ rollback_transaction(p)
  BY <1>2 DEF lock_outbox, insert_message, rollback_transaction, sinkVars,
     Disposed, Channel!vars
<1> QED  BY <1>1, <1>2 DEF Publish

\* The worker: a publish or a dead letter shows as Dispose, because the batch
\* holds committed rows only; an acknowledgment shows as Advance.
LEMMA WorkRefines ==
  ASSUME NEW r \in Relays, IInv, Work(r)
  PROVE  [Channel!Next]_(Channel!vars)
<1>1. CASE publish_acknowledged(r) \/ publish_fails(r) \/ route_to_dlq(r)
  <2>1. batch[r] \subseteq rows
    BY <1>1 DEF publish_acknowledged, publish_fails, route_to_dlq, IInv, BatchExact
  <2>2. Disposed \subseteq rows
    BY DEF IInv, OnlyRowsDisposed
  <2> QED  BY <1>1, <2>1, <2>2 DEF publish_acknowledged, publish_fails,
        route_to_dlq, pubVars, Disposed, Channel!Next, Channel!Dispose
<1>2. CASE acknowledge(r)
  <2>1. NoSkip'
    BY <1>2, AcknowledgeIInv DEF IInv
  <2>2. rows' = rows /\ Disposed' = Disposed
    BY <1>2 DEF acknowledge, pubVars, sinkVars, Disposed
  <2>3. last_change_id' > last_change_id \/ last_change_id' = last_change_id
    BY <1>2 DEF acknowledge, Greatest, IInv, TypeOK
  <2> QED  BY <2>1, <2>2, <2>3
        DEF NoSkip, Channel!Next, Channel!Advance, Channel!vars
<1>3. CASE \/ try_acquire_ownership(r) \/ load_offset(r) \/ request_fence(r)
           \/ acquire_fence(r)
           \/ select_rows(r) \/ back_off(r) \/ session_lost(r) \/ worker_exits(r)
           \/ ownership_lost(r)
  BY <1>3 DEF try_acquire_ownership, load_offset, request_fence,
     acquire_fence, select_rows,
     back_off, session_lost, worker_exits, ownership_lost, pubVars, sinkVars, Disposed,
     Channel!vars
<1> QED  BY <1>1, <1>2, <1>3 DEF Work

LEMMA RewindRefines == Rewind => Channel!Next
  BY DEF Rewind, admin_rewind_relay_offset, pubVars, sinkVars, Disposed,
     Channel!Next, Channel!Rewind

\* The fence, the ownership lock and the two marks implement the at-least-once
\* channel that the ADRs promise.
THEOREM Refines == Spec => ImplementsChannel
<1>1. Init => Channel!Init
  BY InitRefines
<1>2. IInv /\ [Next]_vars => [Channel!Next]_(Channel!vars)
  <2> SUFFICES ASSUME IInv, [Next]_vars  PROVE [Channel!Next]_(Channel!vars)
    OBVIOUS
  <2>1. CASE UNCHANGED vars
    BY <2>1 DEF vars, Disposed, Channel!vars
  <2> QED  BY <2>1, PublishRefines, WorkRefines, RewindRefines DEF Next
<1> QED  BY <1>1, <1>2, Inductive, PTL DEF Spec, ImplementsChannel, Channel!Spec

=============================================================================
