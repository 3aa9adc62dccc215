-------------------------- MODULE RetentionProofs --------------------------
(***************************************************************************)
(* Proofs about Retention for all publishers, sweepers, participants and   *)
(* readers, and for every batch size.  The sweep reads the participants'   *)
(* offsets once and deletes later; the invariant says why what it still    *)
(* may take stays below everything the readers were ever past.             *)
(***************************************************************************)
EXTENDS Retention, TLAPS

LEMMA InitIInv == Init => IInv
  BY NumbersAssumption
  DEF Init, IInv, TypeOK, FenceExcludes, VictimsThere, OffsetsCleared, RewindsLock,
      SweepsCleared, FloorCoversRemoved, HoldsFence, MayTake, NoRow, Idle, Stages, Ids


LEMMA TypeStep == TypeOK /\ [Next]_vars => TypeOK'
<1> SUFFICES ASSUME TypeOK, [Next]_vars  PROVE TypeOK'
  OBVIOUS
<1> USE NumbersAssumption DEF TypeOK, Ids, NoRow, Stages, Idle, tableVars, catalogVars, floorVars
<1>1. ASSUME NEW p \in Publishers, outbox_publish(p)  PROVE TypeOK'
  BY <1>1 DEF outbox_publish
<1>2. ASSUME NEW p \in Publishers, end_transaction(p)  PROVE TypeOK'
  BY <1>2 DEF end_transaction
<1>3. ASSUME NEW id \in Ids, grow_old(id)  PROVE TypeOK'
  BY <1>3 DEF grow_old
<1>4. ASSUME NEW r \in Readers, NEW last \in Ids, acknowledge(r, last)  PROVE TypeOK'
  BY <1>4 DEF acknowledge, Greatest, Joins
<1>5. ASSUME NEW p \in Participants, configure(p)  PROVE TypeOK'
  BY <1>5 DEF configure
<1>6. ASSUME NEW p \in Pipelines, retire_pipeline(p)  PROVE TypeOK'
  BY <1>6 DEF retire_pipeline
<1>7. ASSUME NEW p \in ConsumerGroups, retire_group(p)  PROVE TypeOK'
  BY <1>7 DEF retire_group
<1>8. ASSUME NEW s \in Sweepers, lock_outbox_session(s)  PROVE TypeOK'
  BY <1>8 DEF lock_outbox_session
<1>9. ASSUME NEW s \in Sweepers, resolve_participants(s)  PROVE TypeOK'
  <2>1. SafeIds \subseteq Ids
    BY DEF SafeIds
  <2>2. sweep' = [sweep EXCEPT ![s].stage = "resolved", ![s].safe = SafeIds]
    BY <1>9 DEF resolve_participants
  <2> DEFINE record == [sweep[s] EXCEPT !.stage = "resolved", !.safe = SafeIds]
  <2> HIDE DEF SafeIds
  <2>3. record \in [stage : Stages, safe : SUBSET Ids, victims : SUBSET Ids]
    BY <2>1
  <2>4. sweep' = [sweep EXCEPT ![s] = record]
    BY <2>2
  <2> HIDE DEF record
  <2>5. sweep' \in [Sweepers -> [stage : Stages, safe : SUBSET Ids,
                               victims : SUBSET Ids]]
    BY <2>3, <2>4
  <2> QED  BY <1>9, <2>5 DEF resolve_participants
<1>10. ASSUME NEW s \in Sweepers, delete_candidates(s)  PROVE TypeOK'
  <2>1. PICK batch \in SUBSET aged :
           sweep' = [sweep EXCEPT ![s].stage = "deleted", ![s].victims = batch]
    BY <1>10 DEF delete_candidates, Eligible
  <2>2. batch \subseteq Ids
    OBVIOUS
  <2> DEFINE record == [sweep[s] EXCEPT !.stage = "deleted", !.victims = batch]
  <2>3. record \in [stage : Stages, safe : SUBSET Ids, victims : SUBSET Ids]
    BY <2>2
  <2>4. sweep' = [sweep EXCEPT ![s] = record]
    BY <2>1
  <2> HIDE DEF record
  <2>5. sweep' \in [Sweepers -> [stage : Stages, safe : SUBSET Ids,
                               victims : SUBSET Ids]]
    BY <2>3, <2>4
  <2> QED  BY <1>10, <2>5 DEF delete_candidates
<1>11. ASSUME NEW s \in Sweepers, record_and_unlock(s)  PROVE TypeOK'
  BY <1>11 DEF record_and_unlock
<1>12. ASSUME NEW s \in Sweepers, commit_sweep(s)  PROVE TypeOK'
  <2>1. sweep[s].victims \subseteq Ids
    OBVIOUS
  <2>2. highest_deleted' \in 0 .. MaxId
    BY <1>12, <2>1 DEF commit_sweep, RaiseFloor
  <2>3. sweep' \in [Sweepers -> [stage : Stages, safe : SUBSET Ids,
                               victims : SUBSET Ids]]
    BY <1>12 DEF commit_sweep
  <2>4. rows' \subseteq 1 .. seq' /\ aged' \subseteq rows' /\ removed' \subseteq Ids
    BY <1>12, <2>1 DEF commit_sweep
  <2> QED  BY <1>12, <2>2, <2>3, <2>4 DEF commit_sweep
<1>13. ASSUME NEW s \in Sweepers, rollback_sweep(s)  PROVE TypeOK'
  BY <1>13 DEF rollback_sweep
<1>14. ASSUME NEW s \in Sweepers, sweep_error(s)  PROVE TypeOK'
  BY <1>14 DEF sweep_error
<1>15. ASSUME NEW s \in Sweepers, session_ends(s)  PROVE TypeOK'
  BY <1>15 DEF session_ends
<1>16. ASSUME NEW r \in Readers, NEW target \in 0 .. MaxId, rewind(r, target)  PROVE TypeOK'
  BY <1>16 DEF rewind
<1>17. ASSUME NEW r \in Readers, end_rewind(r)  PROVE TypeOK'
  BY <1>17 DEF end_rewind
<1>18. CASE UNCHANGED vars
  BY <1>18 DEF vars
<1> QED  BY <1>1, <1>2, <1>3, <1>4, <1>5, <1>6, <1>7, <1>8, <1>9, <1>10, <1>11, <1>12, <1>13, <1>14, <1>15, <1>16, <1>17, <1>18 DEF Next,
      Sweep, Trouble, Rewind

LEMMA FenceStep == TypeOK /\ FenceExcludes /\ [Next]_vars => FenceExcludes'
<1> SUFFICES ASSUME TypeOK, FenceExcludes, [Next]_vars  PROVE FenceExcludes'
  OBVIOUS
<1> USE DEF TypeOK, FenceExcludes, HoldsFence, NobodyPublishes, Idle, Stages, tableVars, catalogVars, floorVars
<1>1. ASSUME NEW p \in Publishers, outbox_publish(p)  PROVE FenceExcludes'
  BY <1>1 DEF outbox_publish
<1>2. ASSUME NEW p \in Publishers, end_transaction(p)  PROVE FenceExcludes'
  BY <1>2 DEF end_transaction
<1>3. ASSUME NEW id \in Ids, grow_old(id)  PROVE FenceExcludes'
  BY <1>3 DEF grow_old
<1>4. ASSUME NEW r \in Readers, NEW last \in Ids, acknowledge(r, last)  PROVE FenceExcludes'
  BY <1>4 DEF acknowledge
<1>5. ASSUME NEW p \in Participants, configure(p)  PROVE FenceExcludes'
  BY <1>5 DEF configure
<1>6. ASSUME NEW p \in Pipelines, retire_pipeline(p)  PROVE FenceExcludes'
  BY <1>6 DEF retire_pipeline
<1>7. ASSUME NEW p \in ConsumerGroups, retire_group(p)  PROVE FenceExcludes'
  BY <1>7 DEF retire_group
<1>8. ASSUME NEW s \in Sweepers, lock_outbox_session(s)  PROVE FenceExcludes'
  BY <1>8 DEF lock_outbox_session
<1>9. ASSUME NEW s \in Sweepers, resolve_participants(s)  PROVE FenceExcludes'
  BY <1>9 DEF resolve_participants
<1>10. ASSUME NEW s \in Sweepers, delete_candidates(s)  PROVE FenceExcludes'
  BY <1>10 DEF delete_candidates
<1>11. ASSUME NEW s \in Sweepers, record_and_unlock(s)  PROVE FenceExcludes'
  BY <1>11 DEF record_and_unlock
<1>12. ASSUME NEW s \in Sweepers, commit_sweep(s)  PROVE FenceExcludes'
  BY <1>12 DEF commit_sweep
<1>13. ASSUME NEW s \in Sweepers, rollback_sweep(s)  PROVE FenceExcludes'
  BY <1>13 DEF rollback_sweep
<1>14. ASSUME NEW s \in Sweepers, sweep_error(s)  PROVE FenceExcludes'
  BY <1>14 DEF sweep_error
<1>15. ASSUME NEW s \in Sweepers, session_ends(s)  PROVE FenceExcludes'
  BY <1>15 DEF session_ends
<1>16. ASSUME NEW r \in Readers, NEW target \in 0 .. MaxId, rewind(r, target)  PROVE FenceExcludes'
  BY <1>16 DEF rewind
<1>17. ASSUME NEW r \in Readers, end_rewind(r)  PROVE FenceExcludes'
  BY <1>17 DEF end_rewind
<1>18. CASE UNCHANGED vars
  BY <1>18 DEF vars
<1> QED  BY <1>1, <1>2, <1>3, <1>4, <1>5, <1>6, <1>7, <1>8, <1>9, <1>10, <1>11, <1>12, <1>13, <1>14, <1>15, <1>16, <1>17, <1>18 DEF Next,
      Sweep, Trouble, Rewind

LEMMA VictimsStep == TypeOK /\ FenceExcludes /\ VictimsThere /\ [Next]_vars => VictimsThere'
<1> SUFFICES ASSUME TypeOK, FenceExcludes, VictimsThere, [Next]_vars  PROVE VictimsThere'
  OBVIOUS
<1> USE DEF TypeOK, VictimsThere, Idle, Stages, tableVars, catalogVars, floorVars
<1>1. ASSUME NEW p \in Publishers, outbox_publish(p)  PROVE VictimsThere'
  BY <1>1 DEF outbox_publish
<1>2. ASSUME NEW p \in Publishers, end_transaction(p)  PROVE VictimsThere'
  BY <1>2 DEF end_transaction
<1>3. ASSUME NEW id \in Ids, grow_old(id)  PROVE VictimsThere'
  BY <1>3 DEF grow_old
<1>4. ASSUME NEW r \in Readers, NEW last \in Ids, acknowledge(r, last)  PROVE VictimsThere'
  BY <1>4 DEF acknowledge
<1>5. ASSUME NEW p \in Participants, configure(p)  PROVE VictimsThere'
  BY <1>5 DEF configure
<1>6. ASSUME NEW p \in Pipelines, retire_pipeline(p)  PROVE VictimsThere'
  BY <1>6 DEF retire_pipeline
<1>7. ASSUME NEW p \in ConsumerGroups, retire_group(p)  PROVE VictimsThere'
  BY <1>7 DEF retire_group
<1>8. ASSUME NEW s \in Sweepers, lock_outbox_session(s)  PROVE VictimsThere'
  BY <1>8 DEF lock_outbox_session
<1>9. ASSUME NEW s \in Sweepers, resolve_participants(s)  PROVE VictimsThere'
  BY <1>9 DEF resolve_participants
<1>10. ASSUME NEW s \in Sweepers, delete_candidates(s)  PROVE VictimsThere'
  BY <1>10 DEF delete_candidates, Eligible
<1>11. ASSUME NEW s \in Sweepers, record_and_unlock(s)  PROVE VictimsThere'
  BY <1>11 DEF record_and_unlock
<1>12. ASSUME NEW s \in Sweepers, commit_sweep(s)  PROVE VictimsThere'
  BY <1>12 DEF commit_sweep
<1>13. ASSUME NEW s \in Sweepers, rollback_sweep(s)  PROVE VictimsThere'
  BY <1>13 DEF rollback_sweep
<1>14. ASSUME NEW s \in Sweepers, sweep_error(s)  PROVE VictimsThere'
  BY <1>14 DEF sweep_error
<1>15. ASSUME NEW s \in Sweepers, session_ends(s)  PROVE VictimsThere'
  BY <1>15 DEF session_ends
<1>16. ASSUME NEW r \in Readers, NEW target \in 0 .. MaxId, rewind(r, target)  PROVE VictimsThere'
  BY <1>16 DEF rewind
<1>17. ASSUME NEW r \in Readers, end_rewind(r)  PROVE VictimsThere'
  BY <1>17 DEF end_rewind
<1>18. CASE UNCHANGED vars
  BY <1>18 DEF vars
<1> QED  BY <1>1, <1>2, <1>3, <1>4, <1>5, <1>6, <1>7, <1>8, <1>9, <1>10, <1>11, <1>12, <1>13, <1>14, <1>15, <1>16, <1>17, <1>18 DEF Next,
      Sweep, Trouble, Rewind

LEMMA OffsetsStep == TypeOK /\ OffsetsCleared /\ [Next]_vars => OffsetsCleared'
<1> SUFFICES ASSUME TypeOK, OffsetsCleared, [Next]_vars  PROVE OffsetsCleared'
  OBVIOUS
<1> USE DEF TypeOK, OffsetsCleared, Ids, NoRow, tableVars, catalogVars, floorVars
<1>1. ASSUME NEW p \in Publishers, outbox_publish(p)  PROVE OffsetsCleared'
  BY <1>1 DEF outbox_publish
<1>2. ASSUME NEW p \in Publishers, end_transaction(p)  PROVE OffsetsCleared'
  BY <1>2 DEF end_transaction
<1>3. ASSUME NEW id \in Ids, grow_old(id)  PROVE OffsetsCleared'
  BY <1>3 DEF grow_old
<1>4. ASSUME NEW r \in Readers, NEW last \in Ids, acknowledge(r, last)  PROVE OffsetsCleared'
  BY <1>4 DEF acknowledge, Joins, Greatest
<1>5. ASSUME NEW p \in Participants, configure(p)  PROVE OffsetsCleared'
  BY <1>5 DEF configure, Joins
<1>6. ASSUME NEW p \in Pipelines, retire_pipeline(p)  PROVE OffsetsCleared'
  BY <1>6 DEF retire_pipeline
<1>7. ASSUME NEW p \in ConsumerGroups, retire_group(p)  PROVE OffsetsCleared'
  BY <1>7 DEF retire_group
<1>8. ASSUME NEW s \in Sweepers, lock_outbox_session(s)  PROVE OffsetsCleared'
  BY <1>8 DEF lock_outbox_session
<1>9. ASSUME NEW s \in Sweepers, resolve_participants(s)  PROVE OffsetsCleared'
  BY <1>9 DEF resolve_participants
<1>10. ASSUME NEW s \in Sweepers, delete_candidates(s)  PROVE OffsetsCleared'
  BY <1>10 DEF delete_candidates
<1>11. ASSUME NEW s \in Sweepers, record_and_unlock(s)  PROVE OffsetsCleared'
  BY <1>11 DEF record_and_unlock
<1>12. ASSUME NEW s \in Sweepers, commit_sweep(s)  PROVE OffsetsCleared'
  BY <1>12 DEF commit_sweep
<1>13. ASSUME NEW s \in Sweepers, rollback_sweep(s)  PROVE OffsetsCleared'
  BY <1>13 DEF rollback_sweep
<1>14. ASSUME NEW s \in Sweepers, sweep_error(s)  PROVE OffsetsCleared'
  BY <1>14 DEF sweep_error
<1>15. ASSUME NEW s \in Sweepers, session_ends(s)  PROVE OffsetsCleared'
  BY <1>15 DEF session_ends
<1>16. ASSUME NEW r \in Readers, NEW target \in 0 .. MaxId, rewind(r, target)  PROVE OffsetsCleared'
  BY <1>16 DEF rewind
<1>17. ASSUME NEW r \in Readers, end_rewind(r)  PROVE OffsetsCleared'
  BY <1>17 DEF end_rewind
<1>18. CASE UNCHANGED vars
  BY <1>18 DEF vars
<1> QED  BY <1>1, <1>2, <1>3, <1>4, <1>5, <1>6, <1>7, <1>8, <1>9, <1>10, <1>11, <1>12, <1>13, <1>14, <1>15, <1>16, <1>17, <1>18 DEF Next,
      Sweep, Trouble, Rewind

LEMMA RewindsStep == TypeOK /\ RewindsLock /\ [Next]_vars => RewindsLock'
<1> SUFFICES ASSUME TypeOK, RewindsLock, [Next]_vars  PROVE RewindsLock'
  OBVIOUS
<1> USE DEF TypeOK, RewindsLock, Ids, NoRow, tableVars, catalogVars, floorVars
<1>1. ASSUME NEW p \in Publishers, outbox_publish(p)  PROVE RewindsLock'
  BY <1>1 DEF outbox_publish
<1>2. ASSUME NEW p \in Publishers, end_transaction(p)  PROVE RewindsLock'
  BY <1>2 DEF end_transaction
<1>3. ASSUME NEW id \in Ids, grow_old(id)  PROVE RewindsLock'
  BY <1>3 DEF grow_old
<1>4. ASSUME NEW r \in Readers, NEW last \in Ids, acknowledge(r, last)  PROVE RewindsLock'
  BY <1>4 DEF acknowledge
<1>5. ASSUME NEW p \in Participants, configure(p)  PROVE RewindsLock'
  BY <1>5 DEF configure
<1>6. ASSUME NEW p \in Pipelines, retire_pipeline(p)  PROVE RewindsLock'
  BY <1>6 DEF retire_pipeline
<1>7. ASSUME NEW p \in ConsumerGroups, retire_group(p)  PROVE RewindsLock'
  BY <1>7 DEF retire_group
<1>8. ASSUME NEW s \in Sweepers, lock_outbox_session(s)  PROVE RewindsLock'
  BY <1>8 DEF lock_outbox_session
<1>9. ASSUME NEW s \in Sweepers, resolve_participants(s)  PROVE RewindsLock'
  BY <1>9 DEF resolve_participants
<1>10. ASSUME NEW s \in Sweepers, delete_candidates(s)  PROVE RewindsLock'
  BY <1>10 DEF delete_candidates
<1>11. ASSUME NEW s \in Sweepers, record_and_unlock(s)  PROVE RewindsLock'
  BY <1>11 DEF record_and_unlock
<1>12. ASSUME NEW s \in Sweepers, commit_sweep(s)  PROVE RewindsLock'
  BY <1>12 DEF commit_sweep
<1>13. ASSUME NEW s \in Sweepers, rollback_sweep(s)  PROVE RewindsLock'
  BY <1>13 DEF rollback_sweep
<1>14. ASSUME NEW s \in Sweepers, sweep_error(s)  PROVE RewindsLock'
  BY <1>14 DEF sweep_error
<1>15. ASSUME NEW s \in Sweepers, session_ends(s)  PROVE RewindsLock'
  BY <1>15 DEF session_ends
<1>16. ASSUME NEW r \in Readers, NEW target \in 0 .. MaxId, rewind(r, target)  PROVE RewindsLock'
  BY <1>16 DEF rewind
<1>17. ASSUME NEW r \in Readers, end_rewind(r)  PROVE RewindsLock'
  BY <1>17 DEF end_rewind
<1>18. CASE UNCHANGED vars
  BY <1>18 DEF vars
<1> QED  BY <1>1, <1>2, <1>3, <1>4, <1>5, <1>6, <1>7, <1>8, <1>9, <1>10, <1>11, <1>12, <1>13, <1>14, <1>15, <1>16, <1>17, <1>18 DEF Next,
      Sweep, Trouble, Rewind

LEMMA SweepsStep == IInv /\ [Next]_vars => SweepsCleared'
<1> SUFFICES ASSUME IInv, [Next]_vars  PROVE SweepsCleared'
  OBVIOUS
<1> USE DEF IInv, TypeOK, SweepsCleared, MayTake, Idle, Stages, Ids, NoRow, tableVars, catalogVars, floorVars
<1>1. ASSUME NEW p \in Publishers, outbox_publish(p)  PROVE SweepsCleared'
  BY <1>1 DEF outbox_publish, HoldsFence, FenceExcludes
<1>2. ASSUME NEW p \in Publishers, end_transaction(p)  PROVE SweepsCleared'
  BY <1>2 DEF end_transaction
<1>3. ASSUME NEW id \in Ids, grow_old(id)  PROVE SweepsCleared'
  BY <1>3 DEF grow_old
<1>4. ASSUME NEW r \in Readers, NEW last \in Ids, acknowledge(r, last)  PROVE SweepsCleared'
  BY <1>4 DEF acknowledge, Joins, Greatest
<1>5. ASSUME NEW p \in Participants, configure(p)  PROVE SweepsCleared'
  BY <1>5 DEF configure, Joins
<1>6. ASSUME NEW p \in Pipelines, retire_pipeline(p)  PROVE SweepsCleared'
  BY <1>6 DEF retire_pipeline
<1>7. ASSUME NEW p \in ConsumerGroups, retire_group(p)  PROVE SweepsCleared'
  BY <1>7 DEF retire_group
<1>8. ASSUME NEW s \in Sweepers, lock_outbox_session(s)  PROVE SweepsCleared'
  BY <1>8 DEF lock_outbox_session
<1>9. ASSUME NEW s \in Sweepers, resolve_participants(s)  PROVE SweepsCleared'
  <2>1. SUFFICES ASSUME NEW t \in Sweepers, NEW r \in Readers,
                      r[1] \in configured, offset[r] # NoRow,
                      NEW id \in MayTake(t)'
               PROVE  id <= cleared[r]
    BY <1>9 DEF resolve_participants
  <2>2. CASE t = s
    <3>1. id \in SafeIds /\ id \in Ids
      BY <1>9, <2>1, <2>2 DEF resolve_participants, SafeIds
    <3>2. offset[r] \in Offsets(r[1])
      BY <2>1 DEF Offsets
    <3>3. id <= offset[r]
      BY <2>1, <3>1, <3>2 DEF SafeIds
    <3>4. offset[r] <= cleared[r]
      BY DEF OffsetsCleared
    <3> QED  BY <3>1, <3>3, <3>4
  <2>3. CASE t # s
    <3>1. id \in MayTake(t)
      BY <1>9, <2>1, <2>3 DEF resolve_participants
    <3> QED  BY <2>1, <3>1
  <2> QED  BY <2>2, <2>3
<1>10. ASSUME NEW s \in Sweepers, delete_candidates(s)  PROVE SweepsCleared'
  BY <1>10 DEF delete_candidates, Eligible
<1>11. ASSUME NEW s \in Sweepers, record_and_unlock(s)  PROVE SweepsCleared'
  BY <1>11 DEF record_and_unlock
<1>12. ASSUME NEW s \in Sweepers, commit_sweep(s)  PROVE SweepsCleared'
  BY <1>12 DEF commit_sweep
<1>13. ASSUME NEW s \in Sweepers, rollback_sweep(s)  PROVE SweepsCleared'
  BY <1>13 DEF rollback_sweep
<1>14. ASSUME NEW s \in Sweepers, sweep_error(s)  PROVE SweepsCleared'
  BY <1>14 DEF sweep_error
<1>15. ASSUME NEW s \in Sweepers, session_ends(s)  PROVE SweepsCleared'
  BY <1>15 DEF session_ends
<1>16. ASSUME NEW r \in Readers, NEW target \in 0 .. MaxId, rewind(r, target)  PROVE SweepsCleared'
  BY <1>16 DEF rewind
<1>17. ASSUME NEW r \in Readers, end_rewind(r)  PROVE SweepsCleared'
  BY <1>17 DEF end_rewind, RewindsLock
<1>18. CASE UNCHANGED vars
  BY <1>18 DEF vars
<1> QED  BY <1>1, <1>2, <1>3, <1>4, <1>5, <1>6, <1>7, <1>8, <1>9, <1>10, <1>11, <1>12, <1>13, <1>14, <1>15, <1>16, <1>17, <1>18 DEF Next,
      Sweep, Trouble, Rewind

LEMMA FloorStep == TypeOK /\ FloorCoversRemoved /\ [Next]_vars => FloorCoversRemoved'
<1> SUFFICES ASSUME TypeOK, FloorCoversRemoved, [Next]_vars  PROVE FloorCoversRemoved'
  OBVIOUS
<1> USE DEF TypeOK, FloorCoversRemoved, Ids, tableVars, catalogVars, floorVars
<1>1. ASSUME NEW p \in Publishers, outbox_publish(p)  PROVE FloorCoversRemoved'
  BY <1>1 DEF outbox_publish
<1>2. ASSUME NEW p \in Publishers, end_transaction(p)  PROVE FloorCoversRemoved'
  BY <1>2 DEF end_transaction
<1>3. ASSUME NEW id \in Ids, grow_old(id)  PROVE FloorCoversRemoved'
  BY <1>3 DEF grow_old
<1>4. ASSUME NEW r \in Readers, NEW last \in Ids, acknowledge(r, last)  PROVE FloorCoversRemoved'
  BY <1>4 DEF acknowledge
<1>5. ASSUME NEW p \in Participants, configure(p)  PROVE FloorCoversRemoved'
  BY <1>5 DEF configure
<1>6. ASSUME NEW p \in Pipelines, retire_pipeline(p)  PROVE FloorCoversRemoved'
  BY <1>6 DEF retire_pipeline
<1>7. ASSUME NEW p \in ConsumerGroups, retire_group(p)  PROVE FloorCoversRemoved'
  BY <1>7 DEF retire_group
<1>8. ASSUME NEW s \in Sweepers, lock_outbox_session(s)  PROVE FloorCoversRemoved'
  BY <1>8 DEF lock_outbox_session
<1>9. ASSUME NEW s \in Sweepers, resolve_participants(s)  PROVE FloorCoversRemoved'
  BY <1>9 DEF resolve_participants
<1>10. ASSUME NEW s \in Sweepers, delete_candidates(s)  PROVE FloorCoversRemoved'
  BY <1>10 DEF delete_candidates
<1>11. ASSUME NEW s \in Sweepers, record_and_unlock(s)  PROVE FloorCoversRemoved'
  BY <1>11 DEF record_and_unlock
<1>12. ASSUME NEW s \in Sweepers, commit_sweep(s)  PROVE FloorCoversRemoved'
  BY <1>12 DEF commit_sweep, RaiseFloor
<1>13. ASSUME NEW s \in Sweepers, rollback_sweep(s)  PROVE FloorCoversRemoved'
  BY <1>13 DEF rollback_sweep
<1>14. ASSUME NEW s \in Sweepers, sweep_error(s)  PROVE FloorCoversRemoved'
  BY <1>14 DEF sweep_error
<1>15. ASSUME NEW s \in Sweepers, session_ends(s)  PROVE FloorCoversRemoved'
  BY <1>15 DEF session_ends
<1>16. ASSUME NEW r \in Readers, NEW target \in 0 .. MaxId, rewind(r, target)  PROVE FloorCoversRemoved'
  BY <1>16 DEF rewind
<1>17. ASSUME NEW r \in Readers, end_rewind(r)  PROVE FloorCoversRemoved'
  BY <1>17 DEF end_rewind
<1>18. CASE UNCHANGED vars
  BY <1>18 DEF vars
<1> QED  BY <1>1, <1>2, <1>3, <1>4, <1>5, <1>6, <1>7, <1>8, <1>9, <1>10, <1>11, <1>12, <1>13, <1>14, <1>15, <1>16, <1>17, <1>18 DEF Next,
      Sweep, Trouble, Rewind

(***************************************************************************)
(* Theorems.                                                               *)
(***************************************************************************)

\* The inductive invariant of the sweeps, rewinds and participants.
THEOREM Inductive == Spec => []IInv
<1>1. IInv /\ [Next]_vars => IInv'
  BY TypeStep, FenceStep, VictimsStep, OffsetsStep, RewindsStep, SweepsStep,
     FloorStep DEF IInv
<1> QED  BY InitIInv, <1>1, PTL DEF Spec

\* Only a committing sweep removes rows, and its victims were cleared.
LEMMA RemovalCleared ==
  ASSUME IInv, [Next]_vars, NEW id \in rows \ rows', NEW r \in Readers,
         r[1] \in configured, offset[r] # NoRow
  PROVE  id <= cleared[r]
<1> USE DEF tableVars
<1>1. \A s \in Sweepers : commit_sweep(s) => id <= cleared[r]
  BY DEF commit_sweep, IInv, SweepsCleared, MayTake
<1>2. rows \subseteq rows' \/ \E s \in Sweepers : commit_sweep(s)
  BY DEF Next, Sweep, Trouble, Rewind, vars, outbox_publish, end_transaction,
      grow_old, acknowledge, configure, retire_pipeline, retire_group,
      lock_outbox_session, resolve_participants, delete_candidates,
      record_and_unlock, rollback_sweep, sweep_error, session_ends, rewind,
      end_rewind
<1> QED  BY <1>1, <1>2

\* The sweep never removes a row that a reader still needs, however its reads
\* and its delete interleave with readers, rewinds and other sweeps.
THEOREM NothingNeededRemoved == Spec => RemovesOnlyCleared
<1>1. IInv /\ [Next]_vars =>
        [\A id \in rows \ rows', r \in Readers :
            r[1] \in configured /\ offset[r] # NoRow => id <= cleared[r]]_vars
  BY RemovalCleared
<1> QED  BY Inductive, <1>1, PTL DEF Spec, RemovesOnlyCleared

=============================================================================
