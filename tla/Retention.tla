----------------------------- MODULE Retention -----------------------------
(***************************************************************************)
(* How the rows of one outbox are removed again, and who is in the way.    *)
(*                                                                         *)
(*   the sweep         pg-tide-ext/src/outbox.rs  sweep_one                *)
(*   the rewinds       sql/pg_tide--0.42.0--0.43.0.sql                     *)
(*   participants      pg-tide-ext/src/relay.rs, outbox.rs                 *)
(*                                                                         *)
(* A participant is a relay pipeline or a consumer group.  It keeps one    *)
(* offset row per reader (per relay group, or per consumer), or none yet.  *)
(* Sweeps and rewinds are transactions of several steps: what they read    *)
(* may be out of date when they write, and what they wrote is seen by      *)
(* nobody else until they commit.                                          *)
(*                                                                         *)
(* The safe offset is kept as the set of the ids at or below it.           *)
(***************************************************************************)
EXTENDS Integers, FiniteSets

CONSTANTS
    Publishers,      \* sessions that publish
    Sweepers,        \* sessions that call outbox_sweep
    Pipelines,       \* relay pipelines that may read the outbox
    ConsumerGroups,  \* consumer groups that may read it
    Readers,         \* pairs <<participant, relay group or consumer>>
    SweepBatch,      \* p_batch_size of a sweep
    MaxId            \* bound: ids the identity sequence may hand out

Participants == Pipelines \cup ConsumerGroups

ASSUME ReadersAssumption == \A r \in Readers : r[1] \in Participants
ASSUME NumbersAssumption == SweepBatch \in Nat \ {0} /\ MaxId \in Nat

Ids == 1 .. MaxId

\* "no row in the table".
NoRow == -1

VARIABLES
    seq,              \* last value of the identity sequence
    inserted,         \* the uncommitted id of each publisher, or NoRow
    rows,             \* committed rows of the outbox
    aged,             \* those older than the retention interval
    configured,       \* participants in the catalog
    offset,           \* offset row of each reader, or NoRow
    rewinding,        \* target of the reader's uncommitted rewind, or NoRow
    highest_deleted,  \* outbox_cleanup_state.highest_deleted_id
    sweep,            \* the transaction of each sweeper
    leaked,           \* sweepers whose session kept the fence after an error
    cleared,          \* history: ids up to here may be removed under the reader
    removed           \* history: ids the sweep has removed

catalogVars == <<configured, offset, rewinding, cleared>>
tableVars   == <<seq, inserted, rows, aged>>
floorVars   == <<highest_deleted, removed>>
vars == <<seq, inserted, rows, aged, configured, offset, rewinding,
          highest_deleted, sweep, leaked, cleared, removed>>

Idle == [stage |-> "idle", safe |-> {}, victims |-> {}]

Init ==
    /\ seq = 0
    /\ inserted = [p \in Publishers |-> NoRow]
    /\ rows = {}
    /\ aged = {}
    /\ configured = {}
    /\ offset = [r \in Readers |-> NoRow]
    /\ rewinding = [r \in Readers |-> NoRow]
    /\ highest_deleted = 0
    /\ sweep = [s \in Sweepers |-> Idle]
    /\ leaked = {}
    /\ cleared = [r \in Readers |-> 0]
    /\ removed = {}

Greatest(a, b) == IF a >= b THEN a ELSE b

\* The sweepers whose session holds the fence.
HoldsFence(s) ==
    s \in leaked \/ sweep[s].stage \in {"locked", "resolved", "deleted"}

NobodyPublishes == \A p \in Publishers : inserted[p] = NoRow

-----------------------------------------------------------------------------
(* Publishing and reading; OutboxRelay has them in detail.                  *)

outbox_publish(p) ==
    /\ inserted[p] = NoRow
    /\ \A s \in Sweepers : ~ HoldsFence(s)
    /\ seq < MaxId
    /\ seq' = seq + 1
    /\ inserted' = [inserted EXCEPT ![p] = seq + 1]
    /\ UNCHANGED <<rows, aged, catalogVars, floorVars, sweep, leaked>>

end_transaction(p) ==
    /\ inserted[p] # NoRow
    /\ \/ rows' = rows \cup {inserted[p]}
       \/ UNCHANGED rows
    /\ inserted' = [inserted EXCEPT ![p] = NoRow]
    /\ UNCHANGED <<seq, aged, catalogVars, floorVars, sweep, leaked>>

\* created_at falls behind now() - retention_hours.
grow_old(id) ==
    /\ id \in rows \ aged
    /\ aged' = aged \cup {id}
    /\ UNCHANGED <<seq, inserted, rows, catalogVars, floorVars, sweep, leaked>>

\* The ids a sweep under way may still remove, whoever joins now.
MayTake(s) ==
    IF sweep[s].stage = "resolved"
    THEN {id \in 1 .. seq : id \in sweep[s].safe}
    ELSE sweep[s].victims

\* The greatest of them that exceeds "mark", or "mark".
Joins(mark, joined) ==
    /\ joined \in {mark} \cup UNION {MayTake(s) : s \in Sweepers}
    /\ \A id \in {mark} \cup UNION {MayTake(s) : s \in Sweepers} : id <= joined

\* What a fenced poll has returned, at any time before, is acknowledged.  A
\* lower offset changes nothing.  The worker of a deleted pipeline may not have
\* stopped yet; the offsets of a consumer group need the group.
acknowledge(r, last) ==
    /\ r[1] \in Pipelines \cup configured
    /\ rewinding[r] = NoRow
    /\ last > offset[r]
    /\ last <= seq
    /\ \A p \in Publishers : inserted[p] # NoRow => last < inserted[p]
    /\ offset' = [offset EXCEPT ![r] = last]
    /\ \E joined \in Ids :
          /\ IF offset[r] = NoRow
             THEN Joins(Greatest(cleared[r], last), joined)
             ELSE joined = Greatest(cleared[r], last)
          /\ cleared' = [cleared EXCEPT ![r] = joined]
    /\ UNCHANGED <<tableVars, configured, rewinding, floorVars, sweep, leaked>>

\* relay_set_outbox_v2() or create_consumer_group().  The offsets of a pipeline
\* that existed before are still there.
configure(p) ==
    /\ p \notin configured
    /\ configured' = configured \cup {p}
    /\ cleared' \in [Readers -> 0 .. MaxId]
    /\ \A r \in Readers :
          IF r[1] = p /\ offset[r] # NoRow
          THEN Joins(cleared[r], cleared'[r]) ELSE cleared'[r] = cleared[r]
    /\ UNCHANGED <<tableVars, offset, rewinding, floorVars, sweep, leaked>>

\* relay_delete().
retire_pipeline(p) ==
    /\ p \in configured
    /\ configured' = configured \ {p}
    /\ UNCHANGED <<tableVars, offset, rewinding, cleared, floorVars, sweep, leaked>>

\* drop_consumer_group() takes the offset rows with it and waits for the
\* rewinds that have locked one.
retire_group(p) ==
    /\ p \in configured
    /\ \A r \in Readers : r[1] = p => rewinding[r] = NoRow
    /\ configured' = configured \ {p}
    /\ offset' = [r \in Readers |-> IF r[1] = p THEN NoRow ELSE offset[r]]
    /\ cleared' = [r \in Readers |-> IF r[1] = p THEN 0 ELSE cleared[r]]
    /\ UNCHANGED <<tableVars, rewinding, floorVars, sweep, leaked>>

-----------------------------------------------------------------------------
(* sweep_one(): a session-level fence around several statements of the      *)
(* caller's transaction.                                                    *)

\* lock_outbox_session().  A session that holds the fence already gets it
\* again.
lock_outbox_session(s) ==
    /\ sweep[s].stage = "idle"
    /\ \A t \in Sweepers \ {s} : ~ HoldsFence(t)
    /\ NobodyPublishes
    /\ sweep' = [sweep EXCEPT ![s].stage = "locked"]
    /\ UNCHANGED <<tableVars, catalogVars, floorVars, leaked>>

Offsets(p) == {offset[r] : r \in {x \in Readers : x[1] = p /\ offset[x] # NoRow}}

\* Mutant: a participant is as far as the furthest of its readers.
FurthestReader ==
    {id \in Ids : \A p \in configured : \E o \in Offsets(p) : id <= o}

\* The ids at or below MIN, over the participants, of COALESCE(MIN(offset), 0);
\* all ids when there is no participant.
SafeIds ==
    {id \in Ids : \A p \in configured :
        Offsets(p) # {} /\ \A o \in Offsets(p) : id <= o}

resolve_participants(s) ==
    /\ sweep[s].stage = "locked"
    /\ sweep' = [sweep EXCEPT ![s].stage = "resolved", ![s].safe = SafeIds]
    /\ UNCHANGED <<tableVars, catalogVars, floorVars, leaked>>

\* Mutant: the row at the safe offset itself is kept.
StrictlyBelow(safe) == {id \in aged \cap safe : id + 1 \in safe}

Eligible(safe) == aged \cap safe

\* DELETE of the first SweepBatch eligible rows that nobody else has locked.
delete_candidates(s) ==
    /\ sweep[s].stage = "resolved"
    /\ LET unlocked == Eligible(sweep[s].safe) \ UNION {sweep[t].victims : t \in Sweepers}
           batch == {id \in unlocked :
                        Cardinality({j \in unlocked : j < id}) < SweepBatch}
       IN sweep' = [sweep EXCEPT ![s].stage = "deleted", ![s].victims = batch]
    /\ UNCHANGED <<tableVars, catalogVars, floorVars, leaked>>

\* The upsert of outbox_cleanup_state waits for another sweep's upsert; then
\* the fence is released, before the transaction ends.
record_and_unlock(s) ==
    /\ sweep[s].stage = "deleted"
    /\ \A t \in Sweepers : sweep[t].stage # "unlocked"
    /\ sweep' = [sweep EXCEPT ![s].stage = "unlocked"]
    /\ UNCHANGED <<tableVars, catalogVars, floorVars, leaked>>

\* Mutant: the upsert overwrites the floor.
OverwriteFloor(s) ==
    /\ highest_deleted' \in {0} \cup sweep[s].victims
    /\ \A id \in sweep[s].victims : id <= highest_deleted'

\* GREATEST(highest_deleted_id, MAX(id) of the deleted rows).
RaiseFloor(s) ==
    /\ highest_deleted' \in {highest_deleted} \cup sweep[s].victims
    /\ \A id \in {highest_deleted} \cup sweep[s].victims : id <= highest_deleted'

commit_sweep(s) ==
    /\ sweep[s].stage = "unlocked"
    /\ rows' = rows \ sweep[s].victims
    /\ aged' = aged \ sweep[s].victims
    /\ removed' = removed \cup sweep[s].victims
    /\ RaiseFloor(s)
    /\ sweep' = [sweep EXCEPT ![s] = Idle]
    /\ UNCHANGED <<seq, inserted, catalogVars, leaked>>

\* The caller rolls back after the sweep.
rollback_sweep(s) ==
    /\ sweep[s].stage = "unlocked"
    /\ sweep' = [sweep EXCEPT ![s] = Idle]
    /\ UNCHANGED <<tableVars, catalogVars, floorVars, leaked>>

\* A PostgreSQL error (statement timeout, cancellation) unwinds past the
\* unlock: the transaction is gone, the session-level fence is not.
sweep_error(s) ==
    /\ sweep[s].stage \in {"locked", "resolved", "deleted"}
    /\ sweep' = [sweep EXCEPT ![s] = Idle]
    /\ leaked' = leaked \cup {s}
    /\ UNCHANGED <<tableVars, catalogVars, floorVars>>

session_ends(s) ==
    /\ HoldsFence(s) \/ sweep[s].stage = "unlocked"
    /\ sweep' = [sweep EXCEPT ![s] = Idle]
    /\ leaked' = leaked \ {s}
    /\ UNCHANGED <<tableVars, catalogVars, floorVars>>

-----------------------------------------------------------------------------
(* admin_rewind_relay_offset() and admin_rewind_offset(): the checks and    *)
(* the update, then the commit.  The offset row is locked in between.       *)

rewind(r, target) ==
    /\ r[1] \in configured
    /\ offset[r] # NoRow
    /\ rewinding[r] = NoRow
    /\ target <= offset[r]
    /\ target >= highest_deleted
    /\ rewinding' = [rewinding EXCEPT ![r] = target]
    /\ UNCHANGED <<tableVars, configured, offset, cleared, floorVars, sweep, leaked>>

\* Committed, or rolled back by the operator.
end_rewind(r) ==
    /\ rewinding[r] # NoRow
    /\ \/ offset' = [offset EXCEPT ![r] = rewinding[r]]
       \/ UNCHANGED offset
    /\ rewinding' = [rewinding EXCEPT ![r] = NoRow]
    /\ UNCHANGED <<tableVars, configured, cleared, floorVars, sweep, leaked>>

-----------------------------------------------------------------------------
Sweep(s) ==
    \/ lock_outbox_session(s)
    \/ resolve_participants(s)
    \/ delete_candidates(s)
    \/ record_and_unlock(s)
    \/ commit_sweep(s)

Trouble ==
    \E s \in Sweepers : sweep_error(s) \/ session_ends(s) \/ rollback_sweep(s)

Rewind ==
    \E r \in Readers :
        (\E target \in 0 .. MaxId : rewind(r, target)) \/ end_rewind(r)

Next ==
    \/ \E p \in Publishers : outbox_publish(p) \/ end_transaction(p)
    \/ \E id \in Ids : grow_old(id)
    \/ \E r \in Readers, last \in Ids : acknowledge(r, last)
    \/ \E p \in Participants : configure(p)
    \/ \E p \in Pipelines : retire_pipeline(p)
    \/ \E p \in ConsumerGroups : retire_group(p)
    \/ \E s \in Sweepers : Sweep(s)
    \/ Trouble
    \/ Rewind

Spec == Init /\ [][Next]_vars

\* Publishing transactions end, and every sweeper sweeps again and again (a
\* cron job).  A session waits for the fence in a queue, so it gets it although
\* others get it in between.
FairSpec ==
    /\ Spec
    /\ \A p \in Publishers : WF_vars(end_transaction(p))
    /\ \A s \in Sweepers :
          /\ SF_vars(lock_outbox_session(s))
          /\ SF_vars(record_and_unlock(s))
          /\ WF_vars(resolve_participants(s) \/ delete_candidates(s) \/ commit_sweep(s))

-----------------------------------------------------------------------------
(* Properties.                                                              *)

\* A row is removed only when every configured reader with an offset row has
\* once been past it, or joined when the sweep had already resolved its
\* participants.  The sweep may read offsets and delete at different times,
\* release the fence before it commits, and race another sweep: the age and
\* safe-offset predicates of sweep_one_locked must still hold at the commit.
RemovesOnlyCleared ==
    [][\A id \in rows \ rows', r \in Readers :
          r[1] \in configured /\ offset[r] # NoRow => id <= cleared[r]]_vars

\* A rewind never ends below the highest deleted id ("refuses a target below
\* the highest deleted message ID", ADR-013).  The code compares the target
\* with a floor that a sweep under way is about to raise.
RewindsAboveFloor ==
    [][\A r \in Readers :
          offset'[r] < offset[r] /\ offset'[r] # NoRow
          => offset'[r] >= highest_deleted]_vars

\* A session that holds the fence gives it back ("for short database work
\* only", ADR-013).
FenceIsShort == \A s \in Sweepers : HoldsFence(s) ~> ~ HoldsFence(s)

\* From some time on no sweep fails, is rolled back or loses its session.  (A
\* sweep that deleted nothing ends in the same way as one that is rolled back.)
Calm == <>[][Trouble => \E s \in Sweepers : commit_sweep(s)]_vars

\* What the retention rules let go does go, down to the row at the safe offset
\* itself, whatever other sweeps have it locked meanwhile.
EligibleRowsGo ==
    Calm => \A id \in Ids : []<>(id \notin aged \cap SafeIds)

-----------------------------------------------------------------------------
(* The inductive invariant.                                                 *)

Stages == {"idle", "locked", "resolved", "deleted", "unlocked"}

TypeOK ==
    /\ seq \in 0 .. MaxId
    /\ inserted \in [Publishers -> 1 .. seq \cup {NoRow}]
    /\ rows \subseteq 1 .. seq
    /\ aged \subseteq rows
    /\ configured \subseteq Participants
    /\ offset \in [Readers -> 0 .. MaxId \cup {NoRow}]
    /\ rewinding \in [Readers -> 0 .. MaxId \cup {NoRow}]
    /\ highest_deleted \in 0 .. MaxId
    /\ sweep \in [Sweepers -> [stage : Stages, safe : SUBSET Ids,
                               victims : SUBSET Ids]]
    /\ leaked \subseteq Sweepers
    /\ cleared \in [Readers -> 0 .. MaxId]
    /\ removed \subseteq Ids

\* The fence excludes other sweepers and open publishing transactions.
FenceExcludes ==
    \A s \in Sweepers : HoldsFence(s) =>
        /\ NobodyPublishes
        /\ \A t \in Sweepers : HoldsFence(t) => s = t

\* Only a sweep that has deleted has victims, and they are not gone before.
VictimsThere ==
    \A s \in Sweepers :
        /\ sweep[s].victims \subseteq rows
        /\ sweep[s].stage \notin {"deleted", "unlocked"} => sweep[s].victims = {}
        /\ \A t \in Sweepers : s = t \/ sweep[s].victims \cap sweep[t].victims = {}

\* No reader is, or is about to be, past what may be removed under it.
OffsetsCleared ==
    \A r \in Readers : offset[r] <= cleared[r] /\ rewinding[r] <= cleared[r]

\* The reader of a rewind under way keeps its offset row.
RewindsLock == \A r \in Readers : rewinding[r] # NoRow => offset[r] # NoRow

\* A sweep under way takes only what may be removed under every reader.
SweepsCleared ==
    \A s \in Sweepers, r \in Readers :
        r[1] \in configured /\ offset[r] # NoRow
        => \A id \in MayTake(s) : id <= cleared[r]

\* The floor that rewinds are checked against covers everything removed.
FloorCoversRemoved == \A id \in removed : id <= highest_deleted

IInv ==
    /\ TypeOK
    /\ FenceExcludes
    /\ VictimsThere
    /\ OffsetsCleared
    /\ RewindsLock
    /\ SweepsCleared
    /\ FloorCoversRemoved

=============================================================================
