-------------------------- MODULE PartitionsProofs --------------------------
(***************************************************************************)
(* Proofs about Partitions for any number of outboxes, ranges of any width *)
(* and any number of ids: a converted and maintained table never has two   *)
(* rows of one id, and what relays see of new rows stays in order as long  *)
(* as the conversion found the newest row.  The invariant says where the   *)
(* ids in use come from, and that a range that is being created has no row *)
(* outside it.                                                             *)
(***************************************************************************)
EXTENDS Partitions, NumberLemmas

-----------------------------------------------------------------------------
(* Ranges and the extremes of the ids.                                      *)

LEMMA LowerIsInt ==
  ASSUME PartitionsAssumption, NEW id \in Int  PROVE Lower(id) \in Int
<1> DEFINE quotient == id \div Span
<1>1. quotient \in Int
  BY DEF PartitionsAssumption
<1> HIDE DEF quotient
<1>2. quotient * Span \in Int
  BY <1>1 DEF PartitionsAssumption
<1> QED  BY <1>2 DEF Lower, quotient

LEMMA RangesAreInts ==
  ASSUME PartitionsAssumption, NEW min \in Int, NEW max \in Int, NEW ahead \in Int
  PROVE  Ranges(min, max, ahead) \subseteq Int
<1>1. Lower(min) \in Int
  BY LowerIsInt
<1>2. ASSUME NEW i \in Int  PROVE Lower(min) + i * Span \in Int
  <2>1. i * Span \in Int
    BY DEF PartitionsAssumption
  <2> QED  BY <1>1, <2>1
<1>3. 0 .. (max - Lower(min)) \div Span + ahead \subseteq Int
  OBVIOUS
<1> QED  BY <1>2, <1>3 DEF Ranges

\* The highest id is that of a row, or 0, and no row is above it.
LEMMA HighestIsHighest ==
  ASSUME PartitionsAssumption, TypeOK, IdsDrawn
  PROVE  /\ HighestId \in 0 .. last_id
         /\ \A r \in rows : r.id <= HighestId
<1> DEFINE ids == {r.id : r \in rows} \cup {0}
<1>1. last_id \in Nat
  BY DEF TypeOK
<1>2. ids \in SUBSET (0 .. last_id) /\ ids # {}
  BY <1>1 DEF IdsDrawn
<1>3. \E x \in ids : \A y \in ids : y <= x
  <2> HIDE DEF ids
  <2> QED  BY <1>1, <1>2, GreatestExists
<1>4. \E x \in ids : \A y \in ids : x >= y
  <2> HIDE DEF ids
  <2>1. ids \subseteq Int
    BY <1>1, <1>2
  <2> QED  BY <1>3, <2>1
<1>5. Max(ids) \in ids /\ \A y \in ids : Max(ids) >= y
  <2> HIDE DEF ids
  <2> QED  BY <1>4 DEF Max
<1>6. HighestId = Max(ids)
  BY DEF HighestId
<1>7. \A r \in rows : r.id \in ids
  OBVIOUS
<1> HIDE DEF ids
<1>8. ASSUME NEW r \in rows  PROVE r.id <= Max(ids)
  <2>1. r.id \in ids
    BY <1>7
  <2>2. ids \subseteq Int
    BY <1>1, <1>2
  <2>3. Max(ids) >= r.id /\ Max(ids) \in Int /\ r.id \in Int
    BY <1>5, <2>1, <2>2
  <2> HIDE DEF Max
  <2> QED  BY <2>3
<1> QED  BY <1>2, <1>5, <1>6, <1>8

LEMMA MinIsNat ==
  ASSUME PartitionsAssumption, TypeOK, IdsDrawn  PROVE MinId \in Nat
<1> DEFINE ids == {r.id : r \in rows} \cup (IF rows = {} THEN {0} ELSE {})
<1>1. ids \in SUBSET Nat /\ ids # {}
  <2>1. ASSUME NEW r \in rows  PROVE r.id \in Nat
    BY DEF TypeOK, IdsDrawn
  <2> QED  BY <2>1
<1>2. \E x \in ids : \A y \in ids : x =< y
  <2> HIDE DEF ids
  <2> QED  BY <1>1, SmallestExists
<1>3. Min(ids) \in ids
  <2> HIDE DEF ids
  <2> QED  BY <1>2 DEF Min
<1>4. MinId = Min(ids)
  BY DEF MinId
<1> HIDE DEF ids
<1> QED  BY <1>1, <1>3, <1>4

-----------------------------------------------------------------------------
(* The parts of the invariant.                                              *)

LEMMA IdleIsStage == Idle \in Stages
  BY DEF Idle, Stages

LEMMA Initially == PartitionsAssumption /\ Init => PartitionsInv /\ IdsUnique
<1> SUFFICES ASSUME PartitionsAssumption, Init  PROVE PartitionsInv /\ IdsUnique
  OBVIOUS
<1>1. TypeOK
  <2>1. maintenance \in Stages
    BY IdleIsStage DEF Init
  <2>2. 0 \in 0 .. MaxId
    BY DEF PartitionsAssumption
  <2>3. /\ writing \in [Outboxes -> 0 .. MaxId] /\ offset \in [Outboxes -> 0 .. MaxId]
        /\ last_id \in 0 .. MaxId
    BY <2>2 DEF Init
  <2>4. layout \in {"heap", "id_range"} /\ children \subseteq Int /\ rewound \in BOOLEAN
    BY DEF Init
  <2> QED  BY <2>1, <2>3, <2>4 DEF TypeOK
<1>2. IdsDrawn /\ IdentityAhead
  BY DEF Init, IdsDrawn, IdentityAhead
<1>3. DefaultIsClear
  BY DEF Init, DefaultIsClear, Idle, InDefault
<1>4. IdsUnique
  BY DEF Init, IdsUnique
<1> QED  BY <1>1, <1>2, <1>3, <1>4 DEF PartitionsInv

LEMMA TypeStep ==
  ASSUME PartitionsAssumption, TypeOK, IdsDrawn, [Next]_vars  PROVE TypeOK'
<1> USE DEF TypeOK, PartitionsAssumption, tableVars
<1>1. ASSUME NEW o \in Outboxes, outbox_publish(o)  PROVE TypeOK'
  <2>1. last_id + 1 \in 0 .. MaxId
    BY <1>1 DEF outbox_publish
  <2> QED  BY <1>1, <2>1 DEF outbox_publish
<1>2. ASSUME NEW o \in Outboxes, end_transaction(o)  PROVE TypeOK'
  BY <1>2 DEF end_transaction
<1>3. ASSUME NEW o \in Outboxes, relay_batch(o)  PROVE TypeOK'
  <2>1. \A r \in rows : r.id \in 0 .. MaxId
    BY DEF IdsDrawn
  <2>2. PICK r \in rows : offset' = [offset EXCEPT ![o] = r.id]
    BY <1>3 DEF relay_batch
  <2> QED  BY <1>3, <2>1, <2>2 DEF relay_batch
<1>4. ASSUME NEW o \in Outboxes, outbox_sweep(o)  PROVE TypeOK'
  BY <1>4 DEF outbox_sweep
<1>5. CASE admin_convert_outbox_storage
  <2>1. HighestId \in Nat /\ HighestId \in 0 .. MaxId
    <3>1. HighestId \in 0 .. last_id
      BY HighestIsHighest
    <3> QED  BY <3>1
  <2>2. MinId \in Nat
    BY MinIsNat
  <2>3. Ranges(MinId, HighestId, Ahead + 1) \subseteq Int
    <3>1. Ahead + 1 \in Int
      OBVIOUS
    <3> HIDE DEF TypeOK, PartitionsAssumption
    <3> QED  BY <2>1, <2>2, <3>1, RangesAreInts
  <2>4. (HighestId < last_id) \in BOOLEAN
    OBVIOUS
  <2> QED  BY <1>5, <2>1, <2>3, <2>4 DEF admin_convert_outbox_storage, NewIdentity
<1>6. CASE begin_maintenance
  <2>1. HighestId \in Nat /\ MinId \in Nat
    <3>1. HighestId \in 0 .. last_id
      BY HighestIsHighest
    <3> QED  BY <3>1, MinIsNat
  <2>2. [Idle EXCEPT !.stage = "read", !.min = MinId, !.max = HighestId] \in Stages
    <3>1. ASSUME NEW min \in Nat, NEW max \in Nat
          PROVE  [Idle EXCEPT !.stage = "read", !.min = min, !.max = max] \in Stages
      BY IdleIsStage DEF Stages
    <3> QED  BY <2>1, <3>1
  <2> QED  BY <1>6, <2>2 DEF begin_maintenance
<1>7. CASE create_ranges
  <2>1. Missing \subseteq Int
    <3>1. maintenance.min \in Int /\ maintenance.max \in Int /\ Ahead \in Int
      BY DEF Stages
    <3> HIDE DEF TypeOK, PartitionsAssumption
    <3> QED  BY <3>1, RangesAreInts DEF Missing
  <2>2. [maintenance EXCEPT !.stage = "created", !.created = Missing] \in Stages
    BY <2>1 DEF Stages
  <2> QED  BY <1>7, <2>2, IdleIsStage DEF create_ranges
<1>8. ASSUME NEW child \in children, count_rows(child)  PROVE TypeOK'
  <2>1. [maintenance EXCEPT !.stage = "counted", !.child = child] \in Stages
    BY DEF Stages
  <2> QED  BY <1>8, <2>1 DEF count_rows
<1>9. CASE drop_child
  <2>1. maintenance.created \subseteq Int
    BY DEF Stages
  <2>2. children' \subseteq Int
    BY <1>9, <2>1 DEF drop_child
  <2> QED  BY <1>9, <2>2, IdleIsStage DEF drop_child
<1>10. CASE end_maintenance
  <2>1. maintenance.created \subseteq Int
    BY DEF Stages
  <2>2. children' \subseteq Int
    BY <1>10, <2>1 DEF end_maintenance
  <2> QED  BY <1>10, <2>2, IdleIsStage DEF end_maintenance
<1>11. CASE UNCHANGED vars
  BY <1>11 DEF vars
<1> QED
  BY <1>1, <1>2, <1>3, <1>4, <1>5, <1>6, <1>7, <1>8, <1>9, <1>10, <1>11 DEF Next

\* A transaction's row has the id that only this publisher holds.
LEMMA DrawnStep ==
  ASSUME PartitionsAssumption, TypeOK, IdsDrawn, IdsUnique, [Next]_vars
  PROVE  IdsDrawn' /\ IdsUnique'
<1>0. last_id \in Nat /\ writing \in [Outboxes -> Nat]
  BY DEF TypeOK
<1> USE DEF IdsDrawn, IdsUnique, tableVars
<1>1. ASSUME NEW o \in Outboxes, outbox_publish(o)  PROVE IdsDrawn' /\ IdsUnique'
  <2>1. /\ rows' = rows /\ last_id' = last_id + 1
        /\ writing' = [writing EXCEPT ![o] = last_id + 1]
    BY <1>1 DEF outbox_publish
  <2>2. \A r \in rows : r.id \in 1 .. last_id + 1 /\ r.id # last_id + 1
    BY <1>0
  <2>3. \A p \in Outboxes : writing[p] # last_id + 1 /\ writing[p] <= last_id + 1
    BY <1>0
  <2> QED  BY <1>0, <2>1, <2>2, <2>3
<1>2. ASSUME NEW o \in Outboxes, end_transaction(o)  PROVE IdsDrawn' /\ IdsUnique'
  <2>1. /\ last_id' = last_id /\ writing[o] # 0
        /\ writing' = [writing EXCEPT ![o] = 0]
        /\ rows' = rows \/ rows' = rows \cup {[id |-> writing[o], outbox |-> o]}
    BY <1>2 DEF end_transaction
  <2>2. writing[o] \in 1 .. last_id
    BY <1>0, <2>1
  <2>3. \A p \in Outboxes : p # o => writing[p] # writing[o]
    BY <2>1
  <2> QED  BY <1>0, <2>1, <2>2, <2>3
<1>3. ASSUME NEW o \in Outboxes, relay_batch(o)  PROVE IdsDrawn' /\ IdsUnique'
  BY <1>3 DEF relay_batch
<1>4. ASSUME NEW o \in Outboxes, outbox_sweep(o)  PROVE IdsDrawn' /\ IdsUnique'
  <2>1. rows' \subseteq rows /\ last_id' = last_id /\ writing' = writing
    BY <1>4 DEF outbox_sweep
  <2> QED  BY <2>1
<1>5. CASE admin_convert_outbox_storage
  <2>1. /\ rows' = rows /\ writing' = writing /\ last_id' = HighestId
        /\ \A o \in Outboxes : writing[o] = 0
    BY <1>5 DEF admin_convert_outbox_storage, NewIdentity, NobodyWrites
  <2>2. HighestId \in 0 .. last_id /\ \A r \in rows : r.id <= HighestId
    BY HighestIsHighest
  <2>3. \A r \in rows : r.id \in 1 .. HighestId
    BY <1>0, <2>2
  <2> QED  BY <1>0, <2>1, <2>2, <2>3
<1>6. CASE begin_maintenance
  BY <1>6 DEF begin_maintenance
<1>7. CASE create_ranges
  BY <1>7 DEF create_ranges
<1>8. ASSUME NEW child \in children, count_rows(child)  PROVE IdsDrawn' /\ IdsUnique'
  BY <1>8 DEF count_rows
<1>9. CASE drop_child
  <2>1. rows' \subseteq rows /\ last_id' = last_id /\ writing' = writing
    BY <1>9 DEF drop_child
  <2> QED  BY <2>1
<1>10. CASE end_maintenance
  BY <1>10 DEF end_maintenance
<1>11. CASE UNCHANGED vars
  BY <1>11 DEF vars
<1> QED
  BY <1>1, <1>2, <1>3, <1>4, <1>5, <1>6, <1>7, <1>8, <1>9, <1>10, <1>11 DEF Next

\* Relays read under the fence, so that no offset passes a row that is written.
LEMMA AheadStep ==
  ASSUME PartitionsAssumption, TypeOK, IdsDrawn, IdentityAhead, DefaultIsClear, [Next]_vars
  PROVE  IdentityAhead'
<1>0. /\ last_id \in Nat
      /\ writing \in [Outboxes -> Nat] /\ offset \in [Outboxes -> Nat]
  BY DEF TypeOK
<1> USE DEF IdentityAhead, tableVars
<1>1. ASSUME NEW o \in Outboxes, outbox_publish(o)  PROVE IdentityAhead'
  <2>1. /\ offset' = offset /\ rewound' = rewound /\ last_id' = last_id + 1
        /\ writing' = [writing EXCEPT ![o] = last_id + 1]
    BY <1>1 DEF outbox_publish
  <2>2. ASSUME ~rewound, NEW p \in Outboxes  PROVE offset[p] <= last_id + 1 /\ offset[p] < last_id + 1
    BY <1>0, <2>2
  <2> QED  BY <1>0, <2>1, <2>2
<1>2. ASSUME NEW o \in Outboxes, end_transaction(o)  PROVE IdentityAhead'
  BY <1>0, <1>2 DEF end_transaction
<1>3. ASSUME NEW o \in Outboxes, relay_batch(o)  PROVE IdentityAhead'
  <2>1. PICK r \in rows : offset' = [offset EXCEPT ![o] = r.id]
    BY <1>3 DEF relay_batch
  <2>2. /\ writing[o] = 0 /\ writing' = writing /\ last_id' = last_id /\ rewound' = rewound
    BY <1>3 DEF relay_batch
  <2>3. r.id <= last_id
    BY <1>0 DEF IdsDrawn
  <2> QED  BY <1>0, <2>1, <2>2, <2>3
<1>4. ASSUME NEW o \in Outboxes, outbox_sweep(o)  PROVE IdentityAhead'
  BY <1>4 DEF outbox_sweep
<1>5. CASE admin_convert_outbox_storage
  <2>1. /\ ~rewound /\ last_id' = HighestId /\ rewound' = (HighestId < last_id)
        /\ writing' = writing /\ offset' = offset /\ \A o \in Outboxes : writing[o] = 0
    BY <1>5 DEF admin_convert_outbox_storage, NewIdentity, NobodyWrites, DefaultIsClear
  <2>2. HighestId \in 0 .. last_id
    BY HighestIsHighest
  <2>3. ~(HighestId < last_id) => HighestId = last_id
    BY <1>0, <2>2
  <2> QED  BY <2>1, <2>3
<1>6. CASE begin_maintenance
  BY <1>6 DEF begin_maintenance
<1>7. CASE create_ranges
  BY <1>7 DEF create_ranges
<1>8. ASSUME NEW child \in children, count_rows(child)  PROVE IdentityAhead'
  BY <1>8 DEF count_rows
<1>9. CASE drop_child
  BY <1>9 DEF drop_child
<1>10. CASE end_maintenance
  BY <1>10 DEF end_maintenance
<1>11. CASE UNCHANGED vars
  BY <1>11 DEF vars
<1> QED
  BY <1>1, <1>2, <1>3, <1>4, <1>5, <1>6, <1>7, <1>8, <1>9, <1>10, <1>11 DEF Next

\* Once a range is created, nothing comes into the default partition until the
\* maintenance has ended.
LEMMA ClearStep ==
  ASSUME PartitionsAssumption, TypeOK, IdsDrawn, DefaultIsClear, [Next]_vars
  PROVE  DefaultIsClear'
<1>0. writing \in [Outboxes -> Nat] /\ last_id \in Nat
  BY DEF TypeOK
<1> USE DEF DefaultIsClear, InDefault, tableVars
<1>1. ASSUME NEW o \in Outboxes, outbox_publish(o)  PROVE DefaultIsClear'
  <2>1. /\ UNCHANGED <<layout, children, rows, maintenance, rewound>>
        /\ writing' = [writing EXCEPT ![o] = last_id + 1]
        /\ maintenance.created # {} => Lower(last_id + 1) \in children
    BY <1>1 DEF outbox_publish, DefaultLocked
  <2> QED  BY <1>0, <2>1 DEF Lower
<1>2. ASSUME NEW o \in Outboxes, end_transaction(o)  PROVE DefaultIsClear'
  <2>1. /\ UNCHANGED <<layout, children, maintenance, rewound>> /\ writing[o] # 0
        /\ writing' = [writing EXCEPT ![o] = 0]
        /\ rows' = rows \/ rows' = rows \cup {[id |-> writing[o], outbox |-> o]}
    BY <1>2 DEF end_transaction
  <2>2. maintenance.created # {} => Lower(writing[o]) \in children
    BY <2>1
  <2> QED  BY <1>0, <2>1, <2>2 DEF Lower
<1>3. ASSUME NEW o \in Outboxes, relay_batch(o)  PROVE DefaultIsClear'
  BY <1>3 DEF relay_batch, Lower
<1>4. ASSUME NEW o \in Outboxes, outbox_sweep(o)  PROVE DefaultIsClear'
  BY <1>4 DEF outbox_sweep, Lower
<1>5. CASE admin_convert_outbox_storage
  BY <1>5 DEF admin_convert_outbox_storage
<1>6. CASE begin_maintenance
  <2>1. /\ layout = "id_range" /\ UNCHANGED <<layout, children, rows, writing, rewound>>
        /\ maintenance'.created = {} /\ maintenance'.stage = "read"
    BY <1>6 DEF begin_maintenance, Idle
  <2> QED  BY <2>1 DEF Lower
<1>7. CASE create_ranges
  <2>1. layout = "id_range" /\ UNCHANGED <<layout, children, rows, writing, rewound>>
    BY <1>7 DEF create_ranges, Idle, TypeOK, Stages
  <2>2. CASE maintenance' = Idle
    BY <2>1, <2>2 DEF Idle, Lower
  <2>3. CASE maintenance' # Idle
    <3>1. /\ maintenance' = [maintenance EXCEPT !.stage = "created", !.created = Missing]
          /\ ~ \E r \in InDefault : Lower(r.id) \in Missing
          /\ Missing # {} => \A o \in Outboxes : writing[o] = 0 \/ Lower(writing[o]) \in children
      BY <1>7, <2>3 DEF create_ranges
    <3>2. maintenance'.stage = "created" /\ maintenance'.created = Missing
      BY <3>1 DEF TypeOK, Stages
    <3> HIDE DEF Missing
    <3> QED  BY <2>1, <3>1, <3>2 DEF Lower
  <2> QED  BY <2>2, <2>3
<1>8. ASSUME NEW child \in children, count_rows(child)  PROVE DefaultIsClear'
  <2>1. /\ layout = "id_range" /\ UNCHANGED <<layout, children, rows, writing, rewound>>
        /\ maintenance'.created = maintenance.created /\ maintenance'.stage = "counted"
    BY <1>8 DEF count_rows, TypeOK, Idle, Stages
  <2> QED  BY <2>1 DEF Lower
<1>9. CASE drop_child
  <2>1. layout' = "id_range" /\ maintenance' = Idle
    BY <1>9 DEF drop_child, TypeOK, Stages, Idle
  <2> QED  BY <2>1 DEF Idle
<1>10. CASE end_maintenance
  <2>1. layout' = "id_range" /\ maintenance' = Idle
    BY <1>10 DEF end_maintenance, TypeOK, Stages, Idle
  <2> QED  BY <2>1 DEF Idle
<1>11. CASE UNCHANGED vars
  BY <1>11 DEF vars, Lower
<1> QED
  BY <1>1, <1>2, <1>3, <1>4, <1>5, <1>6, <1>7, <1>8, <1>9, <1>10, <1>11 DEF Next

-----------------------------------------------------------------------------
(* The theorems.                                                            *)

\* Publishers, relays, sweeps, the conversion and the maintenance all keep the
\* invariant, and with it the ids unique.
THEOREM Inductive ==
  ASSUME PartitionsAssumption
  PROVE  Spec => [](PartitionsInv /\ IdsUnique)
<1>1. PartitionsInv /\ IdsUnique /\ [Next]_vars => (PartitionsInv /\ IdsUnique)'
  <2> SUFFICES ASSUME PartitionsInv, IdsUnique, [Next]_vars
               PROVE  (PartitionsInv /\ IdsUnique)'
    OBVIOUS
  <2>1. TypeOK /\ IdsDrawn /\ IdentityAhead /\ DefaultIsClear
    BY DEF PartitionsInv
  <2>2. TypeOK' /\ IdsDrawn' /\ IdsUnique' /\ IdentityAhead' /\ DefaultIsClear'
    BY <2>1, TypeStep, DrawnStep, AheadStep, ClearStep
  <2> QED  BY <2>2 DEF PartitionsInv
<1> QED  BY <1>1, Initially, PTL DEF Spec

\* No two rows have one id, although the conversion's new identity may draw ids
\* of swept rows again, and ids are drawn before their rows are to be seen.
THEOREM IdsUniqueHolds ==
  ASSUME PartitionsAssumption
  PROVE  Spec => []IdsUnique
<1> QED  BY Inductive, PTL

\* A row that becomes visible is ahead of its relay, unless the conversion came
\* after the newest row was swept: the fence does it, whatever ranges there are.
THEOREM NewRowsAheadHolds ==
  ASSUME PartitionsAssumption
  PROVE  Spec => NewRowsAheadUnlessRewound
<1>1. PartitionsInv /\ [Next]_vars =>
        [\A r \in rows' \ rows : r.id > offset[r.outbox] \/ rewound]_vars
  <2> SUFFICES ASSUME PartitionsInv, Next, NEW r \in rows' \ rows, ~rewound
               PROVE  r.id > offset[r.outbox]
    OBVIOUS
  <2>0. /\ writing \in [Outboxes -> Nat] /\ offset \in [Outboxes -> Nat]
        /\ IdentityAhead
    BY DEF PartitionsInv, TypeOK
  <2>1. ASSUME NEW o \in Outboxes, end_transaction(o)  PROVE r.id > offset[r.outbox]
    <3>1. r = [id |-> writing[o], outbox |-> o] /\ writing[o] # 0
      BY <2>1 DEF end_transaction
    <3> QED  BY <2>0, <3>1 DEF IdentityAhead
  <2>2. (\E o \in Outboxes : outbox_publish(o) \/ relay_batch(o) \/ outbox_sweep(o))
          => rows' \subseteq rows
    BY DEF outbox_publish, relay_batch, outbox_sweep, tableVars
  <2>3. (\/ admin_convert_outbox_storage \/ begin_maintenance \/ create_ranges
         \/ (\E child \in children : count_rows(child)) \/ drop_child \/ end_maintenance)
          => rows' \subseteq rows
    BY DEF admin_convert_outbox_storage, begin_maintenance, create_ranges, count_rows,
           drop_child, end_maintenance, tableVars
  <2> QED  BY <2>1, <2>2, <2>3 DEF Next
<1> QED  BY <1>1, Inductive, PTL DEF Spec, NewRowsAheadUnlessRewound

=============================================================================
