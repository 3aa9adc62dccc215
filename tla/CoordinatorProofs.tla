------------------------- MODULE CoordinatorProofs --------------------------
(***************************************************************************)
(* Proofs about Coordinator for any number of relays, pipelines, tenants   *)
(* and configurations: two relays never both run a pipeline of one tenant  *)
(* with a live session.                                                    *)
(***************************************************************************)
EXTENDS Coordinator, FiniteSetTheorems, TLAPS

-----------------------------------------------------------------------------
(* Partial functions.                                                       *)

LEMMA PartialIntro ==
  ASSUME NEW S, NEW T, NEW f, DOMAIN f \subseteq S, f \in [DOMAIN f -> T]
  PROVE  f \in Partial(S, T)
  BY DEF Partial

LEMMA PartialElim ==
  ASSUME NEW S, NEW T, NEW f \in Partial(S, T)
  PROVE  DOMAIN f \subseteq S /\ f \in [DOMAIN f -> T]
  BY DEF Partial

LEMMA EmptyIsPartial ==
  ASSUME NEW S, NEW T  PROVE Empty \in Partial(S, T) /\ DOMAIN Empty = {}
<1>1. Empty = [x \in {} |-> {}]
  BY DEF Empty
<1>2. Empty \in [{} -> T]
  BY <1>1
<1> QED  BY <1>2 DEF Partial

LEMMA EmptyHasNoDomain == DOMAIN Empty = {}
  BY EmptyIsPartial

LEMMA WithValues ==
  ASSUME NEW f, NEW x, NEW y
  PROVE  /\ DOMAIN With(f, x, y) = DOMAIN f \cup {x}
         /\ With(f, x, y)[x] = y
         /\ \A z \in DOMAIN f : z # x => With(f, x, y)[z] = f[z]
  BY DEF With

LEMMA WithIsPartial ==
  ASSUME NEW S, NEW T, NEW f \in Partial(S, T), NEW x \in S, NEW y \in T
  PROVE  With(f, x, y) \in Partial(S, T)
<1>1. DOMAIN f \subseteq S /\ f \in [DOMAIN f -> T]
  BY PartialElim
<1>2. With(f, x, y) \in [DOMAIN f \cup {x} -> T]
  BY <1>1 DEF With
<1> QED  BY <1>1, <1>2, WithValues, PartialIntro

LEMMA WithoutValues ==
  ASSUME NEW f, NEW X
  PROVE  /\ DOMAIN Without(f, X) = DOMAIN f \ X
         /\ \A z \in DOMAIN f \ X : Without(f, X)[z] = f[z]
  BY DEF Without

LEMMA WithoutIsPartial ==
  ASSUME NEW S, NEW T, NEW f \in Partial(S, T), NEW X
  PROVE  Without(f, X) \in Partial(S, T)
<1>1. DOMAIN f \subseteq S /\ f \in [DOMAIN f -> T]
  BY PartialElim
<1>2. Without(f, X) \in [DOMAIN f \ X -> T]
  BY <1>1 DEF Without
<1> QED  BY <1>1, <1>2, WithoutValues, PartialIntro

-----------------------------------------------------------------------------
(* What one step does to the workers of one relay, and to the locks.        *)

LEMMA Typed ==
  ASSUME TypeOK
  PROVE  /\ locks \in Partial(Keys, [relay : Relays, attached : BOOLEAN])
         /\ DOMAIN locks \subseteq Keys
         /\ \A k \in DOMAIN locks : locks[k] \in [relay : Relays, attached : BOOLEAN]
         /\ workers \in [Relays -> Partial(Pipelines, Workers)]
         /\ \A r \in Relays : DOMAIN workers[r] \subseteq Pipelines
         /\ \A r \in Relays : \A p \in DOMAIN workers[r] : workers[r][p] \in Workers
         /\ relays \in [Relays -> Processes]
<1>1. /\ locks \in Partial(Keys, [relay : Relays, attached : BOOLEAN])
      /\ workers \in [Relays -> Partial(Pipelines, Workers)]
      /\ relays \in [Relays -> Processes]
  BY DEF TypeOK
<1>2. /\ DOMAIN locks \subseteq Keys
      /\ locks \in [DOMAIN locks -> [relay : Relays, attached : BOOLEAN]]
  BY <1>1, PartialElim
<1>3. ASSUME NEW r \in Relays
      PROVE  DOMAIN workers[r] \subseteq Pipelines /\ workers[r] \in [DOMAIN workers[r] -> Workers]
  BY <1>1, PartialElim
<1> QED  BY <1>1, <1>2, <1>3

\* A worker of a relay gets another phase.
LEMMA PhaseChange ==
  ASSUME TypeOK, NEW r \in Relays, NEW p \in DOMAIN workers[r],
         NEW ph \in {"running", "stopping", "finished"},
         workers' = SetPhase(r, p, ph)
  PROVE  /\ workers' \in [Relays -> Partial(Pipelines, Workers)]
         /\ \A s \in Relays : s # r => workers'[s] = workers[s]
         /\ \A s \in Relays : DOMAIN workers'[s] = DOMAIN workers[s]
         /\ \A s \in Relays : \A q \in DOMAIN workers[s] :
               /\ workers'[s][q].tenant = workers[s][q].tenant
               /\ workers'[s][q].lost = workers[s][q].lost
               /\ workers'[s][q].phase = IF s = r /\ q = p THEN ph ELSE workers[s][q].phase
<1> DEFINE new == [workers[r] EXCEPT ![p] = [workers[r][p] EXCEPT !.phase = ph]]
<1>0. /\ workers \in [Relays -> Partial(Pipelines, Workers)]
      /\ DOMAIN workers[r] \subseteq Pipelines
      /\ workers[r] \in [DOMAIN workers[r] -> Workers]
      /\ workers[r][p] \in Workers
  BY Typed, PartialElim
<1>1. [workers[r][p] EXCEPT !.phase = ph] \in Workers
  BY <1>0 DEF Workers
<1>2. new \in [DOMAIN workers[r] -> Workers] /\ DOMAIN new = DOMAIN workers[r]
  BY <1>0, <1>1
<1>3. new \in Partial(Pipelines, Workers)
  BY <1>0, <1>2, PartialIntro
<1>4. workers' = [workers EXCEPT ![r] = new]
  BY DEF SetPhase, SetLost
<1>5. /\ new[p].tenant = workers[r][p].tenant
      /\ new[p].lost = workers[r][p].lost
      /\ new[p].phase = ph
      /\ \A q \in DOMAIN workers[r] : q # p => new[q] = workers[r][q]
  BY <1>0 DEF Workers
<1> HIDE DEF new
<1> QED  BY <1>0, <1>2, <1>3, <1>4, <1>5

\* A worker of a relay loses its session.
LEMMA LostChange ==
  ASSUME TypeOK, NEW r \in Relays, NEW p \in DOMAIN workers[r],
         workers' = SetLost(r, p)
  PROVE  /\ workers' \in [Relays -> Partial(Pipelines, Workers)]
         /\ \A s \in Relays : s # r => workers'[s] = workers[s]
         /\ \A s \in Relays : DOMAIN workers'[s] = DOMAIN workers[s]
         /\ \A s \in Relays : \A q \in DOMAIN workers[s] :
               /\ workers'[s][q].tenant = workers[s][q].tenant
               /\ workers'[s][q].phase = workers[s][q].phase
               /\ workers'[s][q].lost = IF s = r /\ q = p THEN TRUE ELSE workers[s][q].lost
<1> DEFINE new == [workers[r] EXCEPT ![p] = [workers[r][p] EXCEPT !.lost = TRUE]]
<1>0. /\ workers \in [Relays -> Partial(Pipelines, Workers)]
      /\ DOMAIN workers[r] \subseteq Pipelines
      /\ workers[r] \in [DOMAIN workers[r] -> Workers]
      /\ workers[r][p] \in Workers
  BY Typed, PartialElim
<1>1. [workers[r][p] EXCEPT !.lost = TRUE] \in Workers
  BY <1>0 DEF Workers
<1>2. new \in [DOMAIN workers[r] -> Workers] /\ DOMAIN new = DOMAIN workers[r]
  BY <1>0, <1>1
<1>3. new \in Partial(Pipelines, Workers)
  BY <1>0, <1>2, PartialIntro
<1>4. workers' = [workers EXCEPT ![r] = new]
  BY DEF SetPhase, SetLost
<1>5. /\ new[p].tenant = workers[r][p].tenant
      /\ new[p].phase = workers[r][p].phase
      /\ new[p].lost = TRUE
      /\ \A q \in DOMAIN workers[r] : q # p => new[q] = workers[r][q]
  BY <1>0 DEF Workers
<1> HIDE DEF new
<1> QED  BY <1>0, <1>2, <1>3, <1>4, <1>5

\* A relay forgets some of its workers.
LEMMA WorkersForgotten ==
  ASSUME TypeOK, NEW r \in Relays, NEW X,
         workers' = [workers EXCEPT ![r] = Without(@, X)]
  PROVE  /\ workers' \in [Relays -> Partial(Pipelines, Workers)]
         /\ \A s \in Relays : s # r => workers'[s] = workers[s]
         /\ DOMAIN workers'[r] = DOMAIN workers[r] \ X
         /\ \A p \in DOMAIN workers[r] \ X : workers'[r][p] = workers[r][p]
<1>1. workers \in [Relays -> Partial(Pipelines, Workers)]
  BY Typed
<1>2. /\ Without(workers[r], X) \in Partial(Pipelines, Workers)
      /\ DOMAIN Without(workers[r], X) = DOMAIN workers[r] \ X
      /\ \A z \in DOMAIN workers[r] \ X : Without(workers[r], X)[z] = workers[r][z]
  <2>1. workers[r] \in Partial(Pipelines, Workers)
    BY <1>1
  <2> QED  BY <2>1, WithoutIsPartial, WithoutValues
<1> QED  BY <1>1, <1>2

\* Dropping a client changes whether a session has one, and nothing else.
LEMMA DetachedIsPartial ==
  ASSUME TypeOK, NEW r \in Relays, NEW ws \in SUBSET DOMAIN workers[r]
  PROVE  /\ Detached(r, ws) \in Partial(Keys, [relay : Relays, attached : BOOLEAN])
         /\ DOMAIN Detached(r, ws) = DOMAIN locks
         /\ \A k \in DOMAIN locks :
               /\ Detached(r, ws)[k].relay = locks[k].relay
               /\ Detached(r, ws)[k].attached <=>
                    /\ locks[k].attached
                    /\ ~(/\ locks[k].relay = r
                         /\ \E p \in ws : k = Key(workers[r][p], p) /\ ~workers[r][p].lost)
<1> DEFINE Dropped(k) == /\ locks[k].relay = r
                         /\ \E p \in ws : k = Key(workers[r][p], p) /\ ~workers[r][p].lost
           LockStates == [relay : Relays, attached : BOOLEAN]
<1>1. Detached(r, ws) = [k \in DOMAIN locks |->
          IF Dropped(k) THEN [locks[k] EXCEPT !.attached = FALSE] ELSE locks[k]]
  BY DEF Detached
<1> HIDE DEF Dropped
<1>2. DOMAIN locks \subseteq Keys /\ \A k \in DOMAIN locks : locks[k] \in LockStates
  BY Typed
<1>3. ASSUME NEW k \in DOMAIN locks
      PROVE  /\ Detached(r, ws)[k] \in LockStates
             /\ Detached(r, ws)[k].relay = locks[k].relay
             /\ Detached(r, ws)[k].attached <=> locks[k].attached /\ ~Dropped(k)
  <2>1. locks[k] \in LockStates
    BY <1>2
  <2>2. CASE Dropped(k)
    <3>1. Detached(r, ws)[k] = [locks[k] EXCEPT !.attached = FALSE]
      BY <1>1, <2>2
    <3> QED  BY <2>1, <2>2, <3>1
  <2>3. CASE ~Dropped(k)
    <3>1. Detached(r, ws)[k] = locks[k]
      BY <1>1, <2>3
    <3> QED  BY <2>1, <2>3, <3>1
  <2> QED  BY <2>2, <2>3
<1>4. DOMAIN Detached(r, ws) = DOMAIN locks
  BY <1>1
<1>5. Detached(r, ws) \in [DOMAIN locks -> LockStates]
  <2>1. Detached(r, ws) = [k \in DOMAIN locks |-> Detached(r, ws)[k]]
    BY <1>1
  <2> HIDE DEF LockStates
  <2> QED  BY <1>3, <2>1
<1>6. Detached(r, ws) \in Partial(Keys, LockStates)
  BY <1>2, <1>4, <1>5, PartialIntro
<1> QED  BY <1>3, <1>4, <1>6 DEF Dropped

-----------------------------------------------------------------------------
(* Who owns what.                                                           *)

\* A step that neither takes a session nor drops one, nor starts a worker.
LEMMA KeepOwners ==
  ASSUME TypeOK, OwnersHoldLocks, LocksHaveOwners, locks' = locks,
         \A r \in Relays : /\ Owning(r)' = Owning(r)
                           /\ \A p \in Owning(r) : workers'[r][p].tenant = workers[r][p].tenant
  PROVE  OwnersHoldLocks' /\ LocksHaveOwners'
<1>1. \A k \in DOMAIN locks : locks[k].relay \in Relays
  BY Typed
<1> HIDE DEF Owning
<1>2. OwnersHoldLocks'
  BY DEF OwnersHoldLocks, Key
<1>3. LocksHaveOwners'
  BY <1>1 DEF LocksHaveOwners
<1> QED  BY <1>2, <1>3

\* A step after which some workers of a relay are no owners any more, and the
\* sessions they had have no client.
LEMMA DropOwners ==
  ASSUME TypeOK, OwnersHoldLocks, LocksHaveOwners,
         NEW r \in Relays, NEW ws \in SUBSET Unfinished(r), locks' = Detached(r, ws),
         \A s \in Relays :
            /\ Owning(s)' = IF s = r THEN Owning(s) \ ws ELSE Owning(s)
            /\ \A p \in Owning(s)' : workers'[s][p].tenant = workers[s][p].tenant
  PROVE  OwnersHoldLocks' /\ LocksHaveOwners'
<1>0. \A k \in DOMAIN locks : locks[k] \in [relay : Relays, attached : BOOLEAN]
  BY Typed
<1>1. /\ DOMAIN locks' = DOMAIN locks
      /\ \A k \in DOMAIN locks :
            /\ locks'[k].relay = locks[k].relay
            /\ locks'[k] \in [relay : Relays, attached : BOOLEAN]
            /\ locks'[k].attached <=>
                 /\ locks[k].attached
                 /\ ~(/\ locks[k].relay = r
                      /\ \E p \in ws : k = Key(workers[r][p], p) /\ ~workers[r][p].lost)
  <2>1. ws \in SUBSET DOMAIN workers[r]
    BY DEF Unfinished
  <2>2. \A k \in DOMAIN Detached(r, ws) : Detached(r, ws)[k] \in [relay : Relays, attached : BOOLEAN]
    <3>1. Detached(r, ws) \in Partial(Keys, [relay : Relays, attached : BOOLEAN])
      BY <2>1, DetachedIsPartial
    <3>2. Detached(r, ws) \in [DOMAIN Detached(r, ws) -> [relay : Relays, attached : BOOLEAN]]
      BY <3>1, PartialElim
    <3> HIDE DEF Detached
    <3> QED  BY <3>2
  <2> QED  BY <2>1, <2>2, DetachedIsPartial
<1>2. ASSUME NEW s \in Relays, NEW p \in Owning(s)'
      PROVE  LET k == Key(workers'[s][p], p)
             IN  k \in DOMAIN locks' /\ locks'[k] = [relay |-> s, attached |-> TRUE]
  <2> DEFINE k == Key(workers[s][p], p)
  <2>1. p \in Owning(s) /\ (s = r => p \notin ws)
    BY <1>2
  <2>2. k \in DOMAIN locks /\ locks[k] = [relay |-> s, attached |-> TRUE]
    BY <2>1 DEF OwnersHoldLocks
  <2>3. Key(workers'[s][p], p) = k
    BY <1>2 DEF Key
  <2>4. \A q : k = Key(workers[r][q], q) => q = p
    BY DEF Key
  <2>5. locks'[k].attached /\ locks'[k].relay = s
    BY <1>1, <2>1, <2>2, <2>4
  <2>6. locks'[k] = [relay |-> s, attached |-> TRUE]
    <3>1. locks'[k] \in [relay : Relays, attached : BOOLEAN]
      BY <1>1, <2>2
    <3> QED  BY <2>5, <3>1
  <2> QED  BY <1>1, <2>2, <2>3, <2>6
<1>3. ASSUME NEW k \in DOMAIN locks', locks'[k].attached, NEW s, s = locks'[k].relay
      PROVE  s \in Relays /\ k[2] \in Owning(s)' /\ workers'[s][k[2]].tenant = k[1]
  <2>1. k \in DOMAIN locks /\ locks[k].attached /\ locks[k].relay = s /\ s \in Relays
    BY <1>0, <1>1, <1>3
  <2>2. k[2] \in Owning(s) /\ workers[s][k[2]].tenant = k[1]
    BY <2>1 DEF LocksHaveOwners
  <2>3. ~(s = r /\ k[2] \in ws)
    <3>1. SUFFICES ASSUME s = r, k[2] \in ws  PROVE FALSE
      OBVIOUS
    <3>2. k = Key(workers[r][k[2]], k[2])
      <4>1. k \in Tenants \X Pipelines
        BY <2>1, Typed DEF Keys
      <4> QED  BY <2>2, <3>1, <4>1 DEF Key
    <3>3. ~workers[r][k[2]].lost
      BY <2>2, <3>1 DEF Owning
    <3> QED  BY <1>1, <1>3, <2>1, <3>1, <3>2, <3>3
  <2> HIDE DEF Owning, Detached
  <2>4. k[2] \in Owning(s)'
    BY <2>1, <2>2, <2>3
  <2>5. workers'[s][k[2]].tenant = k[1]
    BY <2>1, <2>2, <2>4
  <2> QED  BY <2>1, <2>4, <2>5
<1>4. OwnersHoldLocks'
  BY <1>2 DEF OwnersHoldLocks
<1>5. LocksHaveOwners'
  BY <1>3 DEF LocksHaveOwners, Owning, Unfinished
<1> QED  BY <1>4, <1>5

-----------------------------------------------------------------------------
(* The steps of a worker and of its session.                                *)

\* What the invariant says of one relay's process.
LEMMA PlanOf ==
  ASSUME IInv, NEW r \in Relays
  PROVE  /\ relays[r] \in Processes
         /\ relays[r].stops \subseteq DOMAIN workers[r]
         /\ DOMAIN relays[r].plan \cap DOMAIN workers[r] = {}
         /\ relays[r].pc # "reconciling" => relays[r].stops = {} /\ relays[r].plan = Empty
         /\ relays[r].pc = "down" => workers[r] = Empty
<1>1. TypeOK /\ PlansAreCurrent
  BY DEF IInv
<1>2. relays[r] \in Processes
  BY <1>1, Typed
<1> QED  BY <1>1, <1>2 DEF PlansAreCurrent

LEMMA FinishStep ==
  ASSUME IInv, NEW r \in Relays, NEW p \in Unfinished(r),
         workers' = SetPhase(r, p, "finished"),
         locks' = Detached(r, {p}),
         relays' = relays \/ relays' = [relays EXCEPT ![r].unhealthy = @ \cup {p}],
         catalog' = catalog, trouble' \in 0 .. MaxTrouble
  PROVE  IInv'
<1>0. TypeOK /\ OwnersHoldLocks /\ LocksHaveOwners
  BY DEF IInv
<1>1. p \in DOMAIN workers[r] /\ p \in Pipelines
  BY <1>0, Typed DEF Unfinished
<1>2. /\ workers' \in [Relays -> Partial(Pipelines, Workers)]
      /\ \A s \in Relays : s # r => workers'[s] = workers[s]
      /\ \A s \in Relays : DOMAIN workers'[s] = DOMAIN workers[s]
      /\ \A s \in Relays : \A q \in DOMAIN workers[s] :
            /\ workers'[s][q].tenant = workers[s][q].tenant
            /\ workers'[s][q].lost = workers[s][q].lost
            /\ workers'[s][q].phase = IF s = r /\ q = p THEN "finished" ELSE workers[s][q].phase
  <2>1. "finished" \in {"running", "stopping", "finished"}
    OBVIOUS
  <2> QED  BY <1>0, <1>1, <2>1, PhaseChange
<1>3. /\ relays' \in [Relays -> Processes]
      /\ \A s \in Relays : /\ relays'[s].pc = relays[s].pc
                           /\ relays'[s].stops = relays[s].stops
                           /\ relays'[s].plan = relays[s].plan
  BY <1>0, <1>1, Typed DEF Processes
<1>4. locks' \in Partial(Keys, [relay : Relays, attached : BOOLEAN])
  BY <1>0, <1>1, DetachedIsPartial
<1>5. TypeOK'
  BY <1>0, <1>2, <1>3, <1>4 DEF TypeOK, CatalogTypeOK
<1>6. OwnersHoldLocks' /\ LocksHaveOwners'
  <2>1. \A s \in Relays : Owning(s)' = IF s = r THEN Owning(s) \ {p} ELSE Owning(s)
    BY <1>1, <1>2 DEF Owning, Unfinished
  <2>2. \A s \in Relays : \A q \in Owning(s)' : workers'[s][q].tenant = workers[s][q].tenant
    BY <1>2 DEF Owning, Unfinished
  <2> QED  BY <1>0, <2>1, <2>2, DropOwners
<1>7. PlansAreCurrent'
  <2>1. workers[r] # Empty
    BY <1>1, EmptyHasNoDomain
  <2> QED  BY <1>2, <1>3, <2>1, PlanOf DEF PlansAreCurrent
<1> QED  BY <1>5, <1>6, <1>7 DEF IInv

LEMMA SessionLostStep ==
  ASSUME IInv, NEW k \in Keys, session_lost(k)
  PROVE  IInv'
<1> DEFINE r == locks[k].relay
           p == k[2]
<1>0. TypeOK /\ OwnersHoldLocks /\ LocksHaveOwners
  BY DEF IInv
<1>1. /\ k \in DOMAIN locks /\ locks[k].attached
      /\ locks' = Without(locks, {k})
      /\ workers' = SetLost(r, p)
      /\ trouble < MaxTrouble /\ trouble' = trouble + 1
      /\ catalog' = catalog /\ relays' = relays
  BY DEF session_lost, Disturb
<1>2. r \in Relays /\ p \in Owning(r) /\ workers[r][p].tenant = k[1]
  BY <1>0, <1>1, Typed DEF LocksHaveOwners
<1>3. p \in DOMAIN workers[r] /\ k = Key(workers[r][p], p)
  BY <1>2 DEF Owning, Unfinished, Key, Keys
<1> HIDE DEF r, p
<1>4. /\ workers' \in [Relays -> Partial(Pipelines, Workers)]
      /\ \A s \in Relays : s # r => workers'[s] = workers[s]
      /\ \A s \in Relays : DOMAIN workers'[s] = DOMAIN workers[s]
      /\ \A s \in Relays : \A q \in DOMAIN workers[s] :
            /\ workers'[s][q].tenant = workers[s][q].tenant
            /\ workers'[s][q].phase = workers[s][q].phase
            /\ workers'[s][q].lost = IF s = r /\ q = p THEN TRUE ELSE workers[s][q].lost
  BY <1>0, <1>1, <1>2, <1>3, LostChange
<1>5. /\ locks' \in Partial(Keys, [relay : Relays, attached : BOOLEAN])
      /\ DOMAIN locks' = DOMAIN locks \ {k}
      /\ \A z \in DOMAIN locks \ {k} : locks'[z] = locks[z]
  <2>1. locks \in Partial(Keys, [relay : Relays, attached : BOOLEAN])
    BY <1>0, Typed
  <2> QED  BY <1>1, <2>1, WithoutIsPartial, WithoutValues
<1>6. trouble' \in 0 .. MaxTrouble
  BY <1>0, <1>1, TroubleAssumption DEF TypeOK
<1>7. TypeOK'
  BY <1>0, <1>1, <1>4, <1>5, <1>6 DEF TypeOK, CatalogTypeOK
<1>8. \A s \in Relays : \A q : q \in Owning(s)' <=> q \in Owning(s) /\ ~(s = r /\ q = p)
  <2> SUFFICES ASSUME NEW s \in Relays, NEW q
               PROVE  q \in Owning(s)' <=> q \in Owning(s) /\ ~(s = r /\ q = p)
    OBVIOUS
  <2>1. CASE q \notin DOMAIN workers[s]
    BY <1>4, <2>1 DEF Owning, Unfinished
  <2>2. CASE q \in DOMAIN workers[s]
    <3>1. /\ workers'[s][q].phase = workers[s][q].phase
          /\ workers'[s][q].lost = IF s = r /\ q = p THEN TRUE ELSE workers[s][q].lost
          /\ DOMAIN workers'[s] = DOMAIN workers[s]
      BY <1>4, <2>2
    <3>2. /\ q \in Owning(s)' <=> workers'[s][q].phase # "finished" /\ ~workers'[s][q].lost
          /\ q \in Owning(s) <=> workers[s][q].phase # "finished" /\ ~workers[s][q].lost
      BY <2>2, <3>1 DEF Owning, Unfinished
    <3> QED  BY <3>1, <3>2
  <2> QED  BY <2>1, <2>2
<1>9. \A s \in Relays : \A q \in Owning(s)' : workers'[s][q].tenant = workers[s][q].tenant
  BY <1>4 DEF Owning, Unfinished
<1>10. OwnersHoldLocks'
  <2>1. ASSUME NEW s \in Relays, NEW q \in Owning(s)'
        PROVE  LET z == Key(workers'[s][q], q)
               IN  z \in DOMAIN locks' /\ locks'[z] = [relay |-> s, attached |-> TRUE]
    <3> DEFINE z == Key(workers[s][q], q)
    <3>1. z \in DOMAIN locks /\ locks[z] = [relay |-> s, attached |-> TRUE]
      BY <1>0, <1>8 DEF OwnersHoldLocks
    <3>2. z # k
      <4>1. SUFFICES ASSUME z = k  PROVE FALSE
        OBVIOUS
      <4>2. q = p
        BY <1>3, <4>1 DEF Key
      <4>3. s = r
        BY <3>1, <4>1 DEF r
      <4> QED  BY <1>8, <4>2, <4>3
    <3>3. Key(workers'[s][q], q) = z
      BY <1>9 DEF Key
    <3> QED  BY <1>5, <3>1, <3>2, <3>3
  <2> QED  BY <2>1 DEF OwnersHoldLocks
<1>11. LocksHaveOwners'
  <2>1. ASSUME NEW z \in DOMAIN locks', locks'[z].attached, NEW s, s = locks'[z].relay
        PROVE  s \in Relays /\ z[2] \in Owning(s)' /\ workers'[s][z[2]].tenant = z[1]
    <3>1. z \in DOMAIN locks /\ z # k /\ locks[z].attached /\ locks[z].relay = s /\ s \in Relays
      BY <1>0, <1>5, <2>1, Typed
    <3>2. z[2] \in Owning(s) /\ workers[s][z[2]].tenant = z[1]
      BY <1>0, <3>1 DEF LocksHaveOwners
    <3>3. ~(s = r /\ z[2] = p)
      <4>1. SUFFICES ASSUME s = r, z[2] = p  PROVE FALSE
        OBVIOUS
      <4>2. z[1] = k[1]
        BY <1>2, <3>2, <4>1
      <4>3. z \in Tenants \X Pipelines /\ k \in Tenants \X Pipelines
        BY <1>0, <3>1, Typed DEF Keys
      <4> QED  BY <3>1, <4>1, <4>2, <4>3 DEF p
    <3>4. z[2] \in Owning(s)'
      BY <1>8, <3>1, <3>2, <3>3
    <3> QED  BY <1>9, <3>1, <3>2, <3>4
  <2> QED  BY <2>1 DEF LocksHaveOwners, Owning, Unfinished
<1>12. PlansAreCurrent'
  <2>1. workers[r] # Empty
    BY <1>3, EmptyHasNoDomain
  <2> QED  BY <1>1, <1>2, <1>4, <2>1, PlanOf DEF PlansAreCurrent
<1> QED  BY <1>7, <1>10, <1>11, <1>12 DEF IInv

LEMMA SessionClosesStep ==
  ASSUME IInv, NEW k \in Keys, session_closes(k)
  PROVE  IInv'
<1>0. TypeOK /\ OwnersHoldLocks /\ LocksHaveOwners /\ PlansAreCurrent
  BY DEF IInv
<1>1. /\ k \in DOMAIN locks /\ ~locks[k].attached /\ locks' = Without(locks, {k})
      /\ UNCHANGED <<catalog, workers, relays, trouble>>
  BY DEF session_closes
<1>2. /\ locks' \in Partial(Keys, [relay : Relays, attached : BOOLEAN])
      /\ DOMAIN locks' = DOMAIN locks \ {k}
      /\ \A z \in DOMAIN locks \ {k} : locks'[z] = locks[z]
  <2>1. locks \in Partial(Keys, [relay : Relays, attached : BOOLEAN])
    BY <1>0, Typed
  <2> QED  BY <1>1, <2>1, WithoutIsPartial, WithoutValues
<1>3. TypeOK'
  BY <1>0, <1>1, <1>2 DEF TypeOK, CatalogTypeOK
<1>4. OwnersHoldLocks'
  <2>1. \A s : Owning(s)' = Owning(s)
    BY <1>1 DEF Owning, Unfinished
  <2> HIDE DEF Owning
  <2>2. ASSUME NEW s \in Relays, NEW q \in Owning(s)
        PROVE  LET z == Key(workers[s][q], q)
               IN  z \in DOMAIN locks' /\ locks'[z] = [relay |-> s, attached |-> TRUE]
    <3> DEFINE z == Key(workers[s][q], q)
    <3>1. z \in DOMAIN locks /\ locks[z] = [relay |-> s, attached |-> TRUE]
      BY <1>0 DEF OwnersHoldLocks
    <3>2. locks[z].attached
      BY <3>1
    <3> HIDE DEF z
    <3>3. z # k
      BY <1>1, <3>2
    <3>4. z \in DOMAIN locks' /\ locks'[z] = locks[z]
      BY <1>2, <3>1, <3>3
    <3> QED  BY <3>1, <3>4 DEF z
  <2> QED  BY <1>1, <2>1, <2>2 DEF OwnersHoldLocks
<1>5. LocksHaveOwners'
  BY <1>0, <1>1, <1>2 DEF LocksHaveOwners, Owning, Unfinished
<1>6. PlansAreCurrent'
  BY <1>0, <1>1 DEF PlansAreCurrent
<1> QED  BY <1>3, <1>4, <1>5, <1>6 DEF IInv

-----------------------------------------------------------------------------
(* The steps of a process.                                                  *)

\* What a process may be, so that the invariant holds of it.
Current(process, ws) ==
    /\ process \in Processes
    /\ process.stops \subseteq DOMAIN ws
    /\ DOMAIN process.plan \cap DOMAIN ws = {}
    /\ process.pc # "reconciling" => process.stops = {} /\ process.plan = Empty
    /\ process.pc = "down" => ws = Empty

\* A step that changes at most one process and the workers it remembers.
LEMMA ProcessStep ==
  ASSUME IInv, NEW r \in Relays, locks' = locks, CatalogTypeOK', trouble' \in 0 .. MaxTrouble,
         workers' \in [Relays -> Partial(Pipelines, Workers)],
         \A s \in Relays : s # r => workers'[s] = workers[s],
         \A p : p \in Owning(r)' <=> p \in Owning(r),
         \A p \in Owning(r) : workers'[r][p].tenant = workers[r][p].tenant,
         relays' \in [Relays -> Processes],
         \A s \in Relays : s # r => relays'[s] = relays[s],
         Current(relays'[r], workers'[r])
  PROVE  IInv'
<1>0. TypeOK /\ OwnersHoldLocks /\ LocksHaveOwners /\ PlansAreCurrent
  BY DEF IInv
<1>1. TypeOK'
  BY <1>0 DEF TypeOK
<1>2. OwnersHoldLocks' /\ LocksHaveOwners'
  <2>1. \A s \in Relays : Owning(s)' = Owning(s)
    <3>1. Owning(r)' = Owning(r)
      OBVIOUS
    <3>2. ASSUME NEW s \in Relays, s # r  PROVE Owning(s)' = Owning(s)
      BY <3>2 DEF Owning, Unfinished
    <3> QED  BY <3>1, <3>2
  <2>2. \A s \in Relays : \A p \in Owning(s) : workers'[s][p].tenant = workers[s][p].tenant
    <3> HIDE DEF Owning
    <3> QED  OBVIOUS
  <2> QED  BY <1>0, <2>1, <2>2, KeepOwners
<1>3. PlansAreCurrent'
  BY <1>0 DEF PlansAreCurrent, Current
<1> QED  BY <1>1, <1>2, <1>3 DEF IInv

\* The same where the workers do not change.
LEMMA OnlyProcess ==
  ASSUME IInv, NEW r \in Relays, locks' = locks, workers' = workers,
         catalog' = catalog, trouble' \in 0 .. MaxTrouble,
         relays' \in [Relays -> Processes],
         \A s \in Relays : s # r => relays'[s] = relays[s],
         Current(relays'[r], workers[r])
  PROVE  IInv'
<1>1. CatalogTypeOK' /\ workers' \in [Relays -> Partial(Pipelines, Workers)]
  BY DEF IInv, TypeOK, CatalogTypeOK
<1>2. /\ \A p : p \in Owning(r)' <=> p \in Owning(r)
      /\ \A p \in Owning(r) : workers'[r][p].tenant = workers[r][p].tenant
  BY DEF Owning, Unfinished
<1>3. \A s \in Relays : s # r => workers'[s] = workers[s]
  OBVIOUS
<1> QED  BY <1>1, <1>2, <1>3, ProcessStep

LEMMA CurrentNow ==
  ASSUME IInv, NEW r \in Relays  PROVE Current(relays[r], workers[r])
  BY PlanOf DEF Current

LEMMA TroubleStep ==
  ASSUME IInv, trouble' = trouble \/ Disturb  PROVE trouble' \in 0 .. MaxTrouble
  BY TroubleAssumption DEF IInv, TypeOK, Disturb

\* Health: publish_succeeds, publish_fails.
LEMMA HealthStep ==
  ASSUME IInv, NEW r \in Relays, NEW p \in Pipelines,
         publish_fails(r, p) \/ publish_succeeds(r, p)
  PROVE  IInv'
<1>1. /\ UNCHANGED <<catalog, locks, workers>> /\ (trouble' = trouble \/ Disturb)
      /\ \/ relays' = [relays EXCEPT ![r].unhealthy = @ \cup {p}]
         \/ relays' = [relays EXCEPT ![r].unhealthy = @ \ {p}]
  BY DEF publish_fails, publish_succeeds
<1>2. relays \in [Relays -> Processes] /\ Current(relays[r], workers[r])
  BY Typed, CurrentNow DEF IInv
<1>3. /\ relays' \in [Relays -> Processes]
      /\ \A s \in Relays : s # r => relays'[s] = relays[s]
      /\ relays'[r].pc = relays[r].pc /\ relays'[r].stops = relays[r].stops
      /\ relays'[r].plan = relays[r].plan
  BY <1>1, <1>2 DEF Processes
<1>4. Current(relays'[r], workers[r])
  BY <1>2, <1>3 DEF Current
<1>5. trouble' \in 0 .. MaxTrouble
  BY <1>1, TroubleStep
<1> QED  BY <1>1, <1>3, <1>4, <1>5, OnlyProcess

\* The loop over the pipelines to start goes on or ends: limit_reached,
\* skip_pipeline, acquisition_fails.
LEMMA PlanShrinks ==
  ASSUME IInv, NEW r \in Relays, NEW p \in Pipelines,
         limit_reached(r) \/ skip_pipeline(r, p) \/ acquisition_fails(r, p)
  PROVE  IInv'
<1>1. /\ UNCHANGED <<catalog, locks, workers>> /\ (trouble' = trouble \/ Disturb)
      /\ relays[r].pc = "reconciling"
      /\ \/ relays' = [relays EXCEPT ![r].plan = Empty]
         \/ relays' = [relays EXCEPT ![r].plan = Without(@, {p})]
  BY DEF limit_reached, skip_pipeline, acquisition_fails, Starting
<1>2. relays \in [Relays -> Processes] /\ Current(relays[r], workers[r])
  BY Typed, CurrentNow DEF IInv
<1>3. relays[r].plan \in Partial(Pipelines, Plans)
  BY <1>2 DEF Processes
<1>4. /\ Empty \in Partial(Pipelines, Plans)
      /\ Without(relays[r].plan, {p}) \in Partial(Pipelines, Plans)
      /\ DOMAIN Without(relays[r].plan, {p}) \subseteq DOMAIN relays[r].plan
      /\ DOMAIN Empty \subseteq DOMAIN relays[r].plan
  <2>1. Empty \in Partial(Pipelines, Plans)
    BY EmptyIsPartial
  <2>2. Without(relays[r].plan, {p}) \in Partial(Pipelines, Plans)
    BY <1>3, WithoutIsPartial
  <2>3. DOMAIN Without(relays[r].plan, {p}) \subseteq DOMAIN relays[r].plan
    BY DEF Without
  <2>4. DOMAIN Empty \subseteq DOMAIN relays[r].plan
    BY EmptyHasNoDomain
  <2> QED  BY <2>1, <2>2, <2>3, <2>4
<1>5. PICK left \in Partial(Pipelines, Plans) :
         /\ relays' = [relays EXCEPT ![r].plan = left]
         /\ DOMAIN left \subseteq DOMAIN relays[r].plan
  BY <1>1, <1>4
<1>6. /\ relays' \in [Relays -> Processes]
      /\ \A s \in Relays : s # r => relays'[s] = relays[s]
      /\ relays'[r].pc = "reconciling" /\ relays'[r].stops = relays[r].stops
      /\ relays'[r].plan = left
  BY <1>1, <1>2, <1>5 DEF Processes
<1>7. Current(relays'[r], workers[r])
  BY <1>1, <1>2, <1>5, <1>6 DEF Current
<1>8. trouble' \in 0 .. MaxTrouble
  BY <1>1, TroubleStep
<1> QED  BY <1>1, <1>6, <1>7, <1>8, OnlyProcess

\* end_reconcile, exit and start.
LEMMA LoopStep ==
  ASSUME IInv, NEW r \in Relays, end_reconcile(r) \/ exit(r) \/ start(r)
  PROVE  IInv'
<1>0. relays \in [Relays -> Processes] /\ Current(relays[r], workers[r])
  BY Typed, CurrentNow DEF IInv
<1>1. UNCHANGED <<catalog, locks, workers, trouble>>
  BY DEF end_reconcile, exit, start
<1>2. trouble' \in 0 .. MaxTrouble
  BY <1>1, TroubleStep
<1>3. /\ relays' \in [Relays -> Processes]
      /\ \A s \in Relays : s # r => relays'[s] = relays[s]
      /\ Current(relays'[r], workers[r])
  <2>1. CASE end_reconcile(r)
    <3>1. /\ relays[r].stops = {} /\ relays[r].plan = Empty
          /\ relays' = [relays EXCEPT ![r].pc = "idle", ![r].ready = TRUE,
                                      ![r].unhealthy = @ \cap DOMAIN workers[r]]
      BY <2>1 DEF end_reconcile
    <3>2. /\ relays' \in [Relays -> Processes]
          /\ \A s \in Relays : s # r => relays'[s] = relays[s]
          /\ relays'[r].pc = "idle" /\ relays'[r].stops = {} /\ relays'[r].plan = Empty
      <4> DEFINE seen == relays[r].unhealthy \cap DOMAIN workers[r]
      <4>1. relays[r] \in Processes
        BY <1>0
      <4>2. seen \subseteq Pipelines
        BY <4>1 DEF Processes
      <4> DEFINE process == [relays[r] EXCEPT !.pc = "idle", !.ready = TRUE,
                                              !.unhealthy = seen]
      <4>3. relays' = [relays EXCEPT ![r] = process]
        BY <1>0, <3>1
      <4> HIDE DEF seen
      <4>4. /\ process \in Processes
            /\ process.pc = "idle" /\ process.stops = {} /\ process.plan = Empty
        BY <3>1, <4>1, <4>2 DEF Processes
      <4> HIDE DEF process
      <4> QED  BY <1>0, <4>3, <4>4
    <3> QED  BY <3>2, EmptyHasNoDomain DEF Current
  <2>2. ASSUME NEW at \in {"down", "idle"}, relays' = [relays EXCEPT ![r] = Process(at)],
               workers[r] = Empty
        PROVE  /\ relays' \in [Relays -> Processes]
               /\ \A s \in Relays : s # r => relays'[s] = relays[s]
               /\ Current(relays'[r], workers[r])
    <3>1. Process(at) \in Processes
      BY EmptyIsPartial DEF Process, Processes
    <3>2. relays'[r] = Process(at)
      BY <1>0, <2>2
    <3>3. Current(Process(at), workers[r])
      BY <2>2, <3>1, EmptyHasNoDomain DEF Current, Process
    <3> QED  BY <1>0, <2>2, <3>1, <3>2, <3>3
  <2>3. CASE exit(r)
    BY <2>2, <2>3 DEF exit
  <2>4. CASE start(r)
    BY <1>0, <2>2, <2>4 DEF start, Current
  <2> QED  BY <2>1, <2>3, <2>4
<1> QED  BY <1>1, <1>2, <1>3, OnlyProcess

\* The rows that a relay sees are a plan.
LEMMA VisibleIsPartial ==
  ASSUME IInv, NEW r \in Relays  PROVE Visible(r) \in Partial(Pipelines, Plans)
<1>1. catalog \in Partial(Pipelines, Rows)
  BY DEF IInv, TypeOK, CatalogTypeOK
<1>2. DOMAIN catalog \subseteq Pipelines /\ catalog \in [DOMAIN catalog -> Rows]
  BY <1>1, PartialElim
<1> DEFINE seen == {q \in DOMAIN catalog : /\ catalog[q].enabled
                                           /\ TenantOf[r] \in {NoTenant, catalog[q].tenant}}
<1>3. Visible(r) = [p \in seen |-> [config |-> catalog[p].config, tenant |-> catalog[p].tenant]]
  BY DEF Visible
<1>4. ASSUME NEW p \in DOMAIN catalog
      PROVE  [config |-> catalog[p].config, tenant |-> catalog[p].tenant] \in Plans
  <2>1. catalog[p] \in Rows
    BY <1>2
  <2> QED  BY <2>1 DEF Rows, Plans
<1>5. seen \subseteq DOMAIN catalog
  OBVIOUS
<1> HIDE DEF seen
<1>6. DOMAIN Visible(r) = seen /\ Visible(r) \in [seen -> Plans]
  BY <1>3, <1>4, <1>5
<1> QED  BY <1>2, <1>5, <1>6, PartialIntro

\* The workers that are forgotten when a reconcile begins are no owners.
LEMMA ReapStep ==
  ASSUME IInv, NEW r \in Relays, Reap(r)
  PROVE  /\ workers' \in [Relays -> Partial(Pipelines, Workers)]
         /\ \A s \in Relays : s # r => workers'[s] = workers[s]
         /\ DOMAIN workers'[r] = Unfinished(r)
         /\ \A p : p \in Owning(r)' <=> p \in Owning(r)
         /\ \A p \in Owning(r) : workers'[r][p].tenant = workers[r][p].tenant
<1>0. TypeOK
  BY DEF IInv
<1>1. workers' = [workers EXCEPT ![r] = Without(@, Finished(r))]
  BY DEF Reap
<1>2. workers \in [Relays -> Partial(Pipelines, Workers)]
  BY <1>0, Typed
<1>3. workers[r] \in Partial(Pipelines, Workers)
  BY <1>2
<1> DEFINE left == Without(workers[r], Finished(r))
<1>4. /\ left \in Partial(Pipelines, Workers)
      /\ DOMAIN left = DOMAIN workers[r] \ Finished(r)
      /\ \A p \in DOMAIN workers[r] \ Finished(r) : left[p] = workers[r][p]
  BY <1>3, WithoutIsPartial, WithoutValues
<1>5. workers' = [workers EXCEPT ![r] = left]
  BY <1>1
<1> HIDE DEF left
<1>6. /\ workers' \in [Relays -> Partial(Pipelines, Workers)]
      /\ \A s \in Relays : s # r => workers'[s] = workers[s]
      /\ workers'[r] = left
  BY <1>2, <1>4, <1>5
<1>7. DOMAIN workers[r] \ Finished(r) = Unfinished(r)
  BY DEF Finished, Unfinished
<1>8. \A p \in Unfinished(r) : workers'[r][p] = workers[r][p]
  BY <1>4, <1>6, <1>7
<1>9. DOMAIN workers'[r] = Unfinished(r)
  BY <1>4, <1>6, <1>7
<1>10. \A p : p \in Owning(r)' <=> p \in Owning(r)
  BY <1>8, <1>9 DEF Owning, Unfinished
<1>11. \A p \in Owning(r) : workers'[r][p].tenant = workers[r][p].tenant
  BY <1>8 DEF Owning
<1> QED  BY <1>6, <1>9, <1>10, <1>11

\* load_pipelines and load_fails.
LEMMA LoadStep ==
  ASSUME IInv, NEW r \in Relays, load_pipelines(r) \/ load_fails(r)
  PROVE  IInv'
<1>0. relays \in [Relays -> Processes] /\ Current(relays[r], workers[r])
  BY Typed, CurrentNow DEF IInv
<1>1. /\ UNCHANGED <<catalog, locks>> /\ (trouble' = trouble \/ Disturb)
      /\ relays[r].pc = "idle" /\ Reap(r)
  BY DEF load_pipelines, load_fails
<1>2. /\ workers' \in [Relays -> Partial(Pipelines, Workers)]
      /\ \A s \in Relays : s # r => workers'[s] = workers[s]
      /\ DOMAIN workers'[r] = Unfinished(r)
      /\ \A p : p \in Owning(r)' <=> p \in Owning(r)
      /\ \A p \in Owning(r) : workers'[r][p].tenant = workers[r][p].tenant
  BY <1>1, ReapStep
<1>3. /\ relays' \in [Relays -> Processes]
      /\ \A s \in Relays : s # r => relays'[s] = relays[s]
      /\ Current(relays'[r], workers'[r])
  <2>1. CASE relays' = [relays EXCEPT ![r].ready = FALSE]
    <3>1. /\ relays' \in [Relays -> Processes]
          /\ \A s \in Relays : s # r => relays'[s] = relays[s]
          /\ relays'[r].pc = "idle" /\ relays'[r].stops = relays[r].stops
          /\ relays'[r].plan = relays[r].plan
      BY <1>0, <1>1, <2>1 DEF Processes
    <3>2. relays[r].stops = {} /\ relays[r].plan = Empty
      BY <1>0, <1>1 DEF Current
    <3> QED  BY <3>1, <3>2, EmptyHasNoDomain DEF Current
  <2>2. CASE relays' = [relays EXCEPT ![r].pc = "reconciling",
                            ![r].stops = Unfinished(r) \ DOMAIN Visible(r),
                            ![r].plan = Without(Visible(r), Unfinished(r))]
    <3> DEFINE stops == Unfinished(r) \ DOMAIN Visible(r)
               plan == Without(Visible(r), Unfinished(r))
    <3>1. /\ plan \in Partial(Pipelines, Plans)
          /\ DOMAIN plan \cap Unfinished(r) = {}
      <4>1. Visible(r) \in Partial(Pipelines, Plans)
        BY VisibleIsPartial
      <4>2. plan \in Partial(Pipelines, Plans)
        BY <4>1, WithoutIsPartial
      <4>3. DOMAIN plan = DOMAIN Visible(r) \ Unfinished(r)
        BY WithoutValues
      <4> QED  BY <4>2, <4>3
    <3>2. stops \in SUBSET Pipelines /\ stops \subseteq Unfinished(r)
      BY Typed DEF IInv, Unfinished
    <3>3. relays' = [relays EXCEPT ![r].pc = "reconciling", ![r].stops = stops, ![r].plan = plan]
      BY <2>2
    <3> HIDE DEF stops, plan
    <3>4. /\ relays' \in [Relays -> Processes]
          /\ \A s \in Relays : s # r => relays'[s] = relays[s]
          /\ relays'[r].pc = "reconciling" /\ relays'[r].stops = stops /\ relays'[r].plan = plan
      <4> DEFINE process == [relays[r] EXCEPT !.pc = "reconciling", !.stops = stops,
                                              !.plan = plan]
      <4>1. relays[r] \in Processes
        BY <1>0
      <4>2. /\ process \in Processes
            /\ process.pc = "reconciling" /\ process.stops = stops /\ process.plan = plan
        BY <3>1, <3>2, <4>1 DEF Processes
      <4>3. relays' = [relays EXCEPT ![r] = process]
        BY <1>0, <3>3
      <4> HIDE DEF process
      <4> QED  BY <1>0, <4>2, <4>3
    <3> QED  BY <1>2, <3>1, <3>2, <3>4 DEF Current
  <2> QED  BY <2>1, <2>2 DEF load_pipelines, load_fails
<1>4. CatalogTypeOK' /\ trouble' \in 0 .. MaxTrouble
  BY <1>1, TroubleStep DEF IInv, TypeOK, CatalogTypeOK
<1> QED  BY <1>1, <1>2, <1>3, <1>4, ProcessStep

\* The stop signal changes the phase of an unfinished worker.
LEMMA StopStep ==
  ASSUME IInv, NEW r \in Relays, NEW p \in Pipelines, stop_removed(r, p)
  PROVE  IInv'
<1>0. /\ TypeOK /\ relays \in [Relays -> Processes] /\ Current(relays[r], workers[r])
  BY Typed, CurrentNow DEF IInv
<1>1. /\ relays[r].pc = "reconciling" /\ p \in DOMAIN workers[r]
      /\ workers[r][p].phase = "running" /\ workers' = SetPhase(r, p, "stopping")
      /\ UNCHANGED <<catalog, locks, relays, trouble>>
  BY <1>0 DEF stop_removed, Current
<1>2. /\ workers' \in [Relays -> Partial(Pipelines, Workers)]
      /\ \A s \in Relays : s # r => workers'[s] = workers[s]
      /\ \A s \in Relays : DOMAIN workers'[s] = DOMAIN workers[s]
      /\ \A s \in Relays : \A q \in DOMAIN workers[s] :
            /\ workers'[s][q].tenant = workers[s][q].tenant
            /\ workers'[s][q].lost = workers[s][q].lost
            /\ workers'[s][q].phase = IF s = r /\ q = p THEN "stopping" ELSE workers[s][q].phase
  <2>1. "stopping" \in {"running", "stopping", "finished"}
    OBVIOUS
  <2> QED  BY <1>0, <1>1, <2>1, PhaseChange
<1>3. \A q : q \in Owning(r)' <=> q \in Owning(r)
  BY <1>1, <1>2 DEF Owning, Unfinished
<1>4. \A q \in Owning(r) : workers'[r][q].tenant = workers[r][q].tenant
  BY <1>2 DEF Owning, Unfinished
<1>5. Current(relays'[r], workers'[r])
  BY <1>0, <1>1, <1>2 DEF Current
<1>6. CatalogTypeOK' /\ trouble' \in 0 .. MaxTrouble
  BY <1>1, TroubleStep DEF IInv, TypeOK, CatalogTypeOK
<1> QED  BY <1>0, <1>1, <1>2, <1>3, <1>4, <1>5, <1>6, ProcessStep

\* So does the beginning of a drain, for all workers of the relay.
LEMMA DrainStep ==
  ASSUME IInv, NEW r \in Relays, shut_down(r)
  PROVE  IInv'
<1> DEFINE told == [p \in DOMAIN workers[r] |->
                IF workers[r][p].phase = "running"
                THEN [workers[r][p] EXCEPT !.phase = "stopping"] ELSE workers[r][p]]
<1>0. /\ TypeOK /\ relays \in [Relays -> Processes] /\ Current(relays[r], workers[r])
      /\ workers \in [Relays -> Partial(Pipelines, Workers)]
      /\ DOMAIN workers[r] \subseteq Pipelines
      /\ \A p \in DOMAIN workers[r] : workers[r][p] \in Workers
  BY Typed, CurrentNow DEF IInv
<1>1. /\ relays[r].pc = "idle" /\ relays' = [relays EXCEPT ![r].pc = "draining"]
      /\ workers' = [workers EXCEPT ![r] = told]
      /\ UNCHANGED <<catalog, locks>> /\ Disturb
  BY DEF shut_down
<1>2. DOMAIN told = DOMAIN workers[r]
  OBVIOUS
<1>3. ASSUME NEW p \in DOMAIN workers[r]
      PROVE  /\ told[p] \in Workers
             /\ told[p].tenant = workers[r][p].tenant /\ told[p].lost = workers[r][p].lost
             /\ told[p].phase = "finished" <=> workers[r][p].phase = "finished"
  <2>1. workers[r][p] \in Workers
    BY <1>0
  <2>2. CASE workers[r][p].phase = "running"
    <3>1. told[p] = [workers[r][p] EXCEPT !.phase = "stopping"]
      BY <2>2
    <3> QED  BY <2>1, <2>2, <3>1 DEF Workers
  <2>3. CASE workers[r][p].phase # "running"
    <3>1. told[p] = workers[r][p]
      BY <2>3
    <3> QED  BY <2>1, <3>1
  <2> QED  BY <2>2, <2>3
<1>4. told \in [DOMAIN workers[r] -> Workers]
  <2>1. told = [p \in DOMAIN workers[r] |-> told[p]]
    OBVIOUS
  <2> HIDE DEF told
  <2> QED  BY <1>3, <2>1
<1> HIDE DEF told
<1>5. told \in Partial(Pipelines, Workers)
  BY <1>0, <1>2, <1>4, PartialIntro
<1>6. /\ workers' \in [Relays -> Partial(Pipelines, Workers)]
      /\ \A s \in Relays : s # r => workers'[s] = workers[s]
      /\ workers'[r] = told
  BY <1>0, <1>1, <1>5
<1>7. \A p : p \in Owning(r)' <=> p \in Owning(r)
  BY <1>2, <1>3, <1>6 DEF Owning, Unfinished
<1>8. \A p \in Owning(r) : workers'[r][p].tenant = workers[r][p].tenant
  BY <1>3, <1>6 DEF Owning, Unfinished
<1>9. /\ relays' \in [Relays -> Processes]
      /\ \A s \in Relays : s # r => relays'[s] = relays[s]
      /\ relays'[r].pc = "draining" /\ relays'[r].stops = relays[r].stops
      /\ relays'[r].plan = relays[r].plan
  BY <1>0, <1>1 DEF Processes
<1>10. Current(relays'[r], workers'[r])
  BY <1>0, <1>1, <1>2, <1>6, <1>9 DEF Current
<1>11. CatalogTypeOK' /\ trouble' \in 0 .. MaxTrouble
  BY <1>1, TroubleStep DEF IInv, TypeOK, CatalogTypeOK
<1> QED  BY <1>1, <1>6, <1>7, <1>8, <1>9, <1>10, <1>11, ProcessStep

\* A worker that has ended leaves the map.
LEMMA ForgetStep ==
  ASSUME IInv, NEW r \in Relays, NEW p \in Pipelines, forget_stopped(r, p)
  PROVE  IInv'
<1>0. /\ TypeOK /\ relays \in [Relays -> Processes] /\ Current(relays[r], workers[r])
  BY Typed, CurrentNow DEF IInv
<1>1. /\ p \in DOMAIN workers[r] /\ workers[r][p].phase = "finished"
      /\ relays[r].pc \in {"reconciling", "draining"}
      /\ workers' = [workers EXCEPT ![r] = Without(@, {p})]
      /\ relays' = [relays EXCEPT ![r].stops = @ \ {p}]
      /\ UNCHANGED <<catalog, locks, trouble>>
  BY <1>0 DEF forget_stopped, Current
<1>2. /\ workers' \in [Relays -> Partial(Pipelines, Workers)]
      /\ \A s \in Relays : s # r => workers'[s] = workers[s]
      /\ DOMAIN workers'[r] = DOMAIN workers[r] \ {p}
      /\ \A q \in DOMAIN workers[r] \ {p} : workers'[r][q] = workers[r][q]
  BY <1>0, <1>1, WorkersForgotten
<1>3. \A q : q \in Owning(r)' <=> q \in Owning(r)
  BY <1>1, <1>2 DEF Owning, Unfinished
<1>4. \A q \in Owning(r) : workers'[r][q].tenant = workers[r][q].tenant
  BY <1>1, <1>2 DEF Owning, Unfinished
<1>5. /\ relays' \in [Relays -> Processes]
      /\ \A s \in Relays : s # r => relays'[s] = relays[s]
      /\ relays'[r].pc = relays[r].pc /\ relays'[r].stops = relays[r].stops \ {p}
      /\ relays'[r].plan = relays[r].plan
  BY <1>0, <1>1 DEF Processes
<1>6. Current(relays'[r], workers'[r])
  BY <1>0, <1>1, <1>2, <1>5 DEF Current
<1>7. CatalogTypeOK' /\ trouble' \in 0 .. MaxTrouble
  BY <1>1, TroubleStep DEF IInv, TypeOK, CatalogTypeOK
<1> QED  BY <1>1, <1>2, <1>3, <1>4, <1>5, <1>6, <1>7, ProcessStep

\* Workers that are aborted, or die with their process, drop their sessions.
LEMMA AbortStep ==
  ASSUME IInv, NEW r \in Relays, NEW ws \in SUBSET Unfinished(r), NEW X \in SUBSET DOMAIN workers[r],
         ws \subseteq X, \A p \in X \ ws : workers[r][p].phase = "finished",
         locks' = Detached(r, ws), catalog' = catalog, trouble' \in 0 .. MaxTrouble,
         workers' \in [Relays -> Partial(Pipelines, Workers)],
         \A s \in Relays : s # r => workers'[s] = workers[s],
         DOMAIN workers'[r] = DOMAIN workers[r] \ X,
         \A q \in DOMAIN workers[r] \ X : workers'[r][q] = workers[r][q],
         relays' \in [Relays -> Processes],
         \A s \in Relays : s # r => relays'[s] = relays[s],
         Current(relays'[r], workers'[r])
  PROVE  IInv'
<1>0. TypeOK /\ OwnersHoldLocks /\ LocksHaveOwners /\ PlansAreCurrent
  BY DEF IInv
<1>1. locks' \in Partial(Keys, [relay : Relays, attached : BOOLEAN])
  <2>1. ws \in SUBSET DOMAIN workers[r]
    BY DEF Unfinished
  <2> QED  BY <1>0, <2>1, DetachedIsPartial
<1>2. TypeOK'
  BY <1>0, <1>1 DEF TypeOK, CatalogTypeOK
<1>3. \A s \in Relays : Owning(s)' = IF s = r THEN Owning(s) \ ws ELSE Owning(s)
  <2>1. Owning(r)' = Owning(r) \ ws
    BY DEF Owning, Unfinished
  <2>2. ASSUME NEW s \in Relays, s # r  PROVE Owning(s)' = Owning(s)
    BY <2>2 DEF Owning, Unfinished
  <2> QED  BY <2>1, <2>2
<1>4. \A s \in Relays : \A q \in Owning(s)' : workers'[s][q].tenant = workers[s][q].tenant
  <2>1. \A q \in Owning(r)' : workers'[r][q].tenant = workers[r][q].tenant
    BY DEF Owning, Unfinished
  <2> QED  BY <2>1
<1>5. OwnersHoldLocks' /\ LocksHaveOwners'
  BY <1>0, <1>3, <1>4, DropOwners
<1>6. PlansAreCurrent'
  BY <1>0 DEF PlansAreCurrent, Current
<1> QED  BY <1>2, <1>5, <1>6 DEF IInv

LEMMA AbortOneStep ==
  ASSUME IInv, NEW r \in Relays, NEW p \in Pipelines, abort(r, p)
  PROVE  IInv'
<1>0. /\ TypeOK /\ relays \in [Relays -> Processes] /\ Current(relays[r], workers[r])
  BY Typed, CurrentNow DEF IInv
<1>1. /\ p \in DOMAIN workers[r] /\ p \in Unfinished(r)
      /\ relays[r].pc \in {"reconciling", "draining"}
      /\ workers' = [workers EXCEPT ![r] = Without(@, {p})]
      /\ locks' = Detached(r, {p})
      /\ relays' = [relays EXCEPT ![r].stops = @ \ {p}]
      /\ UNCHANGED <<catalog, trouble>>
  BY <1>0 DEF abort, Current, Unfinished
<1>2. /\ workers' \in [Relays -> Partial(Pipelines, Workers)]
      /\ \A s \in Relays : s # r => workers'[s] = workers[s]
      /\ DOMAIN workers'[r] = DOMAIN workers[r] \ {p}
      /\ \A q \in DOMAIN workers[r] \ {p} : workers'[r][q] = workers[r][q]
  BY <1>0, <1>1, WorkersForgotten
<1>3. /\ relays' \in [Relays -> Processes]
      /\ \A s \in Relays : s # r => relays'[s] = relays[s]
      /\ relays'[r].pc = relays[r].pc /\ relays'[r].stops = relays[r].stops \ {p}
      /\ relays'[r].plan = relays[r].plan
  BY <1>0, <1>1 DEF Processes
<1>4. Current(relays'[r], workers'[r])
  BY <1>0, <1>1, <1>2, <1>3 DEF Current
<1>5. trouble' \in 0 .. MaxTrouble /\ catalog' = catalog
  BY <1>1, TroubleStep
<1> DEFINE X == {p}
<1>6. X \in SUBSET DOMAIN workers[r] /\ X \in SUBSET Unfinished(r) /\ X \subseteq X /\ X \ X = {}
  BY <1>1
<1>7. /\ locks' = Detached(r, X) /\ DOMAIN workers'[r] = DOMAIN workers[r] \ X
      /\ \A q \in DOMAIN workers[r] \ X : workers'[r][q] = workers[r][q]
  BY <1>1, <1>2
<1> HIDE DEF X
<1> QED  BY <1>2, <1>3, <1>4, <1>5, <1>6, <1>7, AbortStep

LEMMA CrashStep ==
  ASSUME IInv, NEW r \in Relays, crash(r)
  PROVE  IInv'
<1>0. /\ TypeOK /\ relays \in [Relays -> Processes]
      /\ workers \in [Relays -> Partial(Pipelines, Workers)]
  BY Typed DEF IInv
<1>1. /\ locks' = Detached(r, Unfinished(r)) /\ workers' = [workers EXCEPT ![r] = Empty]
      /\ relays' = [relays EXCEPT ![r] = Process("down")]
      /\ catalog' = catalog /\ Disturb
  BY DEF crash
<1>2. Empty \in Partial(Pipelines, Workers) /\ Empty \in Partial(Pipelines, Plans)
  BY EmptyIsPartial
<1>3. /\ workers' \in [Relays -> Partial(Pipelines, Workers)]
      /\ \A s \in Relays : s # r => workers'[s] = workers[s]
      /\ workers'[r] = Empty
  BY <1>0, <1>1, <1>2
<1>4. Process("down") \in Processes
  BY <1>2 DEF Process, Processes
<1>5. /\ relays' \in [Relays -> Processes]
      /\ \A s \in Relays : s # r => relays'[s] = relays[s]
      /\ relays'[r] = Process("down")
  BY <1>0, <1>1, <1>4
<1>6. Current(relays'[r], workers'[r])
  BY <1>3, <1>4, <1>5, EmptyHasNoDomain DEF Current, Process
<1>7. trouble' \in 0 .. MaxTrouble
  BY <1>1, TroubleStep
<1> DEFINE X == DOMAIN workers[r]
<1>8. /\ X \in SUBSET DOMAIN workers[r] /\ Unfinished(r) \subseteq X
      /\ DOMAIN workers'[r] = DOMAIN workers[r] \ X
      /\ \A q \in DOMAIN workers[r] \ X : workers'[r][q] = workers[r][q]
      /\ \A p \in X \ Unfinished(r) : workers[r][p].phase = "finished"
  BY <1>3, EmptyHasNoDomain DEF Unfinished
<1>9. Unfinished(r) \in SUBSET Unfinished(r)
  OBVIOUS
<1> HIDE DEF X
<1> QED  BY <1>1, <1>3, <1>5, <1>6, <1>7, <1>8, <1>9, AbortStep

\* The lock is granted only when no session has it, so that its key is that of
\* no other owner.
LEMMA AcquireStep ==
  ASSUME IInv, NEW r \in Relays, NEW p \in Pipelines, try_acquire_ownership(r, p)
  PROVE  IInv'
<1> DEFINE row == relays[r].plan[p]
           key == Key(row, p)
           held == [relay |-> r, attached |-> TRUE]
           worker == [phase |-> "running", config |-> row.config,
                      tenant |-> row.tenant, lost |-> FALSE]
           left == Without(relays[r].plan, {p})
<1>0. /\ TypeOK /\ OwnersHoldLocks /\ LocksHaveOwners /\ PlansAreCurrent
      /\ relays \in [Relays -> Processes] /\ Current(relays[r], workers[r])
      /\ workers \in [Relays -> Partial(Pipelines, Workers)]
      /\ locks \in Partial(Keys, [relay : Relays, attached : BOOLEAN])
  BY Typed, CurrentNow DEF IInv
<1>1. /\ relays[r].pc = "reconciling" /\ relays[r].stops = {} /\ p \in DOMAIN relays[r].plan
      /\ key \notin DOMAIN locks
      /\ locks' = With(locks, key, held)
      /\ workers' = [workers EXCEPT ![r] = With(@, p, worker)]
      /\ relays' = [relays EXCEPT ![r].plan = Without(@, {p}), ![r].unhealthy = @ \ {p}]
      /\ UNCHANGED <<catalog, trouble>>
  BY DEF try_acquire_ownership, Starting
<1>2. relays[r].plan \in Partial(Pipelines, Plans)
  BY <1>0 DEF Processes
<1>3. row \in Plans
  <2>1. relays[r].plan \in [DOMAIN relays[r].plan -> Plans]
    BY <1>2, PartialElim
  <2> QED  BY <1>1, <2>1
<1>4. key \in Keys /\ key[1] = row.tenant /\ key[2] = p
  BY <1>3 DEF Key, Keys, Plans
<1>5. worker \in Workers /\ held \in [relay : Relays, attached : BOOLEAN]
  BY <1>3 DEF Workers, Plans
<1>6. worker.tenant = row.tenant /\ worker.phase = "running" /\ ~worker.lost
  OBVIOUS
<1>7. /\ left \in Partial(Pipelines, Plans)
      /\ DOMAIN left = DOMAIN relays[r].plan \ {p}
  <2>1. left \in Partial(Pipelines, Plans)
    BY <1>2, WithoutIsPartial
  <2>2. DOMAIN left = DOMAIN relays[r].plan \ {p}
    BY DEF Without
  <2> QED  BY <2>1, <2>2
<1>8. p \notin DOMAIN workers[r]
  BY <1>0, <1>1 DEF Current
<1> HIDE DEF key, worker, held
<1>9. /\ locks' \in Partial(Keys, [relay : Relays, attached : BOOLEAN])
      /\ DOMAIN locks' = DOMAIN locks \cup {key}
      /\ locks'[key] = held
      /\ \A z \in DOMAIN locks : locks'[z] = locks[z]
  <2>1. With(locks, key, held) \in Partial(Keys, [relay : Relays, attached : BOOLEAN])
    BY <1>0, <1>4, <1>5, WithIsPartial
  <2>2. /\ DOMAIN With(locks, key, held) = DOMAIN locks \cup {key}
        /\ With(locks, key, held)[key] = held
        /\ \A z \in DOMAIN locks : z # key => With(locks, key, held)[z] = locks[z]
    BY DEF With
  <2> QED  BY <1>1, <2>1, <2>2
<1>10. /\ workers' \in [Relays -> Partial(Pipelines, Workers)]
       /\ \A s \in Relays : s # r => workers'[s] = workers[s]
       /\ DOMAIN workers'[r] = DOMAIN workers[r] \cup {p}
       /\ workers'[r][p] = worker
       /\ \A q \in DOMAIN workers[r] : workers'[r][q] = workers[r][q]
  <2> DEFINE more == With(workers[r], p, worker)
  <2>1. more \in Partial(Pipelines, Workers)
    <3>1. workers[r] \in Partial(Pipelines, Workers)
      BY <1>0
    <3> QED  BY <1>5, <3>1, WithIsPartial
  <2>2. /\ DOMAIN more = DOMAIN workers[r] \cup {p} /\ more[p] = worker
        /\ \A q \in DOMAIN workers[r] : q # p => more[q] = workers[r][q]
    BY DEF With
  <2>3. workers' = [workers EXCEPT ![r] = more]
    BY <1>1
  <2> HIDE DEF more
  <2> QED  BY <1>0, <1>8, <2>1, <2>2, <2>3
<1>11. /\ relays' \in [Relays -> Processes]
       /\ \A s \in Relays : s # r => relays'[s] = relays[s]
       /\ relays'[r].pc = "reconciling" /\ relays'[r].stops = {} /\ relays'[r].plan = left
  <2> DEFINE next == [relays[r] EXCEPT !.plan = left, !.unhealthy = @ \ {p}]
  <2>1. relays' = [relays EXCEPT ![r] = next]
    BY <1>1
  <2> HIDE DEF left
  <2>2. relays[r] \in Processes
    BY <1>0
  <2>3. next \in Processes /\ next.pc = "reconciling" /\ next.stops = {} /\ next.plan = left
    BY <1>1, <1>7, <2>2 DEF Processes
  <2> HIDE DEF next
  <2> QED  BY <1>0, <2>1, <2>3
<1> HIDE DEF left, row
<1>12. TypeOK'
  BY <1>0, <1>1, <1>9, <1>10, <1>11 DEF TypeOK, CatalogTypeOK
<1>13. /\ \A s \in Relays : \A q : q \in Owning(s)' <=> q \in Owning(s) \/ (s = r /\ q = p)
       /\ \A s \in Relays : \A q \in Owning(s) : workers'[s][q] = workers[s][q]
  <2>1. \A q : q \in Owning(r)' <=> q \in Owning(r) \/ q = p
    BY <1>6, <1>8, <1>10 DEF Owning, Unfinished
  <2>2. ASSUME NEW s \in Relays, s # r  PROVE Owning(s)' = Owning(s)
    BY <1>10, <2>2 DEF Owning, Unfinished
  <2>3. \A q \in Owning(r) : workers'[r][q] = workers[r][q]
    BY <1>10 DEF Owning, Unfinished
  <2> HIDE DEF Owning
  <2>4. ASSUME NEW s \in Relays, NEW q
        PROVE  q \in Owning(s)' <=> q \in Owning(s) \/ (s = r /\ q = p)
    <3>1. CASE s = r
      BY <2>1, <3>1
    <3>2. CASE s # r
      BY <2>2, <3>2
    <3> QED  BY <3>1, <3>2
  <2>5. ASSUME NEW s \in Relays, NEW q \in Owning(s)  PROVE workers'[s][q] = workers[s][q]
    <3>1. CASE s = r
      BY <2>3, <3>1
    <3>2. CASE s # r
      BY <1>10, <3>2
    <3> QED  BY <3>1, <3>2
  <2> QED  BY <2>4, <2>5
<1>14. OwnersHoldLocks'
  <2>1. ASSUME NEW s \in Relays, NEW q \in Owning(s)'
        PROVE  LET z == Key(workers'[s][q], q)
               IN  z \in DOMAIN locks' /\ locks'[z] = [relay |-> s, attached |-> TRUE]
    <3>1. CASE q \in Owning(s)
      <4> DEFINE z == Key(workers[s][q], q)
      <4>1. z \in DOMAIN locks /\ locks[z] = [relay |-> s, attached |-> TRUE]
        BY <1>0, <3>1 DEF OwnersHoldLocks
      <4>2. Key(workers'[s][q], q) = z
        BY <1>13, <3>1
      <4> HIDE DEF z
      <4> QED  BY <1>9, <4>1, <4>2
    <3>2. CASE s = r /\ q = p
      <4>1. Key(workers'[s][q], q) = key
        BY <1>6, <1>10, <3>2 DEF Key, key
      <4> QED  BY <1>9, <3>2, <4>1 DEF held
    <3> QED  BY <1>13, <2>1, <3>1, <3>2
  <2> QED  BY <2>1 DEF OwnersHoldLocks
<1>15. LocksHaveOwners'
  <2>1. ASSUME NEW z \in DOMAIN locks', locks'[z].attached, NEW s, s = locks'[z].relay
        PROVE  s \in Relays /\ z[2] \in Owning(s)' /\ workers'[s][z[2]].tenant = z[1]
    <3>1. CASE z = key
      <4>1. s = r
        BY <1>9, <2>1, <3>1 DEF held
      <4> QED  BY <1>4, <1>6, <1>10, <1>13, <3>1, <4>1
    <3>2. CASE z \in DOMAIN locks
      <4>1. locks[z].attached /\ locks[z].relay = s /\ s \in Relays
        BY <1>0, <1>9, <2>1, <3>2, Typed
      <4>2. z[2] \in Owning(s) /\ workers[s][z[2]].tenant = z[1]
        BY <1>0, <3>2, <4>1 DEF LocksHaveOwners
      <4> QED  BY <1>13, <4>1, <4>2
    <3> QED  BY <1>9, <3>1, <3>2
  <2> QED  BY <2>1 DEF LocksHaveOwners, Owning, Unfinished
<1>16. PlansAreCurrent'
  <2>1. Current(relays'[r], workers'[r])
    BY <1>0, <1>7, <1>10, <1>11 DEF Current
  <2> QED  BY <1>0, <1>10, <1>11, <2>1 DEF PlansAreCurrent, Current
<1> QED  BY <1>12, <1>14, <1>15, <1>16 DEF IInv

\* The operators' functions keep the catalog a table.
LEMMA CatalogStep ==
  ASSUME CatalogTypeOK, CatalogChange
  PROVE  CatalogTypeOK'
<1>0. catalog \in Partial(Pipelines, Rows)
  BY DEF CatalogTypeOK
<1>1. DOMAIN catalog \subseteq Pipelines /\ catalog \in [DOMAIN catalog -> Rows]
  BY <1>0, PartialElim
<1>2. ASSUME NEW p \in Pipelines, NEW c \in Configs, NEW on \in BOOLEAN,
             relay_set_outbox_v2(p, c, on)
      PROVE  CatalogTypeOK'
  <2> DEFINE tenant == IF p \in DOMAIN catalog THEN catalog[p].tenant ELSE DefaultTenant
             new == [enabled |-> on, config |-> c, tenant |-> tenant]
  <2>1. tenant \in Tenants
    BY <1>1, DefaultTenantAssumption DEF Rows
  <2>2. new \in Rows
    BY <2>1 DEF Rows
  <2>3. catalog' = With(catalog, p, new)
    BY <1>2 DEF relay_set_outbox_v2
  <2> HIDE DEF new
  <2> QED  BY <1>0, <2>2, <2>3, WithIsPartial DEF CatalogTypeOK
<1>3. ASSUME NEW p \in DOMAIN catalog, NEW new \in Rows, catalog' = [catalog EXCEPT ![p] = new]
      PROVE  CatalogTypeOK'
  <2>1. catalog' \in [DOMAIN catalog -> Rows] /\ DOMAIN catalog' = DOMAIN catalog
    BY <1>1, <1>3
  <2> QED  BY <1>1, <2>1, PartialIntro DEF CatalogTypeOK
<1>4. ASSUME NEW p \in Pipelines,
             \/ relay_enable(p) \/ relay_disable(p)
             \/ \E t \in Tenants : relay_set_tenant(p, t)
      PROVE  CatalogTypeOK'
  <2>1. p \in DOMAIN catalog /\ catalog[p] \in Rows
    BY <1>1, <1>4 DEF relay_enable, relay_disable, relay_set_tenant
  <2>2. CASE relay_enable(p)
    <3>1. catalog' = [catalog EXCEPT ![p] = [catalog[p] EXCEPT !.enabled = TRUE]]
      BY <2>2 DEF relay_enable
    <3>2. [catalog[p] EXCEPT !.enabled = TRUE] \in Rows
      BY <2>1 DEF Rows
    <3> QED  BY <1>3, <2>1, <3>1, <3>2
  <2>3. CASE relay_disable(p)
    <3>1. catalog' = [catalog EXCEPT ![p] = [catalog[p] EXCEPT !.enabled = FALSE]]
      BY <2>3 DEF relay_disable
    <3>2. [catalog[p] EXCEPT !.enabled = FALSE] \in Rows
      BY <2>1 DEF Rows
    <3> QED  BY <1>3, <2>1, <3>1, <3>2
  <2>4. ASSUME NEW t \in Tenants, relay_set_tenant(p, t)  PROVE CatalogTypeOK'
    <3>1. catalog' = [catalog EXCEPT ![p] = [catalog[p] EXCEPT !.tenant = t]]
      BY <2>4 DEF relay_set_tenant
    <3>2. [catalog[p] EXCEPT !.tenant = t] \in Rows
      BY <2>1 DEF Rows
    <3> QED  BY <1>3, <2>1, <3>1, <3>2
  <2> QED  BY <1>4, <2>2, <2>3, <2>4
<1>5. ASSUME NEW p \in Pipelines, relay_delete(p)  PROVE CatalogTypeOK'
  BY <1>0, <1>5, WithoutIsPartial DEF relay_delete, CatalogTypeOK
<1> QED  BY <1>2, <1>4, <1>5 DEF CatalogChange

LEMMA OperatorStep ==
  ASSUME IInv, operator_acts
  PROVE  IInv'
<1>0. TypeOK /\ OwnersHoldLocks /\ LocksHaveOwners /\ PlansAreCurrent
  BY DEF IInv
<1>1. UNCHANGED <<locks, workers, relays>> /\ Disturb /\ CatalogTypeOK'
  BY <1>0, CatalogStep DEF operator_acts, TypeOK
<1>2. TypeOK'
  BY <1>0, <1>1, TroubleStep DEF TypeOK
<1>3. OwnersHoldLocks' /\ LocksHaveOwners' /\ PlansAreCurrent'
  BY <1>0, <1>1 DEF OwnersHoldLocks, LocksHaveOwners, PlansAreCurrent, Owning, Unfinished
<1> QED  BY <1>2, <1>3 DEF IInv

-----------------------------------------------------------------------------
(* The theorems.                                                            *)

LEMMA Initially == Init => IInv
<1> SUFFICES ASSUME Init  PROVE IInv
  OBVIOUS
<1>1. CatalogTypeOK
  <2>1. PICK c \in Resolvable \cap Preflighted :
            catalog = [p \in Pipelines |->
                          [enabled |-> TRUE, config |-> c, tenant |-> DefaultTenant]]
    BY DEF Init
  <2>2. [enabled |-> TRUE, config |-> c, tenant |-> DefaultTenant] \in Rows
    BY ConfigsAssumption, DefaultTenantAssumption DEF Rows
  <2>3. catalog \in [Pipelines -> Rows] /\ DOMAIN catalog = Pipelines
    BY <2>1, <2>2
  <2> QED  BY <2>3, PartialIntro DEF CatalogTypeOK
<1>2. /\ locks = Empty /\ workers = [r \in Relays |-> Empty]
      /\ relays = [r \in Relays |-> Process("idle")] /\ trouble = 0
  BY DEF Init
<1>3. locks \in Partial(Keys, [relay : Relays, attached : BOOLEAN])
  BY <1>2, EmptyIsPartial
<1>4. workers \in [Relays -> Partial(Pipelines, Workers)]
  <2>1. Empty \in Partial(Pipelines, Workers)
    BY EmptyIsPartial
  <2> QED  BY <1>2, <2>1
<1>5. relays \in [Relays -> Processes]
  <2>1. Empty \in Partial(Pipelines, Plans)
    BY EmptyIsPartial
  <2>2. Process("idle") \in Processes
    BY <2>1 DEF Process, Processes
  <2> QED  BY <1>2, <2>2
<1>6. TypeOK
  BY <1>1, <1>2, <1>3, <1>4, <1>5, TroubleAssumption DEF TypeOK
<1>7. OwnersHoldLocks /\ LocksHaveOwners
  BY <1>2, EmptyHasNoDomain DEF OwnersHoldLocks, LocksHaveOwners, Owning, Unfinished
<1>8. PlansAreCurrent
  BY <1>2, EmptyHasNoDomain DEF PlansAreCurrent, Process
<1> QED  BY <1>6, <1>7, <1>8 DEF IInv

\* Steps that end a worker.
LEMMA WorkerEnds ==
  ASSUME IInv, NEW r \in Relays, NEW p \in Pipelines,
         \/ worker_stops(r, p) \/ ownership_lost(r, p)
         \/ worker_fails(r, p) \/ worker_panics(r, p)
  PROVE  IInv'
<1>1. /\ p \in Unfinished(r)
      /\ workers' = SetPhase(r, p, "finished") /\ locks' = Detached(r, {p})
      /\ relays' = relays \/ relays' = [relays EXCEPT ![r].unhealthy = @ \cup {p}]
      /\ catalog' = catalog /\ (trouble' = trouble \/ Disturb)
  BY DEF worker_stops, ownership_lost, worker_fails, worker_panics, Finishes, Unfinished
<1>2. trouble' \in 0 .. MaxTrouble
  BY <1>1, TroubleStep
<1> QED  BY <1>1, <1>2, FinishStep

\* What the locks, the workers and the plans of all relays have to do with each
\* other is kept by every step of relays, sessions and operators.
THEOREM Inductive == Spec => []IInv
<1>1. IInv /\ [Next]_vars => IInv'
  <2> SUFFICES ASSUME IInv, [Next]_vars  PROVE IInv'
    OBVIOUS
  <2>1. ASSUME NEW r \in Relays, Reconcile(r) \/ start(r)  PROVE IInv'
    BY <2>1, LoadStep, StopStep, ForgetStep, AbortOneStep, PlanShrinks, AcquireStep, LoopStep
       DEF Reconcile, limit_reached
  <2>2. ASSUME NEW r \in Relays, NEW p \in Pipelines, WorkerSteps(r, p)  PROVE IInv'
    BY <2>2, WorkerEnds, HealthStep DEF WorkerSteps
  <2>3. ASSUME NEW k \in Keys, session_closes(k)  PROVE IInv'
    BY <2>3, SessionClosesStep
  <2>4. CASE operator_acts
    BY <2>4, OperatorStep
  <2>5. CASE Faults
    BY <2>5, SessionLostStep, LoadStep, DrainStep, CrashStep, WorkerEnds, HealthStep,
       PlanShrinks DEF Faults
  <2>6. CASE UNCHANGED vars
    BY <2>6 DEF vars, IInv, TypeOK, CatalogTypeOK, OwnersHoldLocks, LocksHaveOwners,
       PlansAreCurrent, Owning, Unfinished
  <2> QED  BY <2>1, <2>2, <2>3, <2>4, <2>5, <2>6 DEF Next
<1> QED  BY <1>1, Initially, PTL DEF Spec

\* Two relays never both run a pipeline of one tenant with a live session,
\* however their reconciles, crashes, lost sessions and the operators interleave.
THEOREM OneLiveOwnerHolds == Spec => []OneLiveOwner
<1>1. IInv => OneLiveOwner
  <2> SUFFICES ASSUME IInv, NEW r1 \in Relays, NEW r2 \in Relays,
                      NEW p \in Owning(r1) \cap Owning(r2),
                      workers[r1][p].tenant = workers[r2][p].tenant
               PROVE  r1 = r2
    BY DEF OneLiveOwner
  <2>1. OwnersHoldLocks
    BY DEF IInv
  <2>2. Key(workers[r1][p], p) = Key(workers[r2][p], p)
    BY DEF Key
  <2>3. [relay |-> r1, attached |-> TRUE] = [relay |-> r2, attached |-> TRUE]
    <3> HIDE DEF Owning
    <3> QED  BY <2>1, <2>2 DEF OwnersHoldLocks
  <2> QED  BY <2>3
<1> QED  BY <1>1, Inductive, PTL

-----------------------------------------------------------------------------
(* The limit on owned pipelines.                                            *)

\* A step of a worker or of its session leaves every relay's handles where
\* they are: only a reconcile, a drain or a crash takes handles out.
LEMMA HandlesStay ==
  ASSUME TypeOK, NEW r \in Relays, NEW p \in DOMAIN workers[r],
         \/ \E ph \in {"running", "stopping", "finished"} : workers' = SetPhase(r, p, ph)
         \/ workers' = SetLost(r, p)
  PROVE  \A s \in Relays : DOMAIN workers'[s] \subseteq DOMAIN workers[s]
  BY PhaseChange, LostChange

\* Only an acquisition adds a handle.
LEMMA HandlesShrink ==
  ASSUME IInv, [Next]_vars,
         ~ \E r \in Relays, p \in Pipelines : try_acquire_ownership(r, p)
  PROVE  \A s \in Relays : DOMAIN workers'[s] \subseteq DOMAIN workers[s]
<1> DEFINE Shrink == \A s \in Relays : DOMAIN workers'[s] \subseteq DOMAIN workers[s]
<1>0. TypeOK /\ workers \in [Relays -> Partial(Pipelines, Workers)]
  BY Typed DEF IInv
<1>1. ASSUME NEW r \in Relays, NEW X, workers' = [workers EXCEPT ![r] = Without(@, X)]
      PROVE  Shrink
  <2>1. /\ \A s \in Relays : s # r => workers'[s] = workers[s]
        /\ DOMAIN workers'[r] = DOMAIN workers[r] \ X
    BY <1>0, <1>1, WorkersForgotten
  <2> QED  BY <2>1
<1>2. ASSUME workers' = workers  PROVE Shrink
  BY <1>2
<1>3. ASSUME NEW r \in Relays, NEW p \in Pipelines, Finishes(r, p) \/ worker_panics(r, p),
             p \in DOMAIN workers[r]
      PROVE  Shrink
  BY <1>0, <1>3, HandlesStay DEF Finishes, worker_panics
<1>4. ASSUME NEW r \in Relays, Reconcile(r) \/ start(r)  PROVE Shrink
  <2>1. CASE load_pipelines(r)
    BY <1>1, <2>1 DEF load_pipelines, Reap
  <2>2. ASSUME NEW p \in Pipelines, stop_removed(r, p)  PROVE Shrink
    <3>1. p \in DOMAIN workers[r]
      BY <2>2, PlanOf DEF stop_removed
    <3> QED  BY <1>0, <2>2, <3>1, HandlesStay DEF stop_removed
  <2>3. ASSUME NEW p \in Pipelines, forget_stopped(r, p) \/ abort(r, p)  PROVE Shrink
    BY <1>1, <2>3 DEF forget_stopped, abort
  <2>4. CASE \/ \E p \in Pipelines : skip_pipeline(r, p)
             \/ limit_reached(r) \/ end_reconcile(r) \/ exit(r) \/ start(r)
    BY <1>2, <2>4 DEF skip_pipeline, limit_reached, end_reconcile, exit, start
  <2> QED  BY <1>4, <2>1, <2>2, <2>3, <2>4 DEF Reconcile
<1>5. ASSUME NEW r \in Relays, NEW p \in Pipelines, WorkerSteps(r, p)  PROVE Shrink
  <2>1. CASE worker_stops(r, p) \/ ownership_lost(r, p)
    BY <1>3, <2>1 DEF worker_stops, ownership_lost, Unfinished
  <2>2. CASE publish_succeeds(r, p)
    BY <1>2, <2>2 DEF publish_succeeds
  <2> QED  BY <1>5, <2>1, <2>2 DEF WorkerSteps
<1>6. CASE operator_acts \/ \E k \in Keys : session_closes(k)
  BY <1>2, <1>6 DEF operator_acts, session_closes
<1>7. ASSUME NEW k \in Keys, session_lost(k)  PROVE Shrink
  <2>1. /\ locks[k].relay \in Relays /\ k[2] \in DOMAIN workers[locks[k].relay]
        /\ workers' = SetLost(locks[k].relay, k[2])
    BY <1>0, <1>7, Typed DEF session_lost, IInv, LocksHaveOwners, Owning, Unfinished
  <2> QED  BY <1>0, <2>1, HandlesStay
<1>8. ASSUME NEW r \in Relays, load_fails(r) \/ shut_down(r) \/ crash(r)  PROVE Shrink
  <2>1. CASE load_fails(r)
    BY <1>1, <2>1 DEF load_fails, Reap
  <2>2. CASE shut_down(r)
    <3>1. PICK ws : workers' = [workers EXCEPT ![r] = ws] /\ DOMAIN ws = DOMAIN workers[r]
      BY <1>0, <2>2 DEF shut_down
    <3> QED  BY <1>0, <3>1
  <2>3. CASE crash(r)
    BY <1>0, <2>3, EmptyHasNoDomain DEF crash
  <2> QED  BY <1>8, <2>1, <2>2, <2>3
<1>9. ASSUME NEW r \in Relays, NEW p \in Pipelines,
             \/ worker_fails(r, p) \/ worker_panics(r, p)
             \/ publish_fails(r, p) \/ acquisition_fails(r, p)
      PROVE  Shrink
  <2>1. CASE worker_fails(r, p) \/ worker_panics(r, p)
    BY <1>3, <2>1 DEF worker_fails, worker_panics, Unfinished
  <2>2. CASE publish_fails(r, p) \/ acquisition_fails(r, p)
    BY <1>2, <2>2 DEF publish_fails, acquisition_fails
  <2> QED  BY <1>9, <2>1, <2>2
<1>10. CASE UNCHANGED vars
  BY <1>2, <1>10 DEF vars
<1>11. CASE Faults
  BY <1>7, <1>8, <1>9, <1>11 DEF Faults
<1> QED  BY <1>4, <1>5, <1>6, <1>10, <1>11 DEF Next

\* A relay never holds more handles than max_owned_pipelines: a reconcile asks
\* for room before each acquisition, and no other step adds a handle.  That the
\* handles are finitely many is part of the induction, because Cardinality says
\* nothing of other sets.
THEOREM WithinLimitHolds == Spec => []WithinLimit
<1> DEFINE Held(r) == DOMAIN workers[r]
           Bounded == \A r \in Relays : IsFiniteSet(Held(r)) /\ Cardinality(Held(r)) <= Limit[r]
<1>1. Init => Bounded
  <2> SUFFICES ASSUME Init, NEW r \in Relays
               PROVE  IsFiniteSet(Held(r)) /\ Cardinality(Held(r)) <= Limit[r]
    OBVIOUS
  <2>1. Held(r) = {}
    BY EmptyHasNoDomain DEF Init
  <2> QED  BY <2>1, FS_EmptySet, LimitAssumption
<1>2. IInv /\ Bounded /\ [Next]_vars => Bounded'
  <2> SUFFICES ASSUME IInv, Bounded, [Next]_vars, NEW s \in Relays
               PROVE  IsFiniteSet(Held(s)') /\ Cardinality(Held(s)') <= Limit[s]
    OBVIOUS
  <2>1. /\ IsFiniteSet(Held(s)) /\ Cardinality(Held(s)) <= Limit[s]
        /\ Cardinality(Held(s)) \in Nat /\ Limit[s] \in Nat
    BY FS_CardinalityType, LimitAssumption
  <2>2. ASSUME Held(s)' \subseteq Held(s)
        PROVE  IsFiniteSet(Held(s)') /\ Cardinality(Held(s)') <= Limit[s]
    <3>1. /\ IsFiniteSet(Held(s)') /\ Cardinality(Held(s)') <= Cardinality(Held(s))
          /\ Cardinality(Held(s)') \in Nat
      BY <2>1, <2>2, FS_Subset, FS_CardinalityType
    <3> QED  BY <2>1, <3>1
  <2>3. ASSUME NEW r \in Relays, NEW p \in Pipelines, try_acquire_ownership(r, p)
        PROVE  IsFiniteSet(Held(s)') /\ Cardinality(Held(s)') <= Limit[s]
    <3>1. workers \in [Relays -> Partial(Pipelines, Workers)]
      BY Typed DEF IInv
    <3>2. CASE s # r
      <4>1. workers'[s] = workers[s]
        BY <2>3, <3>1, <3>2 DEF try_acquire_ownership
      <4> QED  BY <2>2, <4>1
    <3>3. CASE s = r
      <4>1. Cardinality(Held(s)) < Limit[s]
        BY <2>3, <3>3 DEF try_acquire_ownership, HasRoom
      <4>2. Held(s)' = Held(s) \cup {p}
        <5>1. PICK w : workers' = [workers EXCEPT ![r] = With(@, p, w)]
          BY <2>3 DEF try_acquire_ownership
        <5>2. workers'[r] = With(workers[r], p, w)
          BY <3>1, <5>1
        <5>3. DOMAIN With(workers[r], p, w) = DOMAIN workers[r] \cup {p}
          BY WithValues
        <5>4. DOMAIN workers'[s] = DOMAIN workers[s] \cup {p}
          BY <3>3, <5>2, <5>3
        <5> QED  BY <5>4
      <4> HIDE DEF Held
      <4>3. /\ IsFiniteSet(Held(s) \cup {p})
            /\ Cardinality(Held(s) \cup {p}) \in {Cardinality(Held(s)), Cardinality(Held(s)) + 1}
        BY <2>1, FS_AddElement
      <4> QED  BY <2>1, <4>1, <4>2, <4>3
    <3> QED  BY <3>2, <3>3
  <2> HIDE DEF Bounded
  <2>4. CASE ~ \E r \in Relays, p \in Pipelines : try_acquire_ownership(r, p)
    BY <2>2, <2>4, HandlesShrink
  <2> QED  BY <2>3, <2>4
<1>3. Bounded => WithinLimit
  BY DEF WithinLimit
<1> HIDE DEF Bounded
<1> QED  BY <1>1, <1>2, <1>3, Inductive, PTL DEF Spec

=============================================================================
