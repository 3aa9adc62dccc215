---------------------------- MODULE Coordinator ----------------------------
(***************************************************************************)
(* The coordinators of a relay group (pg-tide-relay/src/coordinator.rs and *)
(* the daemon part of main.rs).  Every relay process reconciles the        *)
(* workers it runs with the catalog, again and again: it loads the enabled *)
(* rows, stops the workers of rows that are gone, and tries to take the    *)
(* advisory lock of each other pipeline; the lock lives on a PostgreSQL    *)
(* session of its own, which the new worker keeps.  Operators change the   *)
(* catalog, workers fail, sessions end and processes crash in between.     *)
(*                                                                         *)
(* Simplifications: the work of a worker is in RelayWorker.tla; here it    *)
(* runs, is asked to stop, or is finished.  A lock key is a pair of tenant *)
(* and pipeline: hash collisions of hashtext() are left out.               *)
(***************************************************************************)
EXTENDS Catalog

CONSTANTS
    Relays,         \* relay processes of one group
    Limit,          \* max_owned_pipelines of each relay
    TenantOf,       \* the tenant a relay serves, or NoTenant for all
    NoTenant,
    Preflighted,    \* configurations that pass the startup preflight
    Resolvable,     \* configurations whose secrets resolve
    MaxTrouble      \* bound: catalog changes, failures and crashes

ASSUME LimitAssumption == Limit \in [Relays -> Nat]
ASSUME TenantAssumption == TenantOf \in [Relays -> Tenants \cup {NoTenant}]
ASSUME ConfigsAssumption == Preflighted \subseteq Configs /\ Resolvable \subseteq Configs
ASSUME TroubleAssumption == MaxTrouble \in Nat

VARIABLES
    locks,          \* advisory locks held: the relay, and whether the client
                    \* of the session still exists
    workers,        \* per relay: its map `owned` of pipelines to worker tasks
    relays,         \* per relay: where its main loop is, and its HealthState
    trouble         \* disturbances so far

vars == <<catalog, locks, workers, relays, trouble>>

Keys == Tenants \X Pipelines
Plans == [config : Configs, tenant : Tenants]
Workers == [phase : {"running", "stopping", "finished"}, config : Configs,
            tenant : Tenants, lost : BOOLEAN]

Empty == <<>>
Process(at) == [pc |-> at, stops |-> {}, plan |-> Empty,
                ready |-> FALSE, unhealthy |-> {}]
Key(w, p) == <<w.tenant, p>>
Unfinished(r) == {p \in DOMAIN workers[r] : workers[r][p].phase # "finished"}

Init ==
    /\ \E c \in Resolvable \cap Preflighted :
           catalog = [p \in Pipelines |->
                         [enabled |-> TRUE, config |-> c, tenant |-> DefaultTenant]]
    /\ locks = Empty
    /\ workers = [r \in Relays |-> Empty]
    /\ relays = [r \in Relays |-> Process("idle")]
    /\ trouble = 0

SetPhase(r, p, phase) == [workers EXCEPT ![r][p].phase = phase]
SetLost(r, p) == [workers EXCEPT ![r][p].lost = TRUE]

Disturb == trouble < MaxTrouble /\ trouble' = trouble + 1

-----------------------------------------------------------------------------
(* Sessions.  A worker drops its client when it ends; the server notices   *)
(* later and only then lets the lock go.                                   *)

\* The locks after the workers ws of relay r dropped their clients.
Detached(r, ws) ==
    [k \in DOMAIN locks |->
        IF /\ locks[k].relay = r
           /\ \E p \in ws : k = Key(workers[r][p], p) /\ ~workers[r][p].lost
        THEN [locks[k] EXCEPT !.attached = FALSE]
        ELSE locks[k]]

\* The server ends a session whose client is gone.
session_closes(k) ==
    /\ k \in DOMAIN locks
    /\ ~locks[k].attached
    /\ locks' = Without(locks, {k})
    /\ UNCHANGED <<catalog, workers, relays, trouble>>

\* The server ends the session under a running worker, which hears of it later.
session_lost(k) ==
    /\ Disturb
    /\ k \in DOMAIN locks
    /\ locks[k].attached
    /\ locks' = Without(locks, {k})
    /\ workers' = SetLost(locks[k].relay, k[2])
    /\ UNCHANGED <<catalog, relays>>

-----------------------------------------------------------------------------
(* The worker task.                                                        *)

\* A worker task ends and leaves a finished handle in `owned`.
Finishes(r, p) ==
    /\ workers' = SetPhase(r, p, "finished")
    /\ locks' = Detached(r, {p})
    /\ relays' = [relays EXCEPT ![r].unhealthy = @ \cup {p}]
    /\ UNCHANGED catalog

\* The worker obeys the stop signal after its batch.
worker_stops(r, p) ==
    /\ p \in DOMAIN workers[r]
    /\ workers[r][p].phase = "stopping"
    /\ Finishes(r, p)
    /\ UNCHANGED trouble

\* The monitor of the ownership session cancels the worker.
ownership_lost(r, p) ==
    /\ p \in Unfinished(r)
    /\ workers[r][p].lost
    /\ Finishes(r, p)
    /\ UNCHANGED trouble

\* A permanent failure ends the worker.
worker_fails(r, p) ==
    /\ Disturb
    /\ p \in Unfinished(r)
    /\ Finishes(r, p)

\* A panic ends it, too, and leaves the health state as it is.
worker_panics(r, p) ==
    /\ Disturb
    /\ p \in Unfinished(r)
    /\ workers' = SetPhase(r, p, "finished")
    /\ locks' = Detached(r, {p})
    /\ UNCHANGED <<catalog, relays>>

publish_fails(r, p) ==
    /\ Disturb
    /\ p \in Unfinished(r) \ relays[r].unhealthy
    /\ relays' = [relays EXCEPT ![r].unhealthy = @ \cup {p}]
    /\ UNCHANGED <<catalog, locks, workers>>

publish_succeeds(r, p) ==
    /\ p \in Unfinished(r)
    /\ p \in relays[r].unhealthy
    /\ relays' = [relays EXCEPT ![r].unhealthy = @ \ {p}]
    /\ UNCHANGED <<catalog, locks, workers, trouble>>

-----------------------------------------------------------------------------
(* reconcile().                                                            *)

\* The enabled rows that the relay's query returns.
Visible(r) ==
    [p \in {q \in DOMAIN catalog : /\ catalog[q].enabled
                                   /\ TenantOf[r] \in {NoTenant, catalog[q].tenant}}
        |-> [config |-> catalog[p].config, tenant |-> catalog[p].tenant]]

\* Mutant of Finished: the workers that ended are not looked for.
NotReaped(r) == {}

\* The workers whose handles are finished, which a reconcile forgets first.
Finished(r) == DOMAIN workers[r] \ Unfinished(r)
Reap(r) == workers' = [workers EXCEPT ![r] = Without(@, Finished(r))]

\* The catalog cannot be read.
load_fails(r) ==
    /\ Disturb
    /\ relays[r].pc = "idle"
    /\ Reap(r)
    /\ relays' = [relays EXCEPT ![r].ready = FALSE]
    /\ UNCHANGED <<catalog, locks>>

\* Mutant of load_pipelines: nothing is stopped.
LoadOnlyStarts(r) ==
    /\ relays[r].pc = "idle"
    /\ Reap(r)
    /\ LET rows == Visible(r)
       IN  IF \A p \in DOMAIN rows : rows[p].config \in Preflighted
           THEN relays' = [relays EXCEPT ![r].pc = "reconciling",
                               ![r].plan = Without(rows, Unfinished(r))]
           ELSE relays' = [relays EXCEPT ![r].ready = FALSE]
    /\ UNCHANGED <<catalog, locks, trouble>>

\* Load, then preflight every row: one row that fails it ends the reconcile.
load_pipelines(r) ==
    /\ relays[r].pc = "idle"
    /\ Reap(r)
    /\ LET rows == Visible(r)
           owned == Unfinished(r)
       IN  IF \A p \in DOMAIN rows : rows[p].config \in Preflighted
           THEN relays' = [relays EXCEPT ![r].pc = "reconciling",
                               ![r].stops = owned \ DOMAIN rows,
                               ![r].plan = Without(rows, owned)]
           ELSE relays' = [relays EXCEPT ![r].ready = FALSE]
    /\ UNCHANGED <<catalog, locks, trouble>>

\* One removed pipeline at a time gets the stop signal ...
stop_removed(r, p) ==
    /\ relays[r].pc = "reconciling"
    /\ p \in relays[r].stops
    /\ workers[r][p].phase = "running"
    /\ \A q \in relays[r].stops : workers[r][q].phase # "stopping"
    /\ workers' = SetPhase(r, p, "stopping")
    /\ UNCHANGED <<catalog, locks, relays, trouble>>

\* ... and leaves `owned` when its task has ended ...
forget_stopped(r, p) ==
    /\ \/ relays[r].pc = "reconciling" /\ p \in relays[r].stops
       \/ relays[r].pc = "draining" /\ p \in DOMAIN workers[r]
    /\ workers[r][p].phase = "finished"
    /\ workers' = [workers EXCEPT ![r] = Without(@, {p})]
    /\ relays' = [relays EXCEPT ![r].stops = @ \ {p}]
    /\ UNCHANGED <<catalog, locks, trouble>>

\* Mutants of abort: the handle is dropped but the task goes on; the drain waits
\* without a deadline.
AbortLetsGo(r, p) ==
    /\ \/ relays[r].pc = "reconciling" /\ p \in relays[r].stops
       \/ relays[r].pc = "draining" /\ p \in DOMAIN workers[r]
    /\ workers[r][p].phase = "stopping"
    /\ workers' = [workers EXCEPT ![r] = Without(@, {p})]
    /\ relays' = [relays EXCEPT ![r].stops = @ \ {p}]
    /\ UNCHANGED <<catalog, locks, trouble>>
AbortNotDraining(r, p) == relays[r].pc = "reconciling" /\ AbortLetsGo(r, p)

\* ... or the timeout passed and the task was aborted.
abort(r, p) ==
    /\ \/ relays[r].pc = "reconciling" /\ p \in relays[r].stops
       \/ relays[r].pc = "draining" /\ p \in DOMAIN workers[r]
    /\ workers[r][p].phase = "stopping"
    /\ workers' = [workers EXCEPT ![r] = Without(@, {p})]
    /\ locks' = Detached(r, {p})
    /\ relays' = [relays EXCEPT ![r].stops = @ \ {p}]
    /\ UNCHANGED <<catalog, trouble>>

Starting(r, p) ==
    /\ relays[r].pc = "reconciling"
    /\ relays[r].stops = {}
    /\ p \in DOMAIN relays[r].plan

\* Mutant of HasRoom: one too many.
RoomForOneMore(r) == Cardinality(DOMAIN workers[r]) <= Limit[r]

HasRoom(r) == Cardinality(DOMAIN workers[r]) < Limit[r]

\* The limit ends the loop over the pipelines.
limit_reached(r) ==
    /\ \E p \in Pipelines : Starting(r, p)
    /\ ~HasRoom(r)
    /\ relays' = [relays EXCEPT ![r].plan = Empty]
    /\ UNCHANGED <<catalog, locks, workers, trouble>>

\* Secrets that do not resolve, or a lock that is held, skip the pipeline.
skip_pipeline(r, p) ==
    /\ Starting(r, p)
    /\ HasRoom(r)
    /\ \/ relays[r].plan[p].config \notin Resolvable
       \/ Key(relays[r].plan[p], p) \in DOMAIN locks
    /\ relays' = [relays EXCEPT ![r].plan = Without(@, {p})]
    /\ UNCHANGED <<catalog, locks, workers, trouble>>

\* The session that the lock would live on cannot be opened.
acquisition_fails(r, p) ==
    /\ Disturb
    /\ Starting(r, p)
    /\ HasRoom(r)
    /\ relays[r].plan[p].config \in Resolvable
    /\ relays' = [relays EXCEPT ![r].plan = Without(@, {p})]
    /\ UNCHANGED <<catalog, locks, workers>>

\* Mutant of try_acquire_ownership: the answer of the lock function is ignored.
AcquireAnyway(r, p) ==
    LET row == relays[r].plan[p]
    IN  /\ Starting(r, p)
        /\ HasRoom(r)
        /\ row.config \in Resolvable
        /\ locks' = With(locks, Key(row, p), [relay |-> r, attached |-> TRUE])
        /\ workers' = [workers EXCEPT ![r] =
               With(@, p, [phase |-> "running", config |-> row.config,
                           tenant |-> row.tenant, lost |-> FALSE])]
        /\ relays' = [relays EXCEPT ![r].plan = Without(@, {p}),
                                    ![r].unhealthy = @ \ {p}]
        /\ UNCHANGED <<catalog, trouble>>

\* The lock is free: its session becomes the worker's.
try_acquire_ownership(r, p) ==
    LET row == relays[r].plan[p]
    IN  /\ Starting(r, p)
        /\ HasRoom(r)
        /\ row.config \in Resolvable
        /\ Key(row, p) \notin DOMAIN locks
        /\ locks' = With(locks, Key(row, p), [relay |-> r, attached |-> TRUE])
        /\ workers' = [workers EXCEPT ![r] =
               With(@, p, [phase |-> "running", config |-> row.config,
                           tenant |-> row.tenant, lost |-> FALSE])]
        /\ relays' = [relays EXCEPT ![r].plan = Without(@, {p}),
                                    ![r].unhealthy = @ \ {p}]
        /\ UNCHANGED <<catalog, trouble>>


\* The health state forgets pipelines that the relay no longer owns.
end_reconcile(r) ==
    /\ relays[r].pc = "reconciling"
    /\ relays[r].stops = {}
    /\ relays[r].plan = Empty
    /\ relays' = [relays EXCEPT ![r].pc = "idle", ![r].ready = TRUE,
                                ![r].unhealthy = @ \cap DOMAIN workers[r]]
    /\ UNCHANGED <<catalog, locks, workers, trouble>>

-----------------------------------------------------------------------------
(* The process.                                                            *)

\* The shutdown signal is read between two reconciles; drain() then signals
\* every worker and waits for each until the deadline.
shut_down(r) ==
    /\ Disturb
    /\ relays[r].pc = "idle"
    /\ relays' = [relays EXCEPT ![r].pc = "draining"]
    /\ workers' = [workers EXCEPT ![r] = [p \in DOMAIN @ |->
           IF @[p].phase = "running" THEN [@[p] EXCEPT !.phase = "stopping"]
                                     ELSE @[p]]]
    /\ UNCHANGED <<catalog, locks>>

\* The process ends when nothing is left to drain.
exit(r) ==
    /\ relays[r].pc = "draining"
    /\ workers[r] = Empty
    /\ relays' = [relays EXCEPT ![r] = Process("down")]
    /\ UNCHANGED <<catalog, locks, workers, trouble>>

crash(r) ==
    /\ Disturb
    /\ relays[r].pc # "down"
    /\ locks' = Detached(r, Unfinished(r))
    /\ workers' = [workers EXCEPT ![r] = Empty]
    /\ relays' = [relays EXCEPT ![r] = Process("down")]
    /\ UNCHANGED catalog

\* The daemon passed its checks and is about to reconcile for the first time.
start(r) ==
    /\ relays[r].pc = "down"
    /\ relays' = [relays EXCEPT ![r] = Process("idle")]
    /\ UNCHANGED <<catalog, locks, workers, trouble>>

operator_acts ==
    /\ Disturb
    /\ CatalogChange
    /\ catalog' # catalog
    /\ UNCHANGED <<locks, workers, relays>>

-----------------------------------------------------------------------------

Reconcile(r) ==
    \/ load_pipelines(r)
    \/ \E p \in Pipelines : \/ stop_removed(r, p)
                            \/ forget_stopped(r, p)
                            \/ abort(r, p)
                            \/ skip_pipeline(r, p)
                            \/ try_acquire_ownership(r, p)
    \/ limit_reached(r)
    \/ end_reconcile(r)
    \/ exit(r)

WorkerSteps(r, p) ==
    \/ worker_stops(r, p)
    \/ ownership_lost(r, p)
    \/ publish_succeeds(r, p)

Faults ==
    \/ \E k \in Keys : session_lost(k)
    \/ \E r \in Relays : load_fails(r) \/ shut_down(r) \/ crash(r)
    \/ \E r \in Relays, p \in Pipelines : \/ worker_fails(r, p)
                                          \/ worker_panics(r, p)
                                          \/ publish_fails(r, p)
                                          \/ acquisition_fails(r, p)

Next ==
    \/ \E r \in Relays : Reconcile(r) \/ start(r)
    \/ \E r \in Relays, p \in Pipelines : WorkerSteps(r, p)
    \/ \E k \in Keys : session_closes(k)
    \/ operator_acts
    \/ Faults

Spec == Init /\ [][Next]_vars

\* A running process goes on reconciling (the discovery timer), hears of a lost
\* session and closes dropped ones; a sink accepts in the end.  Nothing promises
\* that a worker obeys the stop signal: the timeout does without.
Fairness ==
    /\ \A r \in Relays : WF_vars(Reconcile(r))
    /\ \A r \in Relays, p \in Pipelines : /\ WF_vars(ownership_lost(r, p))
                                          /\ WF_vars(publish_succeeds(r, p))
    /\ \A k \in Keys : WF_vars(session_closes(k))

FairSpec == Spec /\ Fairness

-----------------------------------------------------------------------------
(* Safety.                                                                 *)

Processes == [pc : {"idle", "reconciling", "draining", "down"},
              stops : SUBSET Pipelines, plan : Partial(Pipelines, Plans),
              ready : BOOLEAN, unhealthy : SUBSET Pipelines]

\* Every variable of the coordinators has its type.
TypeOK ==
    /\ CatalogTypeOK
    /\ locks \in Partial(Keys, [relay : Relays, attached : BOOLEAN])
    /\ workers \in [Relays -> Partial(Pipelines, Workers)]
    /\ relays \in [Relays -> Processes]
    /\ trouble \in 0 .. MaxTrouble

\* The workers that still have the session their lock lives on.
Owning(r) == {p \in Unfinished(r) : ~workers[r][p].lost}

\* A worker that runs with its session holds the lock of its pipeline ...
OwnersHoldLocks ==
    \A r \in Relays : \A p \in Owning(r) :
        LET k == Key(workers[r][p], p)
        IN  k \in DOMAIN locks /\ locks[k] = [relay |-> r, attached |-> TRUE]

\* ... and a lock whose session has a client belongs to such a worker.
LocksHaveOwners ==
    \A k \in DOMAIN locks :
        locks[k].attached =>
            /\ k[2] \in Owning(locks[k].relay)
            /\ workers[locks[k].relay][k[2]].tenant = k[1]

\* What a reconcile still has to do is consistent with what the relay owns:
\* pipelines to stop are owned, pipelines to start are not.
PlansAreCurrent ==
    \A r \in Relays :
        /\ relays[r].stops \subseteq DOMAIN workers[r]
        /\ DOMAIN relays[r].plan \cap DOMAIN workers[r] = {}
        /\ relays[r].pc # "reconciling" =>
               relays[r].stops = {} /\ relays[r].plan = Empty
        /\ relays[r].pc = "down" => workers[r] = Empty

IInv == TypeOK /\ OwnersHoldLocks /\ LocksHaveOwners /\ PlansAreCurrent

\* However reconciles, lost sessions, crashes and catalog changes interleave, two
\* relays that run the same pipeline with a live session each run it for
\* different tenants (the lock key names the tenant a worker started with).
OneLiveOwner ==
    \A r1, r2 \in Relays : \A p \in Owning(r1) \cap Owning(r2) :
        r1 = r2 \/ workers[r1][p].tenant # workers[r2][p].tenant

\* A relay never holds more sessions with locks than max_owned_pipelines, those
\* of workers that are finished but not yet forgotten included.
WithinLimit ==
    \A r \in Relays : Cardinality(DOMAIN workers[r]) <= Limit[r]

-----------------------------------------------------------------------------
(* Liveness.                                                               *)

Up(r) == relays[r].pc \in {"idle", "reconciling"}

\* No row the relay sees fails the preflight.
CatalogIsValid(r) ==
    \A p \in DOMAIN Visible(r) : Visible(r)[p].config \in Preflighted

\* A relay that is up sees the pipeline, can start it and has room for all it sees.
CanServe(r, p) ==
    /\ Up(r)
    /\ CatalogIsValid(r)
    /\ p \in DOMAIN Visible(r)
    /\ Visible(r)[p].config \in Resolvable
    /\ Cardinality(DOMAIN Visible(r)) <= Limit[r]

\* A pipeline that a relay could run is run in the end, by that relay or another:
\* full relays, stale locks and failed workers do not leave it without an owner.
EnabledPipelinesRun ==
    \A r \in Relays, p \in Pipelines :
        <>[]CanServe(r, p) => <>[](\E o \in Relays : p \in Owning(o))

\* A pipeline that was disabled, deleted or given to another tenant is stopped,
\* and its lock does not stay behind.
DisabledPipelinesStop ==
    \A r \in Relays, p \in Pipelines :
        <>[](Up(r) /\ CatalogIsValid(r) /\ p \notin DOMAIN Visible(r))
            => <>[](/\ p \notin DOMAIN workers[r]
                    /\ \A t \in Tenants :
                          <<t, p>> \in DOMAIN locks => locks[<<t, p>>].relay # r)


\* A drain ends, whatever its workers do, and no lock outlives the process.
DrainEnds ==
    \A r \in Relays :
        /\ relays[r].pc = "draining" ~> relays[r].pc = "down"
        /\ <>[](relays[r].pc = "down")
              => <>[](\A k \in DOMAIN locks : locks[k].relay # r)

\* What docs/src/features/config-reload.md says of a modified pipeline: its worker
\* is restarted, so that in the end none runs with an old configuration.
ModifiedPipelinesRestart ==
    \A p \in Pipelines, c \in Preflighted \cap Resolvable :
        <>[](/\ p \in DOMAIN catalog
             /\ catalog[p].enabled /\ catalog[p].config = c
             /\ \A r \in Relays : Up(r) /\ CatalogIsValid(r))
            => <>[](\A r \in Relays :
                      p \in Unfinished(r) => workers[r][p].config = c)

=============================================================================
