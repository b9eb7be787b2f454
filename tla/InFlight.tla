------------------------------ MODULE InFlight ------------------------------
(***************************************************************************)
(* The per-worker claim budget of one app on one server: the limiter       *)
(* (tako-workflows/src/in_flight.rs), the RPC handlers that call it        *)
(* (enqueue_socket.rs), the cron ticker that reclaims leases (cron.rs) and *)
(* the manager that installs, replaces, retires and stops the runtime the  *)
(* limiter belongs to (manager.rs).                                        *)
(*                                                                         *)
(* The database is reduced to the set of claim owners whose run is in      *)
(* status `running'.  That an owner holds at most one run, and never gets  *)
(* a second one, is what module RunsDb establishes.  A lease may expire at *)
(* any time.  Database and limiter are two pieces of state under two       *)
(* mutexes, and a handler keeps using the runtime it looked up: each       *)
(* handler is therefore several steps.                                     *)
(***************************************************************************)
EXTENDS Integers, FiniteSets

CONSTANTS
    Workers,      \* worker processes; a process has one id for its life
    Owners,       \* claim owners `worker:nanoid'
    WorkerOf,     \* process_worker(owner)
    Calls,        \* RPCs that may be executing at the same time
    Concurrency,  \* WorkerSpec.concurrency
    MaxGen,       \* bound: runtimes ever built
    NULL

Gens == 1..MaxGen

ASSUME LimiterAssumption ==
    /\ IsFiniteSet(Owners) /\ WorkerOf \in [Owners -> Workers]
    /\ Concurrency \in Nat /\ MaxGen \in Nat
    /\ NULL \notin Calls /\ NULL \notin Owners /\ NULL \notin Workers

VARIABLES
    running,    \* owners of the runs in status running (the database)
    issued,     \* owners new_claim_owner has drawn
    via,        \* history: the runtime that answered with this owner's run, or 0
    gen,        \* runtimes built so far
    gaps,       \* history: why a limiter may have missed claims when it was built
    app,        \* apps[app]: the runtime in the lookup map, or 0
    cache,      \* InFlightLimiter.claims of each runtime
    lock,       \* the call that holds that mutex across its claim, or NULL
    accepting,  \* accepting_new_work of each runtime
    cron,       \* cron task of each runtime: "none", "on", "stopping"
    toRelease,  \* owners a tick has reclaimed and not yet released
    workers,    \* runtime whose supervisor runs this worker; 0 before and after
    spent,      \* worker ids that were used
    drains,     \* replaced runtimes whose drain_existing_work has yet to do so
    term,       \* runtimes whose supervisor is shutting down
    manager,    \* the management operation in progress
    call        \* the RPCs in progress

vars == <<running, issued, via, gen, gaps, app, cache, lock, accepting, cron, toRelease,
          workers, spent, drains, term, manager, call>>

dbVars      == <<running, issued, via>>
runtimeVars == <<gen, gaps, app, accepting, cron, drains, term, manager>>
childVars   == <<workers, spent>>
-----------------------------------------------------------------------------
Call == [pc : {"idle", "claim", "full", "admitted", "finish", "release"},
         gen : 0..MaxGen, worker : Workers \cup {NULL}, owner : Owners \cup {NULL}]

Idle == [pc |-> "idle", gen |-> 0, worker |-> NULL, owner |-> NULL]

(* The call c, gone on to pc. *)
At(c, pc) == [call[c] EXCEPT !.pc = pc]

(* InFlightLimiter::new: a budget of zero is clamped to one. *)
MaxPerWorker == IF Concurrency = 0 THEN 1 ELSE Concurrency

OwnersOf(S, w) == {o \in S : WorkerOf[o] = w}

(* count_worker: every entry counts 1, an owner having one run. *)
CountWorker(S, w) == Cardinality(OwnersOf(S, w))

Init ==
    /\ running = {} /\ issued = {} /\ via = [o \in Owners |-> 0]
    /\ gen = 0 /\ gaps = {} /\ app = 0
    /\ cache = [g \in Gens |-> {}]
    /\ lock = [g \in Gens |-> NULL]
    /\ accepting = [g \in Gens |-> FALSE]
    /\ cron = [g \in Gens |-> "none"]
    /\ toRelease = [g \in Gens |-> {}]
    /\ workers = [w \in Workers |-> 0] /\ spent = {} /\ drains = {} /\ term = {}
    /\ manager = [pc |-> "idle", gen |-> 0]
    /\ call = [c \in Calls |-> Idle]
-----------------------------------------------------------------------------
(* Command::ClaimRun: look the runtime up and read accepting_new_work.  The *)
(* request may be handled after the worker that sent it has exited.         *)
ClaimRun(c, w) ==
    /\ call[c].pc = "idle"
    /\ w \in spent
    /\ app # 0 /\ accepting[app]
    /\ call' = [call EXCEPT ![c] =
                  [pc |-> "claim", gen |-> app, worker |-> w, owner |-> NULL]]
    /\ UNCHANGED <<dbVars, cache, lock, toRelease, runtimeVars, childVars>>

(* Variant: the mutex is dropped between the check and the claim. *)
Admit_Unlocked(c) ==
    /\ call[c].pc = "claim"
    /\ lock[call[c].gen] = NULL
    /\ call' = [call EXCEPT ![c] = At(c,
                  IF CountWorker(cache[call[c].gen], call[c].worker) < MaxPerWorker
                    THEN "admitted" ELSE "full")]
    /\ UNCHANGED <<dbVars, cache, lock, toRelease, runtimeVars, childVars>>

(* InFlightLimiter::claim: take the mutex, compare the cached count.        *)
Admit(c) ==
    /\ call[c].pc = "claim"
    /\ lock[call[c].gen] = NULL
    /\ lock' = [lock EXCEPT ![call[c].gen] = c]
    /\ call' = [call EXCEPT ![c] = At(c,
                  IF CountWorker(cache[call[c].gen], call[c].worker) < MaxPerWorker
                    THEN "admitted" ELSE "full")]
    /\ UNCHANGED <<dbVars, cache, toRelease, runtimeVars, childVars>>

(* Variant: the count is compared before the refresh. *)
Refresh_Late(c) ==
    /\ call[c].pc = "full"
    /\ cache' = [cache EXCEPT ![call[c].gen] = running]
    /\ call' = [call EXCEPT ![c] = Idle]
    /\ lock' = [lock EXCEPT ![call[c].gen] = NULL]
    /\ UNCHANGED <<dbVars, toRelease, runtimeVars, childVars>>

(* At the cap: *claims = db.in_flight_by_worker()?, and compare again.      *)
Refresh(c) ==
    /\ call[c].pc = "full"
    /\ cache' = [cache EXCEPT ![call[c].gen] = running]
    /\ IF CountWorker(running, call[c].worker) < MaxPerWorker
         THEN /\ call' = [call EXCEPT ![c] = At(c, "admitted")]
              /\ UNCHANGED lock
         ELSE /\ call' = [call EXCEPT ![c] = Idle]
              /\ lock' = [lock EXCEPT ![call[c].gen] = NULL]
    /\ UNCHANGED <<dbVars, toRelease, runtimeVars, childVars>>

(* db.claim under a fresh owner, claims.insert, unlock; the run is answered. *)
Claim(c, o) ==
    /\ call[c].pc = "admitted"
    /\ o \notin issued /\ WorkerOf[o] = call[c].worker
    /\ running' = running \cup {o}
    /\ issued' = issued \cup {o}
    /\ via' = [via EXCEPT ![o] = call[c].gen]
    /\ cache' = [cache EXCEPT ![call[c].gen] = @ \cup {o}]
    /\ lock' = [lock EXCEPT ![call[c].gen] = NULL]
    /\ call' = [call EXCEPT ![c] = Idle]
    /\ UNCHANGED <<toRelease, runtimeVars, childVars>>

(* db.claim reports an error although Postgres committed it: the row is     *)
(* running under an owner that was neither cached nor answered.             *)
ClaimUnacknowledged(c, o) ==
    /\ call[c].pc = "admitted"
    /\ o \notin issued /\ WorkerOf[o] = call[c].worker
    /\ running' = running \cup {o}
    /\ issued' = issued \cup {o}
    /\ lock' = [lock EXCEPT ![call[c].gen] = NULL]
    /\ call' = [call EXCEPT ![c] = Idle]
    /\ UNCHANGED <<via, cache, toRelease, runtimeVars, childVars>>

(* No run is due, or a database error: Null or an error is answered.        *)
ClaimNothing(c) ==
    /\ call[c].pc \in {"admitted", "full"}
    /\ lock' = [lock EXCEPT ![call[c].gen] = NULL]
    /\ call' = [call EXCEPT ![c] = Idle]
    /\ UNCHANGED <<dbVars, cache, toRelease, runtimeVars, childVars>>

(* CompleteRun, CancelRun, FailRun, DeferRun and WaitForEvent by whoever    *)
(* was answered this owner, however late: look the runtime up.  With no     *)
(* runtime in the map the answer is "unknown app" and nothing happens.      *)
FinishRun(c, o) ==
    /\ call[c].pc = "idle"
    /\ via[o] # 0
    /\ app # 0
    /\ call' = [call EXCEPT ![c] =
                  [pc |-> "finish", gen |-> app, worker |-> NULL, owner |-> o]]
    /\ UNCHANGED <<dbVars, cache, lock, toRelease, runtimeVars, childVars>>

(* The database operation: the row leaves status running, or StaleWorker.   *)
FinishDb(c) ==
    /\ call[c].pc = "finish"
    /\ running' = running \ {call[c].owner}
    /\ call' = [call EXCEPT ![c] =
                  IF call[c].owner \in running THEN At(c, "release") ELSE Idle]
    /\ UNCHANGED <<issued, via, cache, lock, toRelease, runtimeVars, childVars>>

(* Variant: free one slot of the worker instead of this claim's slot. *)
Released_AnySlot(S, o) ==
    S \ {CHOOSE x \in OwnersOf(S, WorkerOf[o]) \cup {o} :
            OwnersOf(S, WorkerOf[o]) # {} => x \in OwnersOf(S, WorkerOf[o])}

(* InFlightLimiter::release_claim *)
Released(S, o) == S \ {o}

Release(c) ==
    /\ call[c].pc = "release"
    /\ lock[call[c].gen] = NULL
    /\ cache' = [cache EXCEPT ![call[c].gen] = Released(@, call[c].owner)]
    /\ call' = [call EXCEPT ![c] = Idle]
    /\ UNCHANGED <<dbVars, lock, toRelease, runtimeVars, childVars>>
-----------------------------------------------------------------------------
(* tick_and_reclaim: reclaim_expired_with_workers, then one release each.   *)
Reclaim(g, D) ==
    /\ cron[g] \in {"on", "stopping"} /\ toRelease[g] = {}
    /\ D # {} /\ D \subseteq running
    /\ running' = running \ D
    /\ toRelease' = [toRelease EXCEPT ![g] = D]
    /\ UNCHANGED <<issued, via, cache, lock, runtimeVars, childVars, call>>

ReclaimRelease(g, o) ==
    /\ o \in toRelease[g] /\ lock[g] = NULL
    /\ cache' = [cache EXCEPT ![g] = Released(@, o)]
    /\ toRelease' = [toRelease EXCEPT ![g] = @ \ {o}]
    /\ UNCHANGED <<dbVars, lock, runtimeVars, childVars, call>>

(* The ticker leaves its loop between two ticks. *)
CronStops(g) ==
    /\ cron[g] = "stopping" /\ toRelease[g] = {}
    /\ cron' = [cron EXCEPT ![g] = "none"]
    /\ UNCHANGED <<dbVars, cache, lock, toRelease, childVars, call,
                   gen, gaps, app, accepting, drains, term, manager>>

(* Another server on the same database reclaims: no cache here hears of it. *)
OtherServerReclaims(D) ==
    /\ D # {} /\ D \subseteq running
    /\ running' = running \ D
    /\ UNCHANGED <<issued, via, cache, lock, toRelease, runtimeVars, childVars, call>>
-----------------------------------------------------------------------------
(* Why the limiter built now may miss a claim: the rows could not be read,  *)
(* the runtime in the map still accepts work, or a call that was let        *)
(* through by an earlier runtime has yet to claim.                          *)
Gaps(unread) ==
    {x \in {"unread", "replaced", "calls"} :
        \/ x = "unread" /\ unread
        \/ x = "replaced" /\ app # 0 /\ accepting[app]
        \/ x = "calls" /\ \E c \in Calls : call[c].pc \in {"claim", "full", "admitted"}}

(* Variant: the limiter of a new runtime starts empty. *)
EnsureSnapshot_Empty ==
    /\ manager.pc = "idle" /\ gen < MaxGen
    /\ gen' = gen + 1
    /\ gaps' = gaps \cup Gaps(FALSE)
    /\ manager' = [pc |-> "snapshot", gen |-> gen + 1]
    /\ UNCHANGED <<dbVars, cache, lock, toRelease, childVars, call,
                   app, accepting, cron, drains, term>>

(* ensure: a new limiter, rehydrated from the rows that are running; on a   *)
(* read error it stays empty.                                               *)
EnsureSnapshot ==
    /\ manager.pc = "idle" /\ gen < MaxGen
    /\ gen' = gen + 1
    /\ \E unread \in BOOLEAN :
          /\ cache' = [cache EXCEPT ![gen + 1] = IF unread THEN {} ELSE running]
          /\ gaps' = gaps \cup Gaps(unread)
    /\ manager' = [pc |-> "snapshot", gen |-> gen + 1]
    /\ UNCHANGED <<dbVars, lock, toRelease, childVars, call, app, accepting, cron, drains, term>>

(* supervisor.start() fails: the runtime in the map stays.                  *)
EnsureFails ==
    /\ manager.pc = "snapshot"
    /\ manager' = [pc |-> "idle", gen |-> 0]
    /\ UNCHANGED <<dbVars, cache, lock, toRelease, childVars, call,
                   gen, gaps, app, accepting, cron, drains, term>>

(* It starts: dispatcher and cron of the new runtime are running.           *)
EnsureStarted ==
    /\ manager.pc = "snapshot"
    /\ manager' = [manager EXCEPT !.pc = "started"]
    /\ cron' = [cron EXCEPT ![manager.gen] = "on"]
    /\ UNCHANGED <<dbVars, cache, lock, toRelease, childVars, call,
                   gen, gaps, app, accepting, drains, term>>

(* apps.insert: new calls reach the new runtime.                            *)
EnsureSwap ==
    /\ manager.pc = "started"
    /\ app' = manager.gen
    /\ accepting' = [accepting EXCEPT ![manager.gen] = TRUE]
    /\ manager' = IF app = 0 THEN [pc |-> "idle", gen |-> 0]
                             ELSE [pc |-> "swapped", gen |-> app]
    /\ UNCHANGED <<dbVars, cache, lock, toRelease, childVars, call, gen, gaps, cron, drains, term>>

Stopping(g) == IF cron[g] = "on" THEN "stopping" ELSE cron[g]

(* The replaced runtime stops accepting and is drained in the background.   *)
EnsureDrainOld ==
    /\ manager.pc = "swapped"
    /\ accepting' = [accepting EXCEPT ![manager.gen] = FALSE]
    /\ cron' = [cron EXCEPT ![manager.gen] = Stopping(manager.gen)]
    /\ drains' = drains \cup {manager.gen}
    /\ manager' = [pc |-> "idle", gen |-> 0]
    /\ UNCHANGED <<dbVars, cache, lock, toRelease, childVars, call, gen, gaps, app, term>>

(* Its supervisor shuts down once its cron and dispatcher have ended.       *)
Drain(g) ==
    /\ g \in drains /\ cron[g] = "none"
    /\ drains' = drains \ {g}
    /\ term' = term \cup {g}
    /\ UNCHANGED <<dbVars, cache, lock, toRelease, childVars, call,
                   gen, gaps, app, accepting, cron, manager>>

(* retire and stop take the runtime out of the map and stop its tasks ...   *)
Remove(pc) ==
    /\ manager.pc = "idle" /\ app # 0
    /\ app' = 0
    /\ accepting' = [accepting EXCEPT ![app] = FALSE]
    /\ cron' = [cron EXCEPT ![app] = Stopping(app)]
    /\ manager' = [pc |-> pc, gen |-> app]
    /\ UNCHANGED <<dbVars, cache, lock, toRelease, childVars, call, gen, gaps, drains, term>>

Retire == Remove("retiring")
Stop   == Remove("stopping")

(* ... retire puts it back, so that its workers can finish what they have,  *)
(* and starts the graceful shutdown of its supervisor.                      *)
RetireReinsert ==
    /\ manager.pc = "retiring" /\ cron[manager.gen] = "none"
    /\ app' = manager.gen
    /\ term' = term \cup {manager.gen}
    /\ manager' = [pc |-> "idle", gen |-> 0]
    /\ UNCHANGED <<dbVars, cache, lock, toRelease, childVars, call, gen, gaps, accepting, cron,
                   drains>>

(* ... and removes it when they have gone, unless it was replaced.          *)
RetireDone ==
    /\ app \in term
    /\ \A w \in Workers : workers[w] # app
    /\ app' = 0
    /\ UNCHANGED <<dbVars, cache, lock, toRelease, childVars, call,
                   gen, gaps, accepting, cron, drains, term, manager>>

(* stop: SIGTERM, SIGKILL after the timeout: all workers are gone.          *)
StopDone ==
    /\ manager.pc = "stopping" /\ cron[manager.gen] = "none"
    /\ term' = term \cup {manager.gen}
    /\ workers' = [w \in Workers |-> IF workers[w] = manager.gen THEN 0 ELSE workers[w]]
    /\ manager' = [pc |-> "idle", gen |-> 0]
    /\ UNCHANGED <<dbVars, cache, lock, toRelease, spent, call,
                   gen, gaps, app, accepting, cron, drains>>

(* WorkerSupervisor::wake and start *)
Spawn(w, g) ==
    /\ w \notin spent
    /\ g \notin term
    /\ cron[g] # "none" \/ manager = [pc |-> "snapshot", gen |-> g]
    /\ workers' = [workers EXCEPT ![w] = g]
    /\ spent' = spent \cup {w}
    /\ UNCHANGED <<dbVars, cache, lock, toRelease, runtimeVars, call>>

WorkerExits(w) ==
    /\ workers[w] # 0
    /\ workers' = [workers EXCEPT ![w] = 0]
    /\ UNCHANGED <<dbVars, cache, lock, toRelease, spent, runtimeVars, call>>

(* The server process dies: only the database survives (no one reads the    *)
(* caches of the runtimes it had).  A worker may live on and reconnect.     *)
Crash ==
    /\ 0 < gen /\ gen < MaxGen /\ manager.pc # "down"
    /\ app' = 0
    /\ lock' = [g \in Gens |-> NULL]
    /\ accepting' = [g \in Gens |-> FALSE]
    /\ cron' = [g \in Gens |-> "none"]
    /\ toRelease' = [g \in Gens |-> {}]
    /\ drains' = {} /\ term' = {}
    /\ manager' = [pc |-> "down", gen |-> 0]
    /\ call' = [c \in Calls |-> Idle]
    /\ UNCHANGED <<dbVars, gen, gaps, cache, childVars>>

(* It comes up again and serves once `ensure' has been called. *)
Restart ==
    /\ manager.pc = "down"
    /\ manager' = [pc |-> "idle", gen |-> 0]
    /\ UNCHANGED <<dbVars, cache, lock, toRelease, childVars, call,
                   gen, gaps, app, accepting, cron, drains, term>>
-----------------------------------------------------------------------------
CallStep(c) ==
    \/ \E w \in Workers : ClaimRun(c, w)
    \/ Admit(c)
    \/ Refresh(c)
    \/ \E o \in Owners : Claim(c, o)
    \/ \E o \in Owners : ClaimUnacknowledged(c, o)
    \/ ClaimNothing(c)
    \/ \E o \in Owners : FinishRun(c, o)
    \/ FinishDb(c)
    \/ Release(c)

CronStep(g) ==
    \/ \E D \in SUBSET running : Reclaim(g, D)
    \/ \E o \in Owners : ReclaimRelease(g, o)
    \/ CronStops(g)

ManagerStep ==
    \/ EnsureSnapshot \/ EnsureFails \/ EnsureStarted \/ EnsureSwap \/ EnsureDrainOld
    \/ Retire \/ RetireReinsert \/ RetireDone
    \/ Stop \/ StopDone
    \/ \E g \in Gens : Drain(g)

Next ==
    \/ \E c \in Calls : CallStep(c)
    \/ \E g \in Gens : CronStep(g)
    \/ \E D \in SUBSET running : OtherServerReclaims(D)
    \/ ManagerStep
    \/ \E w \in Workers, g \in Gens : Spawn(w, g)
    \/ \E w \in Workers : WorkerExits(w)
    \/ Crash
    \/ Restart

Spec == Init /\ [][Next]_vars
-----------------------------------------------------------------------------
TypeOK ==
    /\ running \subseteq issued /\ issued \subseteq Owners
    /\ via \in [Owners -> 0..MaxGen]
    /\ gen \in 0..MaxGen /\ app \in 0..gen /\ gaps \subseteq {"unread", "replaced", "calls"}
    /\ cache \in [Gens -> SUBSET Owners]
    /\ lock \in [Gens -> Calls \cup {NULL}]
    /\ accepting \in [Gens -> BOOLEAN]
    /\ cron \in [Gens -> {"none", "on", "stopping"}]
    /\ toRelease \in [Gens -> SUBSET Owners]
    /\ workers \in [Workers -> 0..MaxGen] /\ spent \subseteq Workers
    /\ drains \subseteq Gens /\ term \subseteq Gens
    /\ manager \in [pc : {"idle", "snapshot", "started", "swapped", "retiring",
                          "stopping", "down"}, gen : 0..MaxGen]
    /\ manager.pc \in {"idle", "down"} \/ manager.gen \in 1..gen
    /\ call \in [Calls -> Call]

(* The runs a worker holds that this runtime handed out.                    *)
Held(g, w) == {o \in running : via[o] = g /\ WorkerOf[o] = w}

(* The cache of the limiter never misses a run it handed out itself while   *)
(* that run is running: neither the wholesale refresh, nor a release that   *)
(* arrives late, nor the reclaim of another claim of the same worker frees  *)
(* its slot early.                                                          *)
CacheCovers ==
    \A g \in Gens : {o \in running : via[o] = g} \subseteq cache[g]

(* One limiter never lets a worker hold more runs than its budget, whatever *)
(* calls overlap, leases expire and other servers reclaim.                  *)
LimiterBudget ==
    \A g \in Gens, w \in Workers : Cardinality(Held(g, w)) <= MaxPerWorker

(* What makes the two inductive: a call between its check and its claim     *)
(* holds the mutex of its limiter, the check still stands, and whoever is   *)
(* about to release an owner does so for a run that has left `running'.     *)
Reserved ==
    \A c \in Calls :
        call[c].pc \in {"full", "admitted"} =>
            /\ lock[call[c].gen] = c /\ call[c].worker \in Workers
            /\ call[c].pc = "admitted" =>
                  CountWorker(cache[call[c].gen], call[c].worker) < MaxPerWorker

Settled ==
    /\ \A c \in Calls :
          /\ call[c].pc # "idle" => call[c].gen \in 1..gen
          /\ call[c].pc = "claim" => call[c].worker \in Workers
          /\ call[c].pc \in {"finish", "release"} => call[c].owner \in issued
          /\ call[c].pc = "release" => call[c].owner \notin running
    /\ \A g \in Gens : toRelease[g] \subseteq issued \ running
    /\ \A o \in Owners : via[o] # 0 => via[o] <= gen /\ o \in issued

IInv == TypeOK /\ CacheCovers /\ LimiterBudget /\ Reserved /\ Settled

(* The same over all runtimes the server has had, the ones before a crash   *)
(* included, for every worker process that is alive.                        *)
WithinBudget ==
    \A w \in Workers :
        workers[w] # 0 =>
            Cardinality({o \in running : via[o] # 0 /\ WorkerOf[o] = w}) <= MaxPerWorker

(* Stop, retire, a failed ensure, crash and restart forget nothing: if      *)
(* every limiter could read the database and was built when no runtime      *)
(* accepted work and no claim was under way, the current one counts every   *)
(* run its workers still hold.                                              *)
RestartBudget == gaps = {} => WithinBudget

(* "any rows still `status='running'' from a previous process count against *)
(* the live budget": also when the runtime replaces one that is serving.    *)
(* Does not hold (see the README).                                         *)
ServerBudget == "unread" \notin gaps => WithinBudget

(* A claim is refused for lack of budget only if the database then really   *)
(* holds that many runs of the worker: entries another server reclaimed     *)
(* never keep a worker from claiming.  (A failed read is answered with an   *)
(* error and, like a read that finds nothing new, leaves the cache alone.)  *)
RefusalJustified ==
    [][\A c \in Calls :
          /\ call[c].pc = "full" /\ call'[c].pc = "idle"
          /\ cache' # cache /\ manager'.pc # "down"
          => CountWorker(running, call[c].worker) >= MaxPerWorker]_vars
=============================================================================
