----------------------------- MODULE PostgresDb -----------------------------
(***************************************************************************)
(* The run store on Postgres (tako-workflows/src/postgres_store.rs): many  *)
(* servers, each with one connection, run READ COMMITTED transactions on   *)
(* the same tables.                                                        *)
(*                                                                         *)
(* A transaction is a sequence of statements.  A statement reads what is   *)
(* committed when it starts and what its transaction wrote; a row lock     *)
(* (UPDATE, SELECT ... FOR UPDATE) is held to the end; a statement that    *)
(* waited for a lock looks at the row again.  A single statement that      *)
(* writes one run is one step that needs the row unlocked.  The last       *)
(* statement of a transaction and its commit are one step: nobody sees     *)
(* what is in between.                                                     *)
(*                                                                         *)
(* Abstracted: names and payloads of runs; retention (a finished run may   *)
(* be old enough at any time).  Servers' clocks differ by at most Skew.    *)
(***************************************************************************)
EXTENDS Integers, FiniteSets, FiniteSetsExt

CONSTANTS
    RunIds,      \* primary keys; signal visits them in order
    StepNames,
    Events,
    Results,     \* results of steps and payloads of signals
    JsonNull,    \* the result of a wait that timed out
    Owners,      \* claim owners: a fresh one for each claim
    Servers,
    Deadlines,   \* absolute times callers pass
    LeaseMs,     \* lease lengths workers ask for
    MaxLeaseMs,  \* MAX_LEASE_MS
    Forever,     \* i64::MAX
    PruneLimit,  \* rows deleted by one cleanup
    Skew,        \* largest age of a clock reading when it is used
    MaxTime,     \* bound: the clock stops here
    NULL

ASSUME ConstantsAssumption ==
    /\ RunIds \subseteq Nat /\ IsFiniteSet(RunIds)
    /\ NULL \notin Owners /\ NULL \notin Results /\ NULL \notin Nat
    /\ NULL \notin Events /\ NULL # JsonNull
    /\ Deadlines \subseteq 0..Forever - 1 /\ LeaseMs \subseteq Nat
    /\ {MaxLeaseMs, Skew, MaxTime, PruneLimit, Forever} \subseteq Nat
    /\ MaxTime < Forever

VARIABLES
    runs,           \* committed rows of table runs
    steps,          \* committed rows of table steps
    event_waiters,  \* committed rows of table event_waiters
    tx,             \* the open transaction of each server's connection
    clock,
    told,           \* history: what an owner was last answered
    given,          \* history: the step_state handed out with a claim
    saved           \* history: the steps an owner saved

tables == <<runs, steps, event_waiters>>
history == <<told, given, saved>>
vars == <<tables, tx, clock, history>>

Keys == RunIds \X StepNames
Terminal == {"succeeded", "cancelled", "dead"}
Row == [status : {"absent", "pending", "running"} \cup Terminal,
        worker_id : Owners \cup {NULL}, lease_until : Nat \cup {NULL},
        run_at : Nat, attempts : Nat]
NoRow == [status |-> "absent", worker_id |-> NULL, lease_until |-> NULL,
          run_at |-> 0, attempts |-> 0]
Waiter == [event : Events, expires_at : Nat \cup {NULL}]

ASSUME NullAssumption == NULL \notin Row /\ NULL \notin Waiter

(* No open transaction: nothing locked, nothing written. *)
Idle == [op |-> "idle", t |-> 0, owner |-> NULL, event |-> NULL, value |-> NULL,
         todo |-> {}, held |-> {}, rows |-> [r \in RunIds |-> NULL],
         puts |-> [k \in Keys |-> NULL], dels |-> {}]

Init ==
    /\ runs = [r \in RunIds |-> NoRow]
    /\ steps = [k \in Keys |-> NULL]
    /\ event_waiters = [k \in Keys |-> NULL]
    /\ tx = [x \in Servers |-> Idle]
    /\ clock = 0
    /\ told = [o \in Owners |-> "none"]
    /\ given = [o \in Owners |-> {}]
    /\ saved = [o \in Owners |-> {}]
-----------------------------------------------------------------------------
(* now_ms() on some server. *)
Readings == {t \in 0..clock : clock - Skew <= t}

LeaseUntil(t, ms) == t + Min({ms, MaxLeaseMs})

Claimed(row, o, lease) ==
    [row EXCEPT !.status = "running", !.worker_id = o, !.lease_until = lease,
                !.attempts = @ + 1]

Left(row, status) ==
    [row EXCEPT !.status = status, !.worker_id = NULL, !.lease_until = NULL]

Rescheduled(row, at) == [Left(row, "pending") EXCEPT !.run_at = at]

(* Parked until the deadline or for ever; the attempt is given back. *)
Parked(row, deadline) ==
    [Rescheduled(row, IF deadline = NULL THEN Forever ELSE deadline)
        EXCEPT !.attempts = @ - 1]

Locked(r) == \E x \in Servers : r \in tx[x].held
LockedForOthers(x, r) == \E y \in Servers \ {x} : r \in tx[y].held
Free(x) == tx[x].op = "idle"

Owns(o, r) == runs[r].status = "running" /\ runs[r].worker_id = o

(* INSERT INTO steps ... ON CONFLICT DO NOTHING *)
Inserted(table, puts) ==
    [k \in Keys |-> IF table[k] = NULL THEN puts[k] ELSE table[k]]

Removed(table, dels) == [k \in Keys |-> IF k \in dels THEN NULL ELSE table[k]]

(* The effects of a transaction on the tables, and its end. *)
Commit(x, c) ==
    /\ runs' = [r \in RunIds |-> IF c.rows[r] = NULL THEN runs[r] ELSE c.rows[r]]
    /\ steps' = Inserted(steps, c.puts)
    /\ event_waiters' = Removed(event_waiters, c.dels)
    /\ tx' = [tx EXCEPT ![x] = Idle]

Begin(x, c) == Free(x) /\ tx' = [tx EXCEPT ![x] = c]
Continue(x, c) == tx' = [tx EXCEPT ![x] = c]
-----------------------------------------------------------------------------
(* Transactions of one statement.                                          *)

(* ON CONFLICT(app_id, id) DO NOTHING: a repeated id changes nothing. *)
Enqueue(r, at) ==
    /\ ~Locked(r) /\ runs[r].status = "absent"
    /\ runs' = [runs EXCEPT ![r] = [NoRow EXCEPT !.status = "pending", !.run_at = at]]
    /\ UNCHANGED <<steps, event_waiters, tx, clock, history>>

(* update_running, answered Ok. *)
UpdateRunning(o, r, row, answer) ==
    /\ ~Locked(r) /\ Owns(o, r)
    /\ runs' = [runs EXCEPT ![r] = row]
    /\ told' = [told EXCEPT ![o] = answer]
    /\ UNCHANGED <<steps, event_waiters, tx, clock, given, saved>>

Heartbeat(o, r, t, ms) ==
    UpdateRunning(o, r, [runs[r] EXCEPT !.lease_until = LeaseUntil(t, ms)], "open")

Finish(o, r, status) == UpdateRunning(o, r, Left(runs[r], status), status)
FailRetry(o, r, at) == UpdateRunning(o, r, Rescheduled(runs[r], at), "retry")
Defer(o, r, at) == UpdateRunning(o, r, Parked(runs[r], at), "parked")

(* No row qualifies: the caller is answered StaleWorker. *)
StaleCall(o) ==
    /\ told[o] = "open" /\ \A r \in RunIds : ~Owns(o, r)
    /\ told' = [told EXCEPT ![o] = "stale"]
    /\ UNCHANGED <<tables, tx, clock, given, saved>>
-----------------------------------------------------------------------------
(* claim *)

Due(r, t) == ~Locked(r) /\ runs[r].status = "pending" /\ runs[r].run_at <= t

(* FOR UPDATE SKIP LOCKED: the oldest due run nobody has locked. *)
ClaimRow(x, o, r, t, ms) ==
    /\ told[o] = "none" /\ \A y \in Servers : tx[y].owner # o
    /\ Due(r, t) /\ \A q \in RunIds : Due(q, t) => runs[r].run_at <= runs[q].run_at
    /\ Begin(x, [Idle EXCEPT !.op = "claim", !.t = t, !.owner = o, !.held = {r},
                             !.rows[r] = Claimed(runs[r], o, LeaseUntil(t, ms))])
    /\ UNCHANGED <<tables, clock, history>>

ExpiredWaits(x) ==
    {k \in Keys : /\ k[1] \in tx[x].held /\ event_waiters[k] # NULL
                  /\ event_waiters[k].expires_at # NULL
                  /\ event_waiters[k].expires_at <= tx[x].t}

(* Waits of the run that timed out become results... *)
ClaimWaits(x) ==
    /\ tx[x].op = "claim"
    /\ Continue(x, [tx[x] EXCEPT !.op = "claimed",
          !.puts = [k \in Keys |-> IF k \in ExpiredWaits(x) THEN JsonNull ELSE NULL]])
    /\ UNCHANGED <<tables, clock, history>>

(* ... and are deleted; the claim returns the results of all steps. *)
ClaimCommit(x) ==
    /\ tx[x].op = "claimed"
    /\ Commit(x, [tx[x] EXCEPT !.dels = ExpiredWaits(x)])
    /\ told' = [told EXCEPT ![tx[x].owner] = "open"]
    /\ given' = [given EXCEPT ![tx[x].owner] =
                   {k[2] : k \in {j \in Keys : j[1] \in tx[x].held /\ steps'[j] # NULL}}]
    /\ UNCHANGED <<clock, saved>>
-----------------------------------------------------------------------------
(* save_step *)

(* Variant: the ownership check takes no lock (INSERT ... SELECT). *)
SaveCheck_NoLock(x, o, r) ==
    /\ Owns(o, r)
    /\ Begin(x, [Idle EXCEPT !.op = "save", !.owner = o, !.todo = {r}])
    /\ UNCHANGED <<tables, clock, history>>

(* SELECT ... FOR UPDATE; a caller that is not the owner is refused. *)
SaveCheck(x, o, r) ==
    /\ ~Locked(r) /\ Owns(o, r)
    /\ Begin(x, [Idle EXCEPT !.op = "save", !.owner = o, !.todo = {r}, !.held = {r}])
    /\ UNCHANGED <<tables, clock, history>>

SaveCommit(x, s, v) ==
    /\ tx[x].op = "save"
    /\ \E r \in tx[x].todo : Commit(x, [tx[x] EXCEPT !.puts[<<r, s>>] = v])
    /\ saved' = [saved EXCEPT ![tx[x].owner] = @ \cup {s}]
    /\ UNCHANGED <<clock, told, given>>
-----------------------------------------------------------------------------
(* wait_for_event *)

WaitPark(x, o, r, deadline) ==
    /\ ~Locked(r) /\ Owns(o, r)
    /\ Begin(x, [Idle EXCEPT !.op = "wait", !.owner = o, !.held = {r},
                             !.rows[r] = Parked(runs[r], deadline)])
    /\ UNCHANGED <<tables, clock, history>>

(* The waiter's row, inserted or replaced, with the same deadline. *)
WaitCommit(x, s, e) ==
    /\ tx[x].op = "wait"
    /\ \E r \in tx[x].held :
          LET at == tx[x].rows[r].run_at IN
          /\ runs' = [runs EXCEPT ![r] = tx[x].rows[r]]
          /\ event_waiters' = [event_waiters EXCEPT ![<<r, s>>] =
                [event |-> e, expires_at |-> IF at = Forever THEN NULL ELSE at]]
    /\ Continue(x, Idle)
    /\ told' = [told EXCEPT ![tx[x].owner] = "parked"]
    /\ UNCHANGED <<steps, clock, given, saved>>
-----------------------------------------------------------------------------
(* signal *)

(* The waiters of the event, read without a lock. *)
SignalFind(x, e, v, t) ==
    LET found == {k \in Keys : event_waiters[k] # NULL /\ event_waiters[k].event = e}
    IN  /\ found # {}
        /\ Begin(x, [Idle EXCEPT !.op = "signal", !.t = t, !.event = e, !.value = v,
                                 !.todo = found])
        /\ UNCHANGED <<tables, clock, history>>

(* Variant: the waiters come in whatever order the scan has. *)
NextRun_Unordered(x) ==
    LET found == {k[1] : k \in tx[x].todo}
    IN  IF x = CHOOSE y \in Servers : TRUE THEN Min(found) ELSE Max(found)

NextRun(x) == Min({k[1] : k \in tx[x].todo})

(* Variant: what was found before the lock is taken for granted. *)
Consumed_AsFound(x, r) == {k \in tx[x].todo : k[1] = r}

(* Of the waiters found, those still there once the run is locked. *)
Consumed(x, r) ==
    {k \in tx[x].todo : /\ k[1] = r /\ event_waiters[k] # NULL
                        /\ event_waiters[k].event = tx[x].event}

(* Lock the run, delete its waiter, insert the result and wake the run;    *)
(* a waiter that somebody consumed meanwhile is skipped.                   *)
SignalNext(x) ==
    /\ tx[x].op = "signal" /\ tx[x].todo # {}
    /\ LET r == NextRun(x)
           hit == Consumed(x, r)
           row == runs[r]
       IN  /\ ~LockedForOthers(x, r)
           /\ Continue(x, [tx[x] EXCEPT
                 !.todo = {k \in @ : k[1] # r},
                 !.held = IF row.status = "absent" THEN @ ELSE @ \cup {r},
                 !.dels = @ \cup hit,
                 !.puts = [k \in Keys |-> IF k \in hit THEN tx[x].value ELSE @[k]],
                 !.rows[r] = IF hit # {} /\ row.status = "pending"
                             THEN [row EXCEPT !.run_at = tx[x].t] ELSE @])
    /\ UNCHANGED <<tables, clock, history>>

SignalCommit(x) ==
    /\ tx[x].op = "signal" /\ tx[x].todo = {}
    /\ Commit(x, tx[x])
    /\ UNCHANGED <<clock, history>>
-----------------------------------------------------------------------------
(* reclaim_expired, reclaim_expired_with_workers *)

Expired(row, t) == row.status = "running" /\ row.lease_until < t

ReclaimFind(x, t) ==
    LET found == {r \in RunIds : Expired(runs[r], t)}
    IN  /\ found # {}
        /\ Begin(x, [Idle EXCEPT !.op = "reclaim", !.t = t, !.todo = found])
        /\ UNCHANGED <<tables, clock, history>>

(* Variant: the row is not looked at again after the wait for its lock. *)
Recheck_None(row, t) == row.status = "running"

Recheck(row, t) == Expired(row, t)

(* One row of the statement, in the order of the plan; a row that had to   *)
(* be waited for is checked again.                                         *)
ReclaimNext(x, r) ==
    /\ tx[x].op = "reclaim" /\ r \in tx[x].todo /\ ~LockedForOthers(x, r)
    /\ Continue(x, IF Recheck(runs[r], tx[x].t)
                   THEN [tx[x] EXCEPT !.todo = @ \ {r}, !.held = @ \cup {r},
                                      !.rows[r] = Left(runs[r], "pending")]
                   ELSE [tx[x] EXCEPT !.todo = @ \ {r}])
    /\ UNCHANGED <<tables, clock, history>>

ReclaimCommit(x) ==
    /\ tx[x].op = "reclaim" /\ tx[x].todo = {}
    /\ Commit(x, tx[x])
    /\ UNCHANGED <<clock, history>>
-----------------------------------------------------------------------------
(* prune_finished_before *)

PruneFind(x, D) ==
    /\ D # {} /\ Cardinality(D) <= PruneLimit
    /\ \A r \in D : ~Locked(r) /\ runs[r].status \in Terminal
    /\ Begin(x, [Idle EXCEPT !.op = "prune", !.held = D])
    /\ UNCHANGED <<tables, clock, history>>

PruneCommit(x) ==
    /\ tx[x].op = "prune"
    /\ LET gone == {k \in Keys : k[1] \in tx[x].held} IN
       /\ runs' = [r \in RunIds |-> IF r \in tx[x].held THEN NoRow ELSE runs[r]]
       /\ steps' = Removed(steps, gone)
       /\ event_waiters' = Removed(event_waiters, gone)
    /\ Continue(x, Idle)
    /\ UNCHANGED <<clock, history>>
-----------------------------------------------------------------------------
(* The server crashes or its connection breaks: Postgres rolls back. *)
Rollback(x) ==
    /\ ~Free(x)
    /\ Continue(x, Idle)
    /\ UNCHANGED <<tables, clock, history>>

(* The runs whose lock the server's statement waits for. *)
WaitsFor(x) ==
    {r \in CASE tx[x].op = "signal" /\ tx[x].todo # {} -> {NextRun(x)}
             [] tx[x].op = "reclaim" -> tx[x].todo
             [] OTHER -> {} : LockedForOthers(x, r)}

Deadlocked(C) ==
    \A x \in C : \E y \in C \ {x} : WaitsFor(x) \cap tx[y].held # {}

(* Postgres finds a cycle of waits and rolls one transaction back. *)
DeadlockVictim(x) ==
    /\ \E C \in SUBSET Servers : x \in C /\ Deadlocked(C)
    /\ Continue(x, Idle)
    /\ UNCHANGED <<tables, clock, history>>

Tick ==
    /\ clock < MaxTime
    /\ clock' = clock + 1
    /\ UNCHANGED <<tables, tx, history>>
-----------------------------------------------------------------------------
OwnerStep(o, r) ==
    \/ \E t \in Readings, ms \in LeaseMs : Heartbeat(o, r, t, ms)
    \/ \E status \in Terminal : Finish(o, r, status)
    \/ \E at \in Deadlines : FailRetry(o, r, at)
    \/ \E at \in Deadlines \cup {NULL} : Defer(o, r, at)
    \/ \E x \in Servers : SaveCheck(x, o, r)
    \/ \E x \in Servers, d \in Deadlines \cup {NULL} : WaitPark(x, o, r, d)

Opens(x) ==
    \/ \E o \in Owners, r \in RunIds, t \in Readings, ms \in LeaseMs :
          ClaimRow(x, o, r, t, ms)
    \/ \E e \in Events, v \in Results, t \in Readings : SignalFind(x, e, v, t)
    \/ \E t \in Readings : ReclaimFind(x, t)
    \/ \E D \in SUBSET RunIds : PruneFind(x, D)

(* A transaction goes on: every statement that need not wait runs. *)
Proceeds(x) ==
    \/ ClaimWaits(x) \/ ClaimCommit(x)
    \/ \E s \in StepNames, v \in Results : SaveCommit(x, s, v)
    \/ \E s \in StepNames, e \in Events : WaitCommit(x, s, e)
    \/ SignalNext(x) \/ SignalCommit(x)
    \/ \E r \in RunIds : ReclaimNext(x, r)
    \/ ReclaimCommit(x) \/ PruneCommit(x)

Next ==
    \/ \E r \in RunIds, at \in Deadlines \cup Readings : Enqueue(r, at)
    \/ \E o \in Owners, r \in RunIds : OwnerStep(o, r)
    \/ \E o \in Owners : StaleCall(o)
    \/ \E x \in Servers : Opens(x) \/ Proceeds(x) \/ Rollback(x) \/ DeadlockVictim(x)
    \/ Tick

Spec == Init /\ [][Next]_vars
-----------------------------------------------------------------------------
TypeOK ==
    /\ runs \in [RunIds -> Row]
    /\ steps \in [Keys -> Results \cup {JsonNull, NULL}]
    /\ event_waiters \in [Keys -> Waiter \cup {NULL}]
    /\ \A x \in Servers :
          /\ tx[x].op \in {"idle", "claim", "claimed", "save", "wait", "signal",
                           "reclaim", "prune"}
          /\ tx[x].held \subseteq RunIds
          /\ tx[x].rows \in [RunIds -> Row \cup {NULL}]
    /\ clock \in 0..MaxTime
    /\ told \in [Owners -> {"none", "open", "retry", "parked", "stale"} \cup Terminal]
    /\ given \in [Owners -> SUBSET StepNames]
    /\ saved \in [Owners -> SUBSET StepNames]

(* An attempt knows every result its run has: each was handed out with its *)
(* claim or saved by itself.  No signal, timeout or delayed checkpoint of  *)
(* an earlier attempt slips a result in behind it, from any server, so no  *)
(* step with a result is executed again (save_step's FOR UPDATE, the       *)
(* recheck in signal, the single transaction of claim).                    *)
KnowsResults ==
    \A r \in RunIds, s \in StepNames :
        runs[r].status = "running" /\ steps[<<r, s>>] # NULL =>
            s \in given[runs[r].worker_id] \cup saved[runs[r].worker_id]

(* A running run leaves its owner only by a call the owner is told of, or  *)
(* after its lease is over on the clock: a reclaim that waited for the row *)
(* does not take back a lease that was renewed meanwhile.                  *)
LeaseRespected ==
    [][\A r \in RunIds :
          /\ runs[r].status = "running" /\ runs'[r].worker_id # runs[r].worker_id
          /\ told'[runs[r].worker_id] = "open"
          => runs[r].lease_until < clock]_vars

(* Signals lock the runs they wake in one order, so any number of them     *)
(* running at once never wait for each other in a circle (the ORDER BY of  *)
(* signal).  Reclaims have no order: theirs is broken by Postgres.         *)
SignalsDoNotDeadlock ==
    \A C \in SUBSET {x \in Servers : tx[x].op = "signal"} : C # {} => ~Deadlocked(C)

Lifecycle == INSTANCE RunLifecycle WITH
    Attempts <- Owners, Values <- Results, TimedOut <- JsonNull, Nothing <- NULL,
    phase <- [r \in RunIds |-> runs[r].status],
    holder <- [r \in RunIds |-> runs[r].worker_id],
    results <- [r \in RunIds |-> [s \in StepNames |-> steps[<<r, s>>]]],
    started <- {o \in Owners : told[o] # "none"}

(* Several servers and concurrent transactions implement the same life of  *)
(* a run as the single SQLite file.                                        *)
ImplementsLifecycle == Lifecycle!Spec
=============================================================================
