------------------------------- MODULE RunsDb -------------------------------
(***************************************************************************)
(* The durable run store of the workflow engine                            *)
(* (tako-workflows/src/enqueue/sqlite.rs on the schema of src/schema.rs).  *)
(*                                                                         *)
(* Every operation of the store takes the connection mutex and commits one *)
(* SQL statement or one transaction, so each is one atomic step here.  Its *)
(* callers are worker processes behind RPCs that may be delayed, repeated  *)
(* or abandoned: an attempt that was handed a claim may therefore call any *)
(* operation at any later time, also after its lease was taken away.       *)
(*                                                                         *)
(* Abstracted: the payload, last_error and created_at columns (nothing in  *)
(* the store branches on them once a run exists) and max_attempts (read    *)
(* only by the worker).  `clock' is the wall clock; an operation works     *)
(* with a reading of it that is at most Skew old, because now_ms() is read *)
(* before the mutex is taken.                                              *)
(***************************************************************************)
EXTENDS Integers, FiniteSets

CONSTANTS
    RunIds,      \* run identifiers (primary key of table runs)
    Names,       \* workflow names
    StepNames,   \* step names of a workflow
    Events,      \* event names
    Results,     \* JSON results of steps and payloads of signals
    JsonNull,    \* the JSON null materialised for a wait that timed out
    Owners,      \* claim owners `worker:nanoid': a fresh one for each claim
    WakeTimes,   \* absolute times callers pass as run_at, wake_at, timeout_at
    LeaseMs,     \* lease lengths workers ask for
    MaxLeaseMs,  \* MAX_LEASE_MS
    Forever,     \* i64::MAX: the run_at of a run parked without a deadline
    Retention,   \* how long a finished run is kept
    PruneLimit,  \* rows deleted by one cleanup statement
    Skew,        \* largest age of a clock reading when it is used
    MaxTime,     \* bound: the clock stops here
    NULL         \* SQL NULL, and "no row" in steps and event_waiters

ASSUME ConstantsAssumption ==
    /\ NULL \notin Owners /\ NULL \notin Results /\ NULL \notin Nat
    /\ NULL \notin RunIds /\ NULL \notin Names /\ NULL # JsonNull
    /\ NULL \notin [event : Events, expires_at : Nat \cup {NULL}]
    /\ WakeTimes \subseteq Nat /\ LeaseMs \subseteq Nat
    /\ MaxLeaseMs \in Nat /\ Skew \in Nat /\ MaxTime \in Nat
    /\ Retention \in Nat /\ PruneLimit \in Nat
    /\ Forever \in Nat /\ MaxTime < Forever

VARIABLES
    runs,           \* table runs: one row per run id, "absent" when there is none
    steps,          \* table steps: result of (run_id, name) or NULL
    event_waiters,  \* table event_waiters: waiter of (run_id, step_name) or NULL
    clock,          \* the wall clock
    claimOf,        \* history: the run an owner was issued for, while the row exists
    told            \* history: what the store last answered to an owner

vars == <<runs, steps, event_waiters, clock, claimOf, told>>
-----------------------------------------------------------------------------
Terminal == {"succeeded", "cancelled", "dead"}
Statuses == {"absent", "pending", "running"} \cup Terminal

(* "none": the owner was never issued.  "open": its claim was granted and   *)
(* no later answer ended it.  "stale": it was refused with StaleWorker.     *)
Answers == {"none", "open", "retry", "parked", "stale"} \cup Terminal

Row == [status : Statuses, name : Names \cup {NULL},
        worker_id : Owners \cup {NULL}, lease_until : Nat \cup {NULL},
        run_at : Nat, attempts : Int, finished_at : Nat \cup {NULL}]

NoRow == [status |-> "absent", name |-> NULL, worker_id |-> NULL,
          lease_until |-> NULL, run_at |-> 0, attempts |-> 0,
          finished_at |-> NULL]

Waiter == [event : Events, expires_at : Nat \cup {NULL}]

(* now_ms() of an operation that commits now. *)
Readings == {t \in 0..clock : clock - Skew <= t}

(* wake_at_ms.unwrap_or(i64::MAX), timeout_at_ms.unwrap_or(i64::MAX) *)
OrForever(t) == IF t = NULL THEN Forever ELSE t

(* Variant: u64::MAX cast to i64 without the clamp. *)
ClampLeaseMs_Wraps(ms) == IF ms <= MaxLeaseMs THEN ms ELSE -1

ClampLeaseMs(ms) == IF ms <= MaxLeaseMs THEN ms ELSE MaxLeaseMs

(* now.saturating_add(clamp_lease_ms(lease_ms)) *)
LeaseUntil(t, ms) ==
    IF t + ClampLeaseMs(ms) <= Forever THEN t + ClampLeaseMs(ms) ELSE Forever

(* Variant: the worker_id condition is missing. *)
Owns_AnyWorker(o, r) == runs[r].status = "running"

(* WHERE id = r AND worker_id = o AND status='running' *)
Owns(o, r) == runs[r].status = "running" /\ runs[r].worker_id = o

(* What the UPDATE statements make of a row. *)
Claimed(row, o, lease) ==
    [row EXCEPT !.status = "running", !.worker_id = o, !.lease_until = lease,
                !.attempts = @ + 1]

Renewed(row, lease) == [row EXCEPT !.lease_until = lease]

Finished(row, status, t) ==
    [row EXCEPT !.status = status, !.worker_id = NULL, !.lease_until = NULL,
                !.finished_at = t]

Released(row) ==
    [row EXCEPT !.status = "pending", !.worker_id = NULL, !.lease_until = NULL]

Rescheduled(row, at) == [Released(row) EXCEPT !.run_at = at]

Woken(row, t) == [row EXCEPT !.run_at = t]

(* Variant: parking keeps the attempt. *)
Parked_Counts(row, wake) == Rescheduled(row, OrForever(wake))

(* Given up by its owner until `wake': the attempt is given back. *)
Parked(row, wake) == [Rescheduled(row, OrForever(wake)) EXCEPT !.attempts = @ - 1]

Init ==
    /\ runs = [r \in RunIds |-> NoRow]
    /\ steps = [r \in RunIds |-> [s \in StepNames |-> NULL]]
    /\ event_waiters = [r \in RunIds |-> [s \in StepNames |-> NULL]]
    /\ clock = 0
    /\ claimOf = [o \in Owners |-> NULL]
    /\ told = [o \in Owners |-> "none"]
-----------------------------------------------------------------------------
(* A repeated id leaves the row alone, whether the call is answered         *)
(* "deduplicated" or IdConflict.                                            *)
Enqueue(r, name, run_at) ==
    /\ runs[r].status = "absent"
    /\ runs' = [runs EXCEPT ![r] =
                  [status |-> "pending", name |-> name, worker_id |-> NULL,
                   lease_until |-> NULL, run_at |-> run_at, attempts |-> 0,
                   finished_at |-> NULL]]
    /\ UNCHANGED <<steps, event_waiters, clock, claimOf, told>>

Claimable(r, names, t) ==
    /\ runs[r].status = "pending"
    /\ runs[r].run_at <= t
    /\ runs[r].name \in names

ExpiredWaiter(r, s, t) ==
    /\ event_waiters[r][s] # NULL
    /\ event_waiters[r][s].expires_at # NULL
    /\ event_waiters[r][s].expires_at <= t

(* Variants: the owner is the worker process, so that it comes back; expired  *)
(* waits are not materialised, or are dropped without a result.              *)
Claim_SameOwner(o, r, names, t, ms) ==
    /\ Claimable(r, names, t)
    /\ runs' = [runs EXCEPT ![r] = Claimed(@, o, LeaseUntil(t, ms))]
    /\ claimOf' = [claimOf EXCEPT ![o] = r]
    /\ told' = [told EXCEPT ![o] = "open"]
    /\ UNCHANGED <<steps, event_waiters, clock>>

Claim_KeepsWaiters(o, r, names, t, ms) ==
    told[o] = "none" /\ Claim_SameOwner(o, r, names, t, ms)

Claim_DropsWaiters(o, r, names, t, ms) ==
    /\ told[o] = "none"
    /\ Claimable(r, names, t)
    /\ runs' = [runs EXCEPT ![r] = Claimed(@, o, LeaseUntil(t, ms))]
    /\ event_waiters' = [event_waiters EXCEPT ![r] = [s \in StepNames |-> NULL]]
    /\ claimOf' = [claimOf EXCEPT ![o] = r]
    /\ told' = [told EXCEPT ![o] = "open"]
    /\ UNCHANGED <<steps, clock>>

(* The oldest due run is claimed under an owner id nobody had before; waits *)
(* of that run that timed out become step results in the same transaction.  *)
Claim(o, r, names, t, ms) ==
    /\ told[o] = "none"
    /\ Claimable(r, names, t)
    /\ \A q \in RunIds : Claimable(q, names, t) => runs[r].run_at <= runs[q].run_at
    /\ runs' = [runs EXCEPT ![r] = Claimed(@, o, LeaseUntil(t, ms))]
    /\ steps' = [steps EXCEPT ![r] = [s \in StepNames |->
                   IF ExpiredWaiter(r, s, t) /\ steps[r][s] = NULL
                     THEN JsonNull ELSE steps[r][s]]]
    /\ event_waiters' = [event_waiters EXCEPT ![r] = [s \in StepNames |->
                   IF ExpiredWaiter(r, s, t) THEN NULL ELSE event_waiters[r][s]]]
    /\ claimOf' = [claimOf EXCEPT ![o] = r]
    /\ told' = [told EXCEPT ![o] = "open"]
    /\ UNCHANGED clock

Heartbeat(o, r, t, ms) ==
    /\ Owns(o, r)
    /\ runs' = [runs EXCEPT ![r] = Renewed(@, LeaseUntil(t, ms))]
    /\ UNCHANGED <<steps, event_waiters, clock, claimOf, told>>

(* Variant: the insert has no EXISTS on the caller's running row.           *)
SaveStep_Unfenced(o, r, s, v) ==
    /\ claimOf[o] = r /\ runs[r] # NoRow
    /\ steps' = [steps EXCEPT ![r][s] = IF @ = NULL THEN v ELSE @]
    /\ UNCHANGED <<runs, event_waiters, clock, claimOf, told>>

(* INSERT OR IGNORE: a step that is already saved keeps its first result,   *)
(* and the caller is answered Ok either way.                                *)
SaveStep(o, r, s, v) ==
    /\ Owns(o, r)
    /\ steps' = [steps EXCEPT ![r][s] = IF @ = NULL THEN v ELSE @]
    /\ UNCHANGED <<runs, event_waiters, clock, claimOf, told>>

(* complete, cancel and fail(finalize) *)
Finish(o, r, status, t) ==
    /\ Owns(o, r)
    /\ runs' = [runs EXCEPT ![r] = Finished(@, status, t)]
    /\ told' = [told EXCEPT ![o] = status]
    /\ UNCHANGED <<steps, event_waiters, clock, claimOf>>

Complete(o, r, t) == Finish(o, r, "succeeded", t)
Cancel(o, r, t)   == Finish(o, r, "cancelled", t)
FailDead(o, r, t) == Finish(o, r, "dead", t)

(* fail(finalize=false): back to pending at next_run_at; the attempt counts. *)
FailRetry(o, r, next) ==
    /\ Owns(o, r)
    /\ runs' = [runs EXCEPT ![r] = Rescheduled(@, next)]
    /\ told' = [told EXCEPT ![o] = "retry"]
    /\ UNCHANGED <<steps, event_waiters, clock, claimOf>>

Defer(o, r, wake) ==
    /\ Owns(o, r)
    /\ runs' = [runs EXCEPT ![r] = Parked(@, wake)]
    /\ told' = [told EXCEPT ![o] = "parked"]
    /\ UNCHANGED <<steps, event_waiters, clock, claimOf>>

WaitForEvent(o, r, s, e, timeout) ==
    /\ Owns(o, r)
    /\ runs' = [runs EXCEPT ![r] = Parked(@, timeout)]
    /\ event_waiters' = [event_waiters EXCEPT ![r][s] =
                           [event |-> e, expires_at |-> timeout]]
    /\ told' = [told EXCEPT ![o] = "parked"]
    /\ UNCHANGED <<steps, clock, claimOf>>

(* The zero-rows path of every owner operation: nothing changes and the     *)
(* caller is answered StaleWorker.                                          *)
StaleCall(o) ==
    /\ told[o] = "open"
    /\ \A r \in RunIds : ~Owns(o, r)
    /\ told' = [told EXCEPT ![o] = "stale"]
    /\ UNCHANGED <<runs, steps, event_waiters, clock, claimOf>>

(* Variant: a lease is over in its last millisecond. *)
Expired_Early(r, t) == runs[r].status = "running" /\ runs[r].lease_until <= t

Expired(r, t) ==
    runs[r].status = "running" /\ runs[r].lease_until # NULL /\ runs[r].lease_until < t

(* reclaim_expired, reclaim_expired_with_workers *)
ReclaimExpired(t) ==
    /\ \E r \in RunIds : Expired(r, t)
    /\ runs' = [r \in RunIds |->
                  IF Expired(r, t) THEN Released(runs[r]) ELSE runs[r]]
    /\ UNCHANGED <<steps, event_waiters, clock, claimOf, told>>

HasWaiter(r, s, e) == event_waiters[r][s] # NULL /\ event_waiters[r][s].event = e

Signal(e, v, t) ==
    /\ \E r \in RunIds, s \in StepNames : HasWaiter(r, s, e)
    /\ steps' = [r \in RunIds |-> [s \in StepNames |->
                   IF HasWaiter(r, s, e) /\ steps[r][s] = NULL THEN v ELSE steps[r][s]]]
    /\ runs' = [r \in RunIds |->
                  IF runs[r].status = "pending" /\ \E s \in StepNames : HasWaiter(r, s, e)
                    THEN Woken(runs[r], t) ELSE runs[r]]
    /\ event_waiters' = [r \in RunIds |-> [s \in StepNames |->
                   IF HasWaiter(r, s, e) THEN NULL ELSE event_waiters[r][s]]]
    /\ UNCHANGED <<clock, claimOf, told>>

Prunable(t) == {r \in RunIds : /\ runs[r].status \in Terminal
                               /\ runs[r].finished_at # NULL
                               /\ runs[r].finished_at + Retention <= t}

(* ORDER BY finished_at LIMIT PruneLimit; the foreign keys cascade.         *)
PruneFinishedBefore(D, t) ==
    /\ D # {} /\ D \subseteq Prunable(t)
    /\ \/ D = Prunable(t) /\ Cardinality(D) <= PruneLimit
       \/ D # Prunable(t) /\ Cardinality(D) = PruneLimit
    /\ \A r \in D, q \in Prunable(t) \ D : runs[r].finished_at <= runs[q].finished_at
    /\ runs' = [r \in RunIds |-> IF r \in D THEN NoRow ELSE runs[r]]
    /\ steps' = [r \in RunIds |->
                   IF r \in D THEN [s \in StepNames |-> NULL] ELSE steps[r]]
    /\ event_waiters' = [r \in RunIds |->
                   IF r \in D THEN [s \in StepNames |-> NULL] ELSE event_waiters[r]]
    /\ claimOf' = [o \in Owners |-> IF claimOf[o] \in D THEN NULL ELSE claimOf[o]]
    /\ UNCHANGED <<clock, told>>

Tick ==
    /\ clock < MaxTime
    /\ clock' = clock + 1
    /\ UNCHANGED <<runs, steps, event_waiters, claimOf, told>>
-----------------------------------------------------------------------------
OwnerStep(o, r) ==
    \/ \E t \in Readings, ms \in LeaseMs : Heartbeat(o, r, t, ms)
    \/ \E s \in StepNames, v \in Results : SaveStep(o, r, s, v)
    \/ \E t \in Readings : Complete(o, r, t)
    \/ \E t \in Readings : Cancel(o, r, t)
    \/ \E t \in Readings : FailDead(o, r, t)
    \/ \E next \in WakeTimes : FailRetry(o, r, next)
    \/ \E wake \in WakeTimes \cup {NULL} : Defer(o, r, wake)
    \/ \E s \in StepNames, e \in Events, timeout \in WakeTimes \cup {NULL} :
          WaitForEvent(o, r, s, e, timeout)

Next ==
    \/ \E r \in RunIds, n \in Names, at \in WakeTimes \cup Readings : Enqueue(r, n, at)
    \/ \E o \in Owners, r \in RunIds, ns \in SUBSET Names, t \in Readings, ms \in LeaseMs :
          Claim(o, r, ns, t, ms)
    \/ \E o \in Owners, r \in RunIds : OwnerStep(o, r)
    \/ \E o \in Owners : StaleCall(o)
    \/ \E t \in Readings : ReclaimExpired(t)
    \/ \E e \in Events, v \in Results, t \in Readings : Signal(e, v, t)
    \/ \E D \in SUBSET RunIds, t \in Readings : PruneFinishedBefore(D, t)
    \/ Tick

Spec == Init /\ [][Next]_vars
-----------------------------------------------------------------------------
TypeOK ==
    /\ runs \in [RunIds -> Row]
    /\ steps \in [RunIds -> [StepNames -> Results \cup {JsonNull, NULL}]]
    /\ event_waiters \in [RunIds -> [StepNames -> Waiter \cup {NULL}]]
    /\ clock \in 0..MaxTime
    /\ claimOf \in [Owners -> RunIds \cup {NULL}]
    /\ told \in [Owners -> Answers]

(* A run is running under exactly one owner, one whose claim was granted    *)
(* for that run and not yet answered with an outcome: whoever completed,    *)
(* failed, parked or was refused owns nothing, and no owner owns two runs.  *)
(* This is the fencing that the `worker_id = ?' conditions and the fresh    *)
(* owner of every claim are there for.                                      *)
SoleOwner ==
    \A r \in RunIds :
        /\ runs[r].status = "running" =>
              /\ runs[r].worker_id \in Owners
              /\ told[runs[r].worker_id] = "open"
              /\ claimOf[runs[r].worker_id] = r
              /\ runs[r].lease_until # NULL
        /\ runs[r].status # "running" =>
              runs[r].worker_id = NULL /\ runs[r].lease_until = NULL

(* The attempts column counts the claims of a run that were not parked:     *)
(* sleeping and waiting give the attempt back, retries and lost leases      *)
(* do not (so it is at least 1 while running, and never negative).          *)
Counted(r) == {o \in Owners : claimOf[o] = r /\ told[o] # "parked"}

AttemptsAccounting ==
    \A r \in RunIds : IsFiniteSet(Counted(r)) /\ runs[r].attempts = Cardinality(Counted(r))

(* At most one attempt of a run is ever told that it finished it, and the   *)
(* status the run keeps is the one that attempt was told: a delayed earlier *)
(* attempt and a newer one never both succeed.                              *)
FinishedOnce ==
    /\ \A o \in Owners :
          claimOf[o] # NULL /\ told[o] \in Terminal => runs[claimOf[o]].status = told[o]
    /\ \A o, p \in Owners :
          /\ claimOf[o] # NULL /\ claimOf[o] = claimOf[p]
          /\ told[o] \in Terminal /\ told[p] \in Terminal
          => o = p

(* A registered waiter belongs to a run that is parked until exactly the    *)
(* waiter's deadline, and a run waits for one thing at a time.  Hence a run *)
(* with a pending wait is never being executed, and when its timeout wakes  *)
(* it the claim finds the waiter expired and gives the step a result.       *)
WaiterParked ==
    \A r \in RunIds, s \in StepNames :
        event_waiters[r][s] # NULL =>
            /\ runs[r].status = "pending"
            /\ runs[r].run_at = OrForever(event_waiters[r][s].expires_at)
            /\ \A q \in StepNames : event_waiters[r][q] # NULL => q = s

(* A deleted run leaves no step, waiter or claim behind for the run that    *)
(* may later be enqueued under the same id (ON DELETE CASCADE), and a       *)
(* finished run always carries the time its retention is counted from.      *)
NoOrphans ==
    \A r \in RunIds :
        /\ runs[r].status = "absent" =>
              /\ runs[r] = NoRow
              /\ \A s \in StepNames : steps[r][s] = NULL /\ event_waiters[r][s] = NULL
              /\ \A o \in Owners : claimOf[o] # r
        /\ runs[r].status \in Terminal <=> runs[r].finished_at # NULL

(* An owner id is handed out once.  *)
IssuedOnce == \A o \in Owners : told[o] = "none" => claimOf[o] = NULL

(* The inductive invariant. *)
IInv ==
    /\ TypeOK /\ SoleOwner /\ AttemptsAccounting /\ FinishedOnce
    /\ WaiterParked /\ NoOrphans /\ IssuedOnce
-----------------------------------------------------------------------------
(* Action properties. *)

(* First write wins: a recorded step result is never replaced or lost while *)
(* the run exists, so a later attempt reuses what an earlier one computed.  *)
StepWriteOnce ==
    [][\A r \in RunIds, s \in StepNames :
          steps[r][s] # NULL /\ runs'[r].status # "absent" => steps'[r][s] = steps[r][s]]_vars

(* A waiter only goes away together with a result for the step it stands    *)
(* for: neither a signal nor a timeout that claims the run drops the wait.  *)
WaitResolved ==
    [][\A r \in RunIds, s \in StepNames :
          event_waiters[r][s] # NULL /\ event_waiters'[r][s] = NULL => steps'[r][s] # NULL]_vars

(* A running run leaves its owner only by an operation that owner is told   *)
(* the outcome of, or after its lease ran out on the wall clock.            *)
LeaseRespected ==
    [][\A r \in RunIds :
          /\ runs[r].status = "running"
          /\ runs'[r].worker_id # runs[r].worker_id
          /\ told'[runs[r].worker_id] = "open"
          => runs'[r].status = "pending" /\ runs[r].lease_until < clock]_vars

(* A finished run is final: it is never restarted, and is only ever deleted *)
(* once its retention is over.                                              *)
TerminalFinal ==
    [][\A r \in RunIds :
          runs[r].status \in Terminal =>
              \/ runs'[r] = runs[r]
              \/ runs'[r] = NoRow /\ runs[r].finished_at + Retention <= clock]_vars
-----------------------------------------------------------------------------
(* What is seen of a run without tables, leases and clocks. *)
Lifecycle == INSTANCE RunLifecycle WITH
    Attempts <- Owners, Values <- Results, TimedOut <- JsonNull, Nothing <- NULL,
    phase <- [r \in RunIds |-> runs[r].status],
    holder <- [r \in RunIds |-> runs[r].worker_id],
    results <- steps,
    started <- {o \in Owners : told[o] # "none"}

(* The store implements the abstract life of a run: whatever delayed,       *)
(* repeated or stale calls arrive, every commit is one of its steps.  In    *)
(* particular a signal or a timeout never writes into a run that an attempt *)
(* executes, and an attempt writes only into the run it holds.              *)
ImplementsLifecycle == Lifecycle!Spec
=============================================================================
