---------------------------- MODULE RunsDb_proofs ----------------------------
(***************************************************************************)
(* Theorems about RunsDb, for every set of runs, workers, steps and events *)
(* and every choice of clock readings.                                     *)
(***************************************************************************)
EXTENDS RunsDb, FiniteSetTheorems, TLAPS

(* A lease computed from a clock reading is a time.                        *)
LEMMA LeaseUntilType ==
    ASSUME NEW t \in Nat, NEW ms \in LeaseMs
    PROVE  LeaseUntil(t, ms) \in Nat
  BY ConstantsAssumption DEF LeaseUntil, ClampLeaseMs

(* A clock reading is a natural number that the wall clock has reached.    *)
LEMMA ReadingsType ==
    ASSUME TypeOK, NEW t \in Readings
    PROVE  t \in Nat /\ t <= clock
  BY DEF Readings, TypeOK

(* The deadline of a wait is a time, i64::MAX when it has none.            *)
LEMMA OrForeverType ==
    ASSUME NEW t \in Nat \cup {NULL}
    PROVE  OrForever(t) \in Nat
  BY ConstantsAssumption DEF OrForever

-----------------------------------------------------------------------------
(* What each UPDATE statement does to the columns of a row.                *)

(* The UPDATE of claim.                                                    *)
LEMMA ClaimedRow ==
    ASSUME NEW row \in Row, NEW o \in Owners, NEW lease \in Nat
    PROVE  LET new == Claimed(row, o, lease) IN
           /\ new \in Row /\ new.status = "running" /\ new.worker_id = o
           /\ new.lease_until = lease /\ new.attempts = row.attempts + 1
           /\ new.run_at = row.run_at /\ new.finished_at = row.finished_at
<1>1. row.attempts + 1 \in Int
  BY DEF Row
<1> QED
  BY <1>1 DEF Claimed, Row, Statuses

(* The UPDATE of heartbeat.                                                *)
LEMMA RenewedRow ==
    ASSUME NEW row \in Row, NEW lease \in Nat
    PROVE  LET new == Renewed(row, lease) IN
           /\ new \in Row /\ new.lease_until = lease
           /\ new.status = row.status /\ new.worker_id = row.worker_id
           /\ new.attempts = row.attempts /\ new.run_at = row.run_at
           /\ new.finished_at = row.finished_at
  BY DEF Renewed, Row

(* The UPDATE of signal.                                                   *)
LEMMA WokenRow ==
    ASSUME NEW row \in Row, NEW t \in Nat
    PROVE  LET new == Woken(row, t) IN
           /\ new \in Row /\ new.run_at = t
           /\ new.status = row.status /\ new.worker_id = row.worker_id
           /\ new.attempts = row.attempts /\ new.lease_until = row.lease_until
           /\ new.finished_at = row.finished_at
  BY DEF Woken, Row

(* The UPDATE of complete, cancel and fail(finalize).                      *)
LEMMA FinishedRow ==
    ASSUME NEW row \in Row, NEW st \in Terminal, NEW t \in Nat
    PROVE  LET new == Finished(row, st, t) IN
           /\ new \in Row /\ new.status = st /\ new.worker_id = NULL
           /\ new.lease_until = NULL /\ new.attempts = row.attempts
           /\ new.run_at = row.run_at /\ new.finished_at = t
  BY DEF Finished, Row, Statuses

(* The UPDATE of the lease reclaimer.                                      *)
LEMMA ReleasedRow ==
    ASSUME NEW row \in Row
    PROVE  LET new == Released(row) IN
           /\ new \in Row /\ new.status = "pending" /\ new.worker_id = NULL
           /\ new.lease_until = NULL /\ new.attempts = row.attempts
           /\ new.run_at = row.run_at /\ new.finished_at = row.finished_at
  BY DEF Released, Row, Statuses

(* The UPDATE of fail with a next_run_at.                                  *)
LEMMA RescheduledRow ==
    ASSUME NEW row \in Row, NEW at \in Nat
    PROVE  LET new == Rescheduled(row, at) IN
           /\ new \in Row /\ new.status = "pending" /\ new.worker_id = NULL
           /\ new.lease_until = NULL /\ new.attempts = row.attempts
           /\ new.run_at = at /\ new.finished_at = row.finished_at
  BY DEF Rescheduled, Released, Row, Statuses

(* The UPDATE of defer and wait_for_event.                                 *)
LEMMA ParkedRow ==
    ASSUME NEW row \in Row, NEW wake \in Nat \cup {NULL}
    PROVE  LET new == Parked(row, wake) IN
           /\ new \in Row /\ new.status = "pending" /\ new.worker_id = NULL
           /\ new.lease_until = NULL /\ new.attempts = row.attempts - 1
           /\ new.run_at = OrForever(wake) /\ new.finished_at = row.finished_at
<1>1. row.attempts - 1 \in Int
  BY DEF Row
<1> DEFINE mid == Rescheduled(row, OrForever(wake))
<1>2. /\ mid \in Row /\ mid.status = "pending" /\ mid.worker_id = NULL
      /\ mid.lease_until = NULL /\ mid.attempts = row.attempts
      /\ mid.run_at = OrForever(wake) /\ mid.finished_at = row.finished_at
  BY RescheduledRow, OrForeverType
<1>3. Parked(row, wake) = [mid EXCEPT !.attempts = mid.attempts - 1]
  BY DEF Parked
<1> HIDE DEF mid
<1> QED
  BY <1>1, <1>2, <1>3 DEF Row

(* Replacing one row of the table.                                         *)
LEMMA TableUpdate ==
    ASSUME TypeOK, NEW r \in RunIds, NEW row \in Row,
           runs' = [runs EXCEPT ![r] = row]
    PROVE  /\ runs' \in [RunIds -> Row]
           /\ runs'[r] = row
           /\ \A q \in RunIds \ {r} : runs'[q] = runs[q]
  BY DEF TypeOK
-----------------------------------------------------------------------------
(* Every operation of the store keeps the tables and the history well typed. *)
LEMMA TypeStep == TypeOK /\ [Next]_vars => TypeOK'
<1> SUFFICES ASSUME TypeOK, [Next]_vars PROVE TypeOK'
  OBVIOUS
<1>a. \A r \in RunIds : runs[r] \in Row
  BY DEF TypeOK
<1>1. ASSUME NEW r \in RunIds, NEW n \in Names, NEW at \in WakeTimes \cup Readings,
             Enqueue(r, n, at)
      PROVE  TypeOK'
  <2>1. at \in Nat
    BY ConstantsAssumption, ReadingsType
  <2> QED
    BY <1>1, <2>1 DEF TypeOK, Enqueue, Row, Statuses
<1>2. ASSUME NEW o \in Owners, NEW r \in RunIds, NEW ns \in SUBSET Names,
             NEW t \in Readings, NEW ms \in LeaseMs, Claim(o, r, ns, t, ms)
      PROVE  TypeOK'
  <2>1. LeaseUntil(t, ms) \in Nat
    BY ReadingsType, LeaseUntilType
  <2>2. Claimed(runs[r], o, LeaseUntil(t, ms)) \in Row
    BY <1>a, <2>1, ClaimedRow
  <2>3. runs' \in [RunIds -> Row]
    BY <1>2, <2>2, TableUpdate DEF Claim
  <2> QED
    BY <1>2, <2>3 DEF TypeOK, Claim, Answers
<1>3. ASSUME NEW o \in Owners, NEW r \in RunIds, OwnerStep(o, r)
      PROVE  TypeOK'
  <2>1. ASSUME NEW t \in Readings, NEW ms \in LeaseMs, Heartbeat(o, r, t, ms)
        PROVE  TypeOK'
    <3>1. runs' \in [RunIds -> Row]
      BY <1>a, <2>1, ReadingsType, LeaseUntilType, RenewedRow, TableUpdate DEF Heartbeat
    <3> QED
      BY <2>1, <3>1 DEF TypeOK, Heartbeat
  <2>2. ASSUME NEW s \in StepNames, NEW v \in Results, SaveStep(o, r, s, v)
        PROVE  TypeOK'
    BY <2>2 DEF TypeOK, SaveStep
  <2>3. ASSUME NEW t \in Readings, NEW st \in Terminal, Finish(o, r, st, t)
        PROVE  TypeOK'
    <3>1. runs' \in [RunIds -> Row]
      BY <1>a, <2>3, ReadingsType, FinishedRow, TableUpdate DEF Finish
    <3> QED
      BY <2>3, <3>1 DEF TypeOK, Finish, Answers
  <2>4. ASSUME NEW next \in WakeTimes, FailRetry(o, r, next)
        PROVE  TypeOK'
    <3>1. runs' \in [RunIds -> Row]
      BY <1>a, <2>4, ConstantsAssumption, RescheduledRow, TableUpdate DEF FailRetry
    <3> QED
      BY <2>4, <3>1 DEF TypeOK, FailRetry, Answers
  <2>5. ASSUME NEW wake \in WakeTimes \cup {NULL}, Defer(o, r, wake)
        PROVE  TypeOK'
    <3>1. runs' \in [RunIds -> Row]
      BY <1>a, <2>5, ConstantsAssumption, ParkedRow, TableUpdate DEF Defer
    <3> QED
      BY <2>5, <3>1 DEF TypeOK, Defer, Answers
  <2>6. ASSUME NEW s \in StepNames, NEW e \in Events,
               NEW timeout \in WakeTimes \cup {NULL}, WaitForEvent(o, r, s, e, timeout)
        PROVE  TypeOK'
    <3>1. runs' \in [RunIds -> Row]
      BY <1>a, <2>6, ConstantsAssumption, ParkedRow, TableUpdate DEF WaitForEvent
    <3>2. [event |-> e, expires_at |-> timeout] \in Waiter
      BY ConstantsAssumption DEF Waiter
    <3> QED
      BY <2>6, <3>1, <3>2 DEF TypeOK, WaitForEvent, Answers
  <2> QED
    BY <1>3, <2>1, <2>2, <2>3, <2>4, <2>5, <2>6
       DEF OwnerStep, Complete, Cancel, FailDead, Terminal
<1>4. ASSUME NEW o \in Owners, StaleCall(o)
      PROVE  TypeOK'
  BY <1>4 DEF TypeOK, StaleCall, Answers
<1>5. ASSUME NEW t \in Readings, ReclaimExpired(t)
      PROVE  TypeOK'
  BY <1>a, <1>5, ReleasedRow DEF TypeOK, ReclaimExpired
<1>6. ASSUME NEW e \in Events, NEW v \in Results, NEW t \in Readings, Signal(e, v, t)
      PROVE  TypeOK'
  <2>1. \A r \in RunIds : Woken(runs[r], t) \in Row
    BY <1>a, ReadingsType, WokenRow
  <2> QED
    BY <1>a, <1>6, <2>1 DEF TypeOK, Signal
<1>7. ASSUME NEW D \in SUBSET RunIds, NEW t \in Readings, PruneFinishedBefore(D, t)
      PROVE  TypeOK'
  <2>1. NoRow \in Row
    BY DEF NoRow, Row, Statuses
  <2> QED
    BY <1>a, <1>7, <2>1 DEF TypeOK, PruneFinishedBefore
<1>8. CASE Tick
  BY <1>8, ConstantsAssumption DEF TypeOK, Tick
<1>9. CASE UNCHANGED vars
  BY <1>9 DEF TypeOK, vars
<1> QED
  BY <1>1, <1>2, <1>3, <1>4, <1>5, <1>6, <1>7, <1>8, <1>9 DEF Next

(* Type correctness of every state the store's operations can produce.       *)
THEOREM TypeCorrect == Spec => []TypeOK
<1>1. Init => TypeOK
  BY ConstantsAssumption DEF Init, TypeOK, Row, NoRow, Statuses, Answers
<1> QED
  BY <1>1, TypeStep, PTL DEF Spec
-----------------------------------------------------------------------------
(* Claiming under a fresh owner keeps every part of the invariant.           *)
LEMMA ClaimStep ==
    ASSUME IInv, TypeOK', NEW o \in Owners, NEW r \in RunIds, NEW ns \in SUBSET Names,
           NEW t \in Readings, NEW ms \in LeaseMs, Claim(o, r, ns, t, ms)
    PROVE  IInv'
<1> DEFINE row == Claimed(runs[r], o, LeaseUntil(t, ms))
<1>1. t \in Nat /\ t <= clock /\ clock < Forever /\ LeaseUntil(t, ms) \in Nat
  BY ConstantsAssumption, ReadingsType, LeaseUntilType DEF IInv, TypeOK
<1>2. /\ row \in Row /\ row.status = "running" /\ row.worker_id = o
      /\ row.lease_until \in Nat /\ row.attempts = runs[r].attempts + 1
      /\ row.run_at = runs[r].run_at /\ row.finished_at = runs[r].finished_at
  <2>1. runs[r] \in Row
    BY DEF IInv, TypeOK
  <2> QED
    BY <1>1, <2>1, ClaimedRow
<1>3. runs'[r] = row /\ \A q \in RunIds \ {r} : runs'[q] = runs[q]
  BY <1>2, TableUpdate DEF IInv, Claim
<1> HIDE DEF row
<1>4. runs[r].status = "pending" /\ runs[r].run_at <= t /\ told[o] = "none" /\ claimOf[o] = NULL
  BY DEF Claim, Claimable, IInv, IssuedOnce
<1>5. /\ claimOf'[o] = r /\ told'[o] = "open"
      /\ \A p \in Owners \ {o} : claimOf'[p] = claimOf[p] /\ told'[p] = told[p]
  BY DEF Claim, IInv, TypeOK
<1>6. SoleOwner'
  BY <1>2, <1>3, <1>4, <1>5, ConstantsAssumption DEF IInv, SoleOwner
<1>7. AttemptsAccounting'
  <2>1. Counted(r)' = Counted(r) \cup {o} /\ o \notin Counted(r)
    BY <1>4, <1>5, ConstantsAssumption DEF Counted
  <2>2. \A q \in RunIds \ {r} : Counted(q)' = Counted(q)
    BY <1>4, <1>5, ConstantsAssumption DEF Counted
  <2>3. IsFiniteSet(Counted(r)') /\ Cardinality(Counted(r)') = Cardinality(Counted(r)) + 1
    BY <2>1, FS_AddElement DEF IInv, AttemptsAccounting
  <2> QED
    BY <1>2, <1>3, <2>2, <2>3 DEF IInv, AttemptsAccounting
<1>8. FinishedOnce'
  <2>1. \A p \in Owners : told'[p] \in Terminal =>
           p # o /\ told[p] \in Terminal /\ claimOf'[p] = claimOf[p] /\ claimOf[p] # r
    BY <1>4, <1>5, ConstantsAssumption DEF IInv, FinishedOnce, Terminal
  <2>2. \A p \in Owners : claimOf[p] # NULL => claimOf[p] \in RunIds
    BY DEF IInv, TypeOK
  <2> QED
    BY <1>3, <1>5, <2>1, <2>2 DEF IInv, FinishedOnce
<1>9. WaiterParked'
  <2>1. \A s \in StepNames : event_waiters'[r][s] = NULL
    BY <1>1, <1>4, ConstantsAssumption
       DEF IInv, TypeOK, WaiterParked, Claim, ExpiredWaiter, OrForever
  <2>2. \A q \in RunIds \ {r} : event_waiters'[q] = event_waiters[q]
    BY DEF Claim, IInv, TypeOK
  <2> QED
    BY <1>3, <2>1, <2>2 DEF IInv, WaiterParked
<1>10. NoOrphans'
  <2>1. \A q \in RunIds \ {r} : event_waiters'[q] = event_waiters[q] /\ steps'[q] = steps[q]
    BY DEF Claim, IInv, TypeOK
  <2> QED
    BY <1>2, <1>3, <1>4, <1>5, <2>1 DEF IInv, NoOrphans, Terminal
<1>11. IssuedOnce'
  BY <1>5 DEF IInv, IssuedOnce
<1> QED
  BY <1>6, <1>7, <1>8, <1>9, <1>10, <1>11 DEF IInv

(* Completing, cancelling or failing a run for good: no other attempt can    *)
(* have finished it before, because the run was still running.               *)
LEMMA FinishStep ==
    ASSUME IInv, TypeOK', NEW o \in Owners, NEW r \in RunIds, NEW st \in Terminal,
           NEW t \in Readings, Finish(o, r, st, t)
    PROVE  IInv'
<1>1. runs[r] \in Row /\ t \in Nat
  BY ReadingsType DEF IInv, TypeOK
<1> DEFINE row == Finished(runs[r], st, t)
<1>2. /\ row \in Row /\ row.status = st /\ row.worker_id = NULL
      /\ row.lease_until = NULL /\ row.attempts = runs[r].attempts
      /\ row.finished_at \in Nat
  BY <1>1, FinishedRow
<1>3. runs'[r] = row /\ \A q \in RunIds \ {r} : runs'[q] = runs[q]
  BY <1>2, TableUpdate DEF IInv, Finish
<1> HIDE DEF row
<1>4. /\ runs[r].status = "running" /\ runs[r].worker_id = o
      /\ told[o] = "open" /\ claimOf[o] = r
  BY DEF Finish, Owns, IInv, SoleOwner
<1>5. /\ told'[o] = st /\ \A p \in Owners \ {o} : told'[p] = told[p]
      /\ claimOf' = claimOf /\ steps' = steps /\ event_waiters' = event_waiters
  BY DEF Finish, IInv, TypeOK
<1>6. SoleOwner'
  BY <1>2, <1>3, <1>4, <1>5 DEF IInv, SoleOwner, Terminal
<1>7. AttemptsAccounting'
  <2>1. \A q \in RunIds : Counted(q)' = Counted(q)
    BY <1>4, <1>5 DEF Counted, Terminal
  <2> QED
    BY <1>2, <1>3, <2>1 DEF IInv, AttemptsAccounting
<1>8. FinishedOnce'
  <2>1. \A p \in Owners \ {o} : claimOf[p] = r => told[p] \notin Terminal
    BY <1>4, ConstantsAssumption DEF IInv, FinishedOnce, Terminal
  <2>2. \A p \in Owners : claimOf[p] # NULL => claimOf[p] \in RunIds
    BY DEF IInv, TypeOK
  <2> QED
    BY <1>2, <1>3, <1>4, <1>5, <2>1, <2>2 DEF IInv, FinishedOnce
<1>9. WaiterParked'
  BY <1>3, <1>4, <1>5 DEF IInv, WaiterParked
<1>10. NoOrphans'
  BY <1>2, <1>3, <1>5, ConstantsAssumption DEF IInv, NoOrphans, Terminal
<1>11. IssuedOnce'
  BY <1>4, <1>5 DEF IInv, IssuedOnce, Terminal
<1> QED
  BY <1>6, <1>7, <1>8, <1>9, <1>10, <1>11 DEF IInv

(* A failed attempt that will be retried keeps counting as an attempt.       *)
LEMMA FailRetryStep ==
    ASSUME IInv, TypeOK', NEW o \in Owners, NEW r \in RunIds, NEW next \in WakeTimes,
           FailRetry(o, r, next)
    PROVE  IInv'
<1>1. runs[r] \in Row /\ next \in Nat
  BY ConstantsAssumption DEF IInv, TypeOK
<1> DEFINE row == Rescheduled(runs[r], next)
<1>2. /\ row \in Row /\ row.status = "pending" /\ row.worker_id = NULL
      /\ row.lease_until = NULL /\ row.attempts = runs[r].attempts
      /\ row.finished_at = runs[r].finished_at
  BY <1>1, RescheduledRow
<1>3. runs'[r] = row /\ \A q \in RunIds \ {r} : runs'[q] = runs[q]
  BY <1>2, TableUpdate DEF IInv, FailRetry
<1> HIDE DEF row
<1>4. /\ runs[r].status = "running" /\ runs[r].worker_id = o
      /\ told[o] = "open" /\ claimOf[o] = r
  BY DEF FailRetry, Owns, IInv, SoleOwner
<1>5. /\ told'[o] = "retry" /\ \A p \in Owners \ {o} : told'[p] = told[p]
      /\ claimOf' = claimOf /\ steps' = steps /\ event_waiters' = event_waiters
  BY DEF FailRetry, IInv, TypeOK
<1>6. SoleOwner'
  BY <1>2, <1>3, <1>4, <1>5 DEF IInv, SoleOwner
<1>7. AttemptsAccounting'
  <2>1. \A q \in RunIds : Counted(q)' = Counted(q)
    BY <1>4, <1>5 DEF Counted
  <2> QED
    BY <1>2, <1>3, <2>1 DEF IInv, AttemptsAccounting
<1>8. FinishedOnce'
  <2>1. \A p \in Owners : told'[p] \in Terminal =>
           told[p] = told'[p] /\ claimOf[p] # r /\ claimOf[p] \in RunIds \cup {NULL}
    BY <1>4, <1>5, ConstantsAssumption DEF IInv, TypeOK, FinishedOnce, Terminal
  <2> QED
    BY <1>3, <1>5, <2>1 DEF IInv, FinishedOnce
<1>9. WaiterParked'
  BY <1>3, <1>4, <1>5 DEF IInv, WaiterParked
<1>10. NoOrphans'
  BY <1>2, <1>3, <1>4, <1>5 DEF IInv, NoOrphans, Terminal
<1>11. IssuedOnce'
  BY <1>4, <1>5 DEF IInv, IssuedOnce
<1> QED
  BY <1>6, <1>7, <1>8, <1>9, <1>10, <1>11 DEF IInv

(* Parking a run, whether or not a waiter is registered with it: the         *)
(* attempt is given back, and the owner is no longer counted.                *)
LEMMA ParkStep ==
    ASSUME IInv, TypeOK', NEW o \in Owners, NEW r \in RunIds,
           NEW wake \in WakeTimes \cup {NULL}, Owns(o, r),
           runs' = [runs EXCEPT ![r] = Parked(@, wake)],
           told' = [told EXCEPT ![o] = "parked"],
           UNCHANGED <<steps, clock, claimOf>>
    PROVE  /\ SoleOwner' /\ AttemptsAccounting' /\ FinishedOnce' /\ IssuedOnce'
           /\ runs[r].status = "running" /\ runs'[r].status = "pending"
           /\ runs'[r].run_at = OrForever(wake)
           /\ runs'[r].finished_at = runs[r].finished_at
           /\ \A q \in RunIds \ {r} : runs'[q] = runs[q]
<1>1. runs[r] \in Row /\ wake \in Nat \cup {NULL}
  BY ConstantsAssumption DEF IInv, TypeOK
<1> DEFINE row == Parked(runs[r], wake)
<1>2. /\ row \in Row /\ row.status = "pending" /\ row.worker_id = NULL
      /\ row.lease_until = NULL /\ row.attempts = runs[r].attempts - 1
      /\ row.run_at = OrForever(wake) /\ row.finished_at = runs[r].finished_at
  BY <1>1, ParkedRow
<1>3. runs'[r] = row /\ \A q \in RunIds \ {r} : runs'[q] = runs[q]
  BY <1>2, TableUpdate DEF IInv
<1> HIDE DEF row
<1>4. /\ runs[r].status = "running" /\ runs[r].worker_id = o
      /\ told[o] = "open" /\ claimOf[o] = r
  BY DEF Owns, IInv, SoleOwner
<1>5. told'[o] = "parked" /\ \A p \in Owners \ {o} : told'[p] = told[p]
  BY DEF IInv, TypeOK
<1>6. SoleOwner'
  BY <1>2, <1>3, <1>4, <1>5 DEF IInv, SoleOwner
<1>7. AttemptsAccounting'
  <2>1. Counted(r)' = Counted(r) \ {o} /\ o \in Counted(r)
    BY <1>4, <1>5 DEF Counted
  <2>2. \A q \in RunIds \ {r} : Counted(q)' = Counted(q)
    BY <1>4, <1>5 DEF Counted
  <2>3. IsFiniteSet(Counted(r)') /\ Cardinality(Counted(r)') = Cardinality(Counted(r)) - 1
    BY <2>1, FS_RemoveElement DEF IInv, AttemptsAccounting
  <2> QED
    BY <1>2, <1>3, <2>2, <2>3 DEF IInv, AttemptsAccounting
<1>8. FinishedOnce'
  <2>1. \A p \in Owners : told'[p] \in Terminal =>
           told[p] = told'[p] /\ claimOf[p] # r /\ claimOf[p] \in RunIds \cup {NULL}
    BY <1>4, <1>5, ConstantsAssumption DEF IInv, TypeOK, FinishedOnce, Terminal
  <2> QED
    BY <1>3, <1>5, <2>1 DEF IInv, FinishedOnce
<1>9. IssuedOnce'
  BY <1>4, <1>5 DEF IInv, IssuedOnce
<1> QED
  BY <1>2, <1>3, <1>4, <1>6, <1>7, <1>8, <1>9

(* Sleeping: no waiter is involved.                                          *)
LEMMA DeferStep ==
    ASSUME IInv, TypeOK', NEW o \in Owners, NEW r \in RunIds,
           NEW wake \in WakeTimes \cup {NULL}, Defer(o, r, wake)
    PROVE  IInv'
<1>1. /\ SoleOwner' /\ AttemptsAccounting' /\ FinishedOnce' /\ IssuedOnce'
      /\ runs[r].status = "running" /\ runs'[r].status = "pending"
      /\ runs'[r].finished_at = runs[r].finished_at
      /\ \A q \in RunIds \ {r} : runs'[q] = runs[q]
  BY ParkStep DEF Defer
<1>2. UNCHANGED <<steps, event_waiters, claimOf>>
  BY DEF Defer
<1>3. WaiterParked'
  BY <1>1, <1>2 DEF IInv, WaiterParked
<1>4. NoOrphans'
  BY <1>1, <1>2 DEF IInv, NoOrphans, Terminal
<1> QED
  BY <1>1, <1>3, <1>4 DEF IInv

(* Waiting for an event: the running run had no waiter, so the one that is   *)
(* registered is its only one, with the deadline the run is parked until.    *)
LEMMA WaitForEventStep ==
    ASSUME IInv, TypeOK', NEW o \in Owners, NEW r \in RunIds, NEW s \in StepNames,
           NEW e \in Events, NEW timeout \in WakeTimes \cup {NULL},
           WaitForEvent(o, r, s, e, timeout)
    PROVE  IInv'
<1>1. /\ SoleOwner' /\ AttemptsAccounting' /\ FinishedOnce' /\ IssuedOnce'
      /\ runs[r].status = "running" /\ runs'[r].status = "pending"
      /\ runs'[r].run_at = OrForever(timeout)
      /\ runs'[r].finished_at = runs[r].finished_at
      /\ \A q \in RunIds \ {r} : runs'[q] = runs[q]
  BY ParkStep DEF WaitForEvent
<1>2. UNCHANGED <<steps, claimOf>>
  BY DEF WaitForEvent
<1>3. /\ event_waiters'[r][s].expires_at = timeout
      /\ \A q \in StepNames \ {s} : event_waiters'[r][q] = event_waiters[r][q]
      /\ \A q \in RunIds \ {r} : event_waiters'[q] = event_waiters[q]
  BY DEF WaitForEvent, IInv, TypeOK
<1>4. \A q \in StepNames : event_waiters[r][q] = NULL
  BY <1>1 DEF IInv, WaiterParked
<1>5. WaiterParked'
  BY <1>1, <1>3, <1>4 DEF IInv, WaiterParked
<1>6. NoOrphans'
  BY <1>1, <1>2, <1>3 DEF IInv, NoOrphans, Terminal
<1> QED
  BY <1>1, <1>5, <1>6 DEF IInv

(* A new run starts with no claim, step or waiter of an earlier one.         *)
LEMMA EnqueueStep ==
    ASSUME IInv, TypeOK', NEW r \in RunIds, NEW n \in Names,
           NEW at \in WakeTimes \cup Readings, Enqueue(r, n, at)
    PROVE  IInv'
<1>1. /\ runs[r].status = "absent" /\ runs[r].attempts = 0 /\ runs[r].finished_at = NULL
      /\ \A s \in StepNames : event_waiters[r][s] = NULL
      /\ \A o \in Owners : claimOf[o] # r
  BY DEF Enqueue, IInv, NoOrphans, NoRow
<1>2. /\ runs'[r].status = "pending" /\ runs'[r].worker_id = NULL
      /\ runs'[r].lease_until = NULL /\ runs'[r].attempts = 0
      /\ runs'[r].finished_at = NULL
      /\ \A q \in RunIds \ {r} : runs'[q] = runs[q]
  BY DEF Enqueue, IInv, TypeOK
<1>3. UNCHANGED <<steps, event_waiters, claimOf, told>>
  BY DEF Enqueue
<1>4. SoleOwner'
  BY <1>2, <1>3 DEF IInv, SoleOwner
<1>5. AttemptsAccounting'
  <2>1. \A q \in RunIds : Counted(q)' = Counted(q)
    BY <1>3 DEF Counted
  <2> QED
    BY <1>1, <1>2, <2>1 DEF IInv, AttemptsAccounting
<1>6. FinishedOnce'
  BY <1>1, <1>2, <1>3 DEF IInv, TypeOK, FinishedOnce
<1>7. WaiterParked'
  BY <1>1, <1>2, <1>3 DEF IInv, WaiterParked
<1>8. NoOrphans'
  BY <1>2, <1>3 DEF IInv, NoOrphans, Terminal
<1>9. IssuedOnce'
  BY <1>3 DEF IInv, IssuedOnce
<1> QED
  BY <1>4, <1>5, <1>6, <1>7, <1>8, <1>9 DEF IInv

(* A heartbeat only moves the lease.                                         *)
LEMMA HeartbeatStep ==
    ASSUME IInv, TypeOK', NEW o \in Owners, NEW r \in RunIds, NEW t \in Readings,
           NEW ms \in LeaseMs, Heartbeat(o, r, t, ms)
    PROVE  IInv'
<1>1. runs[r] \in Row /\ LeaseUntil(t, ms) \in Nat
  BY ReadingsType, LeaseUntilType DEF IInv, TypeOK
<1> DEFINE row == Renewed(runs[r], LeaseUntil(t, ms))
<1>2. /\ row \in Row /\ row.lease_until \in Nat /\ row.status = runs[r].status
      /\ row.worker_id = runs[r].worker_id /\ row.attempts = runs[r].attempts
      /\ row.run_at = runs[r].run_at /\ row.finished_at = runs[r].finished_at
  BY <1>1, RenewedRow
<1>3. runs'[r] = row /\ \A q \in RunIds \ {r} : runs'[q] = runs[q]
  BY <1>2, TableUpdate DEF IInv, Heartbeat
<1> HIDE DEF row
<1>4. UNCHANGED <<steps, event_waiters, claimOf, told>> /\ runs[r].status = "running"
  BY DEF Heartbeat, Owns
<1>5. SoleOwner'
  BY <1>2, <1>3, <1>4, ConstantsAssumption DEF IInv, SoleOwner
<1>6. AttemptsAccounting'
  <2>1. \A q \in RunIds : Counted(q)' = Counted(q)
    BY <1>4 DEF Counted
  <2> QED
    BY <1>2, <1>3, <2>1 DEF IInv, AttemptsAccounting
<1>7. FinishedOnce'
  BY <1>2, <1>3, <1>4 DEF IInv, TypeOK, FinishedOnce
<1>8. WaiterParked'
  BY <1>2, <1>3, <1>4 DEF IInv, WaiterParked
<1>9. NoOrphans'
  BY <1>2, <1>3, <1>4 DEF IInv, NoOrphans
<1>10. IssuedOnce'
  BY <1>4 DEF IInv, IssuedOnce
<1> QED
  BY <1>5, <1>6, <1>7, <1>8, <1>9, <1>10 DEF IInv

(* A checkpoint writes the steps of a run that is running, hence not absent. *)
LEMMA SaveStepStep ==
    ASSUME IInv, TypeOK', NEW o \in Owners, NEW r \in RunIds, NEW s \in StepNames,
           NEW v \in Results, SaveStep(o, r, s, v)
    PROVE  IInv'
<1>1. /\ UNCHANGED <<runs, event_waiters, claimOf, told>> /\ runs[r].status = "running"
      /\ \A q \in RunIds \ {r} : steps'[q] = steps[q]
  BY DEF SaveStep, Owns, IInv, TypeOK
<1>2. SoleOwner' /\ FinishedOnce' /\ WaiterParked' /\ IssuedOnce'
  BY <1>1 DEF IInv, SoleOwner, FinishedOnce, WaiterParked, IssuedOnce
<1>3. AttemptsAccounting'
  BY <1>1 DEF IInv, AttemptsAccounting, Counted
<1>4. NoOrphans'
  BY <1>1 DEF IInv, NoOrphans
<1> QED
  BY <1>2, <1>3, <1>4 DEF IInv

(* An attempt that is refused owned nothing.                                 *)
LEMMA StaleCallStep ==
    ASSUME IInv, TypeOK', NEW o \in Owners, StaleCall(o)
    PROVE  IInv'
<1>1. /\ UNCHANGED <<runs, steps, event_waiters, claimOf>> /\ told[o] = "open"
      /\ told'[o] = "stale" /\ \A p \in Owners \ {o} : told'[p] = told[p]
      /\ \A r \in RunIds : runs[r].status = "running" => runs[r].worker_id # o
  BY DEF StaleCall, Owns, IInv, TypeOK
<1>2. SoleOwner'
  BY <1>1 DEF IInv, SoleOwner
<1>3. AttemptsAccounting'
  <2>1. \A q \in RunIds : Counted(q)' = Counted(q)
    BY <1>1 DEF Counted
  <2> QED
    BY <1>1, <2>1 DEF IInv, AttemptsAccounting
<1>4. FinishedOnce' /\ WaiterParked' /\ NoOrphans' /\ IssuedOnce'
  BY <1>1 DEF IInv, FinishedOnce, WaiterParked, NoOrphans, IssuedOnce, Terminal
<1> QED
  BY <1>2, <1>3, <1>4 DEF IInv

(* Reclaiming expired leases: the owners keep counting as attempts.          *)
LEMMA ReclaimStep ==
    ASSUME IInv, TypeOK', NEW t \in Readings, ReclaimExpired(t)
    PROVE  IInv'
<1>1. \A r \in RunIds :
         \/ runs'[r] = runs[r]
         \/ /\ runs[r].status = "running" /\ runs'[r].status = "pending"
            /\ runs'[r].worker_id = NULL /\ runs'[r].lease_until = NULL
            /\ runs'[r].attempts = runs[r].attempts
            /\ runs'[r].finished_at = runs[r].finished_at
  <2> SUFFICES ASSUME NEW r \in RunIds, runs'[r] # runs[r]
               PROVE  /\ runs[r].status = "running" /\ runs'[r].status = "pending"
                      /\ runs'[r].worker_id = NULL /\ runs'[r].lease_until = NULL
                      /\ runs'[r].attempts = runs[r].attempts
                      /\ runs'[r].finished_at = runs[r].finished_at
    OBVIOUS
  <2>1. runs[r] \in Row /\ runs'[r] = Released(runs[r]) /\ runs[r].status = "running"
    BY DEF ReclaimExpired, Expired, IInv, TypeOK
  <2> QED
    BY <2>1, ReleasedRow
<1>2. UNCHANGED <<steps, event_waiters, claimOf, told>>
  BY DEF ReclaimExpired
<1>3. SoleOwner'
  BY <1>1, <1>2 DEF IInv, SoleOwner
<1>4. AttemptsAccounting'
  <2>1. \A q \in RunIds : Counted(q)' = Counted(q)
    BY <1>2 DEF Counted
  <2> QED
    BY <1>1, <2>1 DEF IInv, AttemptsAccounting
<1>5. FinishedOnce'
  <2>1. \A o \in Owners : claimOf[o] # NULL /\ told[o] \in Terminal =>
           runs'[claimOf[o]] = runs[claimOf[o]]
    BY <1>1 DEF IInv, TypeOK, FinishedOnce, Terminal
  <2> QED
    BY <1>2, <2>1 DEF IInv, FinishedOnce
<1>6. WaiterParked'
  <2>1. \A r \in RunIds, s \in StepNames : event_waiters[r][s] # NULL => runs'[r] = runs[r]
    BY <1>1 DEF IInv, WaiterParked
  <2> QED
    BY <1>2, <2>1 DEF IInv, WaiterParked
<1>7. NoOrphans'
  BY <1>1, <1>2 DEF IInv, NoOrphans, Terminal
<1>8. IssuedOnce'
  BY <1>2 DEF IInv, IssuedOnce
<1> QED
  BY <1>3, <1>4, <1>5, <1>6, <1>7, <1>8 DEF IInv

(* A signal consumes every waiter of its event; the runs it makes due had no *)
(* other waiter whose deadline would now disagree with run_at.               *)
LEMMA SignalStep ==
    ASSUME IInv, TypeOK', NEW e \in Events, NEW v \in Results, NEW t \in Readings,
           Signal(e, v, t)
    PROVE  IInv'
<1>1. \A r \in RunIds :
         \/ runs'[r] = runs[r]
         \/ /\ runs[r].status = "pending" /\ \E s \in StepNames : HasWaiter(r, s, e)
            /\ runs'[r].status = "pending" /\ runs'[r].worker_id = runs[r].worker_id
            /\ runs'[r].lease_until = runs[r].lease_until
            /\ runs'[r].attempts = runs[r].attempts
            /\ runs'[r].finished_at = runs[r].finished_at
  <2> SUFFICES ASSUME NEW r \in RunIds, runs'[r] # runs[r]
               PROVE  /\ runs[r].status = "pending" /\ \E s \in StepNames : HasWaiter(r, s, e)
                      /\ runs'[r].status = "pending" /\ runs'[r].worker_id = runs[r].worker_id
                      /\ runs'[r].lease_until = runs[r].lease_until
                      /\ runs'[r].attempts = runs[r].attempts
                      /\ runs'[r].finished_at = runs[r].finished_at
    OBVIOUS
  <2>1. /\ runs[r] \in Row /\ t \in Nat /\ runs'[r] = Woken(runs[r], t)
        /\ runs[r].status = "pending" /\ \E s \in StepNames : HasWaiter(r, s, e)
    BY ReadingsType DEF Signal, IInv, TypeOK
  <2> QED
    BY <2>1, WokenRow
<1>2. UNCHANGED <<claimOf, told>>
  BY DEF Signal
<1>3. \A r \in RunIds, s \in StepNames :
         event_waiters'[r][s] = IF HasWaiter(r, s, e) THEN NULL ELSE event_waiters[r][s]
  BY DEF Signal
<1>4. SoleOwner'
  BY <1>1, <1>2 DEF IInv, SoleOwner
<1>5. AttemptsAccounting'
  <2>1. \A q \in RunIds : Counted(q)' = Counted(q)
    BY <1>2 DEF Counted
  <2> QED
    BY <1>1, <2>1 DEF IInv, AttemptsAccounting
<1>6. FinishedOnce'
  <2>1. \A o \in Owners : claimOf[o] # NULL /\ told[o] \in Terminal =>
           runs'[claimOf[o]] = runs[claimOf[o]]
    BY <1>1 DEF IInv, TypeOK, FinishedOnce, Terminal
  <2> QED
    BY <1>2, <2>1 DEF IInv, FinishedOnce
<1>7. WaiterParked'
  <2> SUFFICES ASSUME NEW r \in RunIds, NEW s \in StepNames, event_waiters'[r][s] # NULL
               PROVE  /\ runs'[r].status = "pending"
                      /\ runs'[r].run_at = OrForever(event_waiters'[r][s].expires_at)
                      /\ \A q \in StepNames : event_waiters'[r][q] # NULL => q = s
    BY DEF WaiterParked, OrForever
  <2>1. event_waiters'[r][s] = event_waiters[r][s] /\ ~HasWaiter(r, s, e)
    BY <1>3
  <2>2. \A q \in StepNames : ~HasWaiter(r, q, e)
    BY <2>1 DEF HasWaiter, IInv, WaiterParked
  <2>3. runs'[r] = runs[r]
    BY <1>1, <2>2
  <2> QED
    BY <1>3, <2>1, <2>2, <2>3 DEF IInv, WaiterParked
<1>8. NoOrphans'
  <2>1. \A r \in RunIds : runs[r].status = "absent" =>
           \A s \in StepNames : steps'[r][s] = NULL /\ event_waiters'[r][s] = NULL
    BY DEF Signal, HasWaiter, IInv, NoOrphans
  <2> QED
    BY <1>1, <1>2, <2>1 DEF IInv, NoOrphans, Terminal
<1>9. IssuedOnce'
  BY <1>2 DEF IInv, IssuedOnce
<1> QED
  BY <1>4, <1>5, <1>6, <1>7, <1>8, <1>9 DEF IInv

(* Cleanup removes a finished run with everything that refers to it.         *)
LEMMA PruneStep ==
    ASSUME IInv, TypeOK', NEW D \in SUBSET RunIds, NEW t \in Readings,
           PruneFinishedBefore(D, t)
    PROVE  IInv'
<1>1. /\ \A r \in D : /\ runs'[r] = NoRow
                       /\ \A s \in StepNames : steps'[r][s] = NULL /\ event_waiters'[r][s] = NULL
      /\ \A r \in RunIds \ D : /\ runs'[r] = runs[r] /\ steps'[r] = steps[r]
                                /\ event_waiters'[r] = event_waiters[r]
      /\ told' = told
  BY DEF PruneFinishedBefore
<1>2. \A o \in Owners : claimOf'[o] = IF claimOf[o] \in D THEN NULL ELSE claimOf[o]
  BY DEF PruneFinishedBefore
<1>3. \A r \in D : runs[r].status \in Terminal
  BY DEF PruneFinishedBefore, Prunable
<1>4. NULL \notin D
  BY ConstantsAssumption
<1>5. SoleOwner'
  BY <1>1, <1>2 DEF IInv, SoleOwner, NoRow
<1>6. AttemptsAccounting'
  <2>1. \A q \in D : Counted(q)' = {}
    BY <1>2, <1>4 DEF Counted
  <2>2. \A q \in RunIds \ D : Counted(q)' = Counted(q)
    BY <1>1, <1>2, ConstantsAssumption DEF Counted
  <2>3. NoRow.attempts = 0
    BY DEF NoRow
  <2> QED
    BY <1>1, <2>1, <2>2, <2>3, FS_EmptySet DEF IInv, AttemptsAccounting
<1>7. FinishedOnce'
  BY <1>1, <1>2 DEF IInv, TypeOK, FinishedOnce
<1>8. WaiterParked'
  BY <1>1 DEF IInv, WaiterParked
<1>9. NoOrphans'
  <2>1. \A r \in RunIds : runs'[r].status = "absent" => \A o \in Owners : claimOf'[o] # r
    BY <1>1, <1>2, ConstantsAssumption DEF IInv, NoOrphans
  <2>2. NoRow.status = "absent" /\ NoRow.finished_at = NULL
    BY DEF NoRow
  <2> QED
    BY <1>1, <2>1, <2>2 DEF IInv, NoOrphans, Terminal
<1>10. IssuedOnce'
  BY <1>1, <1>2 DEF IInv, IssuedOnce
<1> QED
  BY <1>5, <1>6, <1>7, <1>8, <1>9, <1>10 DEF IInv

(* The strengthened invariant is inductive.                                  *)
LEMMA IInvStep == IInv /\ [Next]_vars => IInv'
<1> SUFFICES ASSUME IInv, [Next]_vars PROVE IInv'
  OBVIOUS
<1>1. TypeOK'
  BY TypeStep DEF IInv
<1>2. ASSUME NEW o \in Owners, NEW r \in RunIds, OwnerStep(o, r)
      PROVE  IInv'
  <2>1. ASSUME NEW t \in Readings, NEW st \in Terminal, Finish(o, r, st, t)
        PROVE  IInv'
    BY <1>1, <2>1, FinishStep
  <2>2. ASSUME NEW t \in Readings, Complete(o, r, t) \/ Cancel(o, r, t) \/ FailDead(o, r, t)
        PROVE  IInv'
    BY <2>1, <2>2 DEF Complete, Cancel, FailDead, Terminal
  <2>3. ASSUME NEW t \in Readings, NEW ms \in LeaseMs, Heartbeat(o, r, t, ms)
        PROVE  IInv'
    BY <1>1, <2>3, HeartbeatStep
  <2>4. ASSUME NEW s \in StepNames, NEW v \in Results, SaveStep(o, r, s, v)
        PROVE  IInv'
    BY <1>1, <2>4, SaveStepStep
  <2>5. ASSUME NEW next \in WakeTimes, FailRetry(o, r, next)
        PROVE  IInv'
    BY <1>1, <2>5, FailRetryStep
  <2>6. ASSUME NEW wake \in WakeTimes \cup {NULL}, Defer(o, r, wake)
        PROVE  IInv'
    BY <1>1, <2>6, DeferStep
  <2>7. ASSUME NEW s \in StepNames, NEW e \in Events,
               NEW timeout \in WakeTimes \cup {NULL}, WaitForEvent(o, r, s, e, timeout)
        PROVE  IInv'
    BY <1>1, <2>7, WaitForEventStep
  <2> QED
    BY <1>2, <2>2, <2>3, <2>4, <2>5, <2>6, <2>7 DEF OwnerStep
<1>3. CASE Tick \/ UNCHANGED vars
  <2>1. UNCHANGED <<runs, steps, event_waiters, claimOf, told>>
    BY <1>3 DEF Tick, vars
  <2>2. AttemptsAccounting'
    BY <2>1 DEF IInv, AttemptsAccounting, Counted
  <2> QED
    BY <1>1, <2>1, <2>2
       DEF IInv, SoleOwner, FinishedOnce, WaiterParked, NoOrphans, IssuedOnce
<1> QED
  BY <1>1, <1>2, <1>3, EnqueueStep, ClaimStep, StaleCallStep, ReclaimStep, SignalStep,
     PruneStep
     DEF Next

(* The invariant holds in the empty database.                                *)
LEMMA IInvInit == Init => IInv
<1> SUFFICES ASSUME Init PROVE IInv
  OBVIOUS
<1>1. TypeOK
  BY ConstantsAssumption DEF Init, TypeOK, Row, NoRow, Statuses, Answers
<1>2. \A r \in RunIds : Counted(r) = {} /\ runs[r].attempts = 0
  BY ConstantsAssumption DEF Init, Counted, NoRow
<1>3. AttemptsAccounting
  BY <1>2, FS_EmptySet DEF AttemptsAccounting
<1>4. SoleOwner /\ FinishedOnce /\ WaiterParked /\ NoOrphans /\ IssuedOnce
  BY ConstantsAssumption
     DEF Init, NoRow, SoleOwner, FinishedOnce, WaiterParked, NoOrphans, IssuedOnce, Terminal
<1> QED
  BY <1>1, <1>3, <1>4 DEF IInv

(* The strengthened invariant holds in every reachable state.                *)
THEOREM Invariance == Spec => []IInv
  BY IInvInit, IInvStep, PTL DEF Spec

(* Fencing: a running run has one owner, whose claim is still open, so an    *)
(* attempt that was answered with an outcome, or refused, owns nothing.      *)
THEOREM Fencing == Spec => []SoleOwner
<1>1. IInv => SoleOwner
  BY DEF IInv
<1> QED
  BY <1>1, Invariance, PTL

(* The attempts column is the number of claims that were not parked.         *)
THEOREM RetryBudget == Spec => []AttemptsAccounting
<1>1. IInv => AttemptsAccounting
  BY DEF IInv
<1> QED
  BY <1>1, Invariance, PTL

(* One attempt at most is told that it finished a run, and the run keeps the *)
(* outcome that attempt was told.                                            *)
THEOREM SingleOutcome == Spec => []FinishedOnce
<1>1. IInv => FinishedOnce
  BY DEF IInv
<1> QED
  BY <1>1, Invariance, PTL

(* A registered wait belongs to a run parked until exactly its deadline.     *)
THEOREM WaitsAreParked == Spec => []WaiterParked
<1>1. IInv => WaiterParked
  BY DEF IInv
<1> QED
  BY <1>1, Invariance, PTL
-----------------------------------------------------------------------------
(* Action properties from the same invariant. *)

(* A step's first recorded result is kept as long as the run.                *)
THEOREM StepsKept == Spec => StepWriteOnce
<1> DEFINE A == \A r \in RunIds, s \in StepNames :
                   steps[r][s] # NULL /\ runs'[r].status # "absent"
                   => steps'[r][s] = steps[r][s]
<1>1. IInv /\ [Next]_vars => [A]_vars
  <2> SUFFICES ASSUME IInv, Next, NEW r \in RunIds, NEW s \in StepNames,
                      steps[r][s] # NULL, runs'[r].status # "absent"
               PROVE  steps'[r][s] = steps[r][s]
    OBVIOUS
  <2>1. ASSUME NEW o \in Owners, NEW q \in RunIds, OwnerStep(o, q)
        PROVE  steps'[r][s] = steps[r][s]
    BY <2>1
       DEF OwnerStep, Heartbeat, SaveStep, Complete, Cancel, FailDead, Finish, FailRetry,
           Defer, WaitForEvent, IInv, TypeOK
  <2>2. ASSUME NEW o \in Owners, NEW q \in RunIds, NEW ns \in SUBSET Names,
               NEW t \in Readings, NEW ms \in LeaseMs, Claim(o, q, ns, t, ms)
        PROVE  steps'[r][s] = steps[r][s]
    BY <2>2 DEF Claim, IInv, TypeOK
  <2>3. ASSUME NEW e \in Events, NEW v \in Results, NEW t \in Readings, Signal(e, v, t)
        PROVE  steps'[r][s] = steps[r][s]
    BY <2>3 DEF Signal
  <2>4. ASSUME NEW D \in SUBSET RunIds, NEW t \in Readings, PruneFinishedBefore(D, t)
        PROVE  steps'[r][s] = steps[r][s]
    BY <2>4 DEF PruneFinishedBefore, NoRow
  <2> QED
    BY <2>1, <2>2, <2>3, <2>4 DEF Next, Enqueue, StaleCall, ReclaimExpired, Tick
<1> QED
  BY <1>1, Invariance, PTL DEF Spec, StepWriteOnce

(* A wait ends only with a result for the step that waits.                   *)
THEOREM WaitsResolved == Spec => WaitResolved
<1> DEFINE A == \A r \in RunIds, s \in StepNames :
                   event_waiters[r][s] # NULL /\ event_waiters'[r][s] = NULL
                   => steps'[r][s] # NULL
<1>1. IInv /\ [Next]_vars => [A]_vars
  <2> SUFFICES ASSUME IInv, Next, NEW r \in RunIds, NEW s \in StepNames,
                      event_waiters[r][s] # NULL, event_waiters'[r][s] = NULL
               PROVE  steps'[r][s] # NULL
    OBVIOUS
  <2> USE ConstantsAssumption
  <2>1. ASSUME NEW o \in Owners, NEW q \in RunIds, OwnerStep(o, q)
        PROVE  steps'[r][s] # NULL
    <3>1. \/ UNCHANGED event_waiters
          \/ \E x \in StepNames, e \in Events, timeout \in WakeTimes \cup {NULL} :
                WaitForEvent(o, q, x, e, timeout)
      BY <2>1 DEF OwnerStep, Heartbeat, SaveStep, Complete, Cancel, FailDead, Finish,
                  FailRetry, Defer
    <3>2. PICK x \in StepNames, e \in Events, timeout \in WakeTimes \cup {NULL} :
                WaitForEvent(o, q, x, e, timeout)
      BY <3>1
    <3>3. event_waiters'[q][x] \in Waiter
      BY <3>2 DEF WaitForEvent, Waiter, IInv, TypeOK
    <3> QED
      BY <3>2, <3>3 DEF WaitForEvent, Waiter, IInv, TypeOK
  <2>2. ASSUME NEW o \in Owners, NEW q \in RunIds, NEW ns \in SUBSET Names,
               NEW t \in Readings, NEW ms \in LeaseMs, Claim(o, q, ns, t, ms)
        PROVE  steps'[r][s] # NULL
    BY <2>2 DEF Claim, IInv, TypeOK
  <2>3. ASSUME NEW e \in Events, NEW v \in Results, NEW t \in Readings, Signal(e, v, t)
        PROVE  steps'[r][s] # NULL
    BY <2>3 DEF Signal
  <2>4. ASSUME NEW D \in SUBSET RunIds, NEW t \in Readings, PruneFinishedBefore(D, t)
        PROVE  steps'[r][s] # NULL
    BY <2>4 DEF PruneFinishedBefore, Prunable, Terminal, IInv, WaiterParked
  <2> QED
    BY <2>1, <2>2, <2>3, <2>4 DEF Next, Enqueue, StaleCall, ReclaimExpired, Tick
<1> QED
  BY <1>1, Invariance, PTL DEF Spec, WaitResolved

(* An owner loses a run without being told only when its lease is over.      *)
THEOREM LeasesRespected == Spec => LeaseRespected
<1> DEFINE A == \A r \in RunIds :
                   /\ runs[r].status = "running"
                   /\ runs'[r].worker_id # runs[r].worker_id
                   /\ told'[runs[r].worker_id] = "open"
                   => runs'[r].status = "pending" /\ runs[r].lease_until < clock
<1>1. IInv /\ [Next]_vars => [A]_vars
  <2> SUFFICES ASSUME IInv, Next, NEW r \in RunIds, runs[r].status = "running",
                      runs'[r].worker_id # runs[r].worker_id,
                      told'[runs[r].worker_id] = "open"
               PROVE  runs'[r].status = "pending" /\ runs[r].lease_until < clock
    OBVIOUS
  <2>a. \A q \in RunIds : runs[q] \in Row
    BY DEF IInv, TypeOK
  <2>1. ASSUME NEW o \in Owners, NEW q \in RunIds, OwnerStep(o, q)
        PROVE  FALSE
    <3>1. CASE \E t \in Readings, ms \in LeaseMs : Heartbeat(o, q, t, ms)
      <4>1. PICK t \in Readings, ms \in LeaseMs : Heartbeat(o, q, t, ms)
        BY <3>1
      <4>2. LeaseUntil(t, ms) \in Nat
        BY ReadingsType, LeaseUntilType DEF IInv
      <4>3. Renewed(runs[q], LeaseUntil(t, ms)).worker_id = runs[q].worker_id
        BY <2>a, <4>2, RenewedRow
      <4> QED
        BY <4>1, <4>3 DEF Heartbeat, IInv, TypeOK
    <3>2. CASE \E s \in StepNames, v \in Results : SaveStep(o, q, s, v)
      BY <3>2 DEF SaveStep
    <3>3. ASSUME Owns(o, q), told'[o] # "open",
                 \A x \in RunIds \ {q} : runs'[x] = runs[x]
          PROVE  FALSE
      BY <3>3 DEF Owns
    <3>4. CASE \/ \E t \in Readings :
                     Complete(o, q, t) \/ Cancel(o, q, t) \/ FailDead(o, q, t)
               \/ \E next \in WakeTimes : FailRetry(o, q, next)
               \/ \E wake \in WakeTimes \cup {NULL} : Defer(o, q, wake)
               \/ \E s \in StepNames, e \in Events, timeout \in WakeTimes \cup {NULL} :
                     WaitForEvent(o, q, s, e, timeout)
      <4>1. Owns(o, q) /\ \A x \in RunIds \ {q} : runs'[x] = runs[x]
        BY <3>4 DEF Complete, Cancel, FailDead, Finish, FailRetry, Defer, WaitForEvent,
                    IInv, TypeOK
      <4>2. told'[o] # "open"
        BY <3>4 DEF Complete, Cancel, FailDead, Finish, FailRetry, Defer, WaitForEvent,
                    IInv, TypeOK
      <4> QED
        BY <3>3, <4>1, <4>2
    <3> QED
      BY <2>1, <3>1, <3>2, <3>4 DEF OwnerStep
  <2>2. ASSUME NEW o \in Owners, NEW q \in RunIds, NEW ns \in SUBSET Names,
               NEW t \in Readings, NEW ms \in LeaseMs, Claim(o, q, ns, t, ms)
        PROVE  FALSE
    BY <2>2 DEF Claim, Claimable, IInv, TypeOK
  <2>3. ASSUME NEW t \in Readings, ReclaimExpired(t)
        PROVE  runs'[r].status = "pending" /\ runs[r].lease_until < clock
    <3>1. runs'[r] = Released(runs[r]) /\ Expired(r, t)
      BY <2>3 DEF ReclaimExpired
    <3>2. runs[r].lease_until \in Nat /\ runs[r].lease_until < t
      BY <2>a, <3>1 DEF Expired, Row
    <3>3. t \in Nat /\ t <= clock /\ clock \in Nat
      BY ReadingsType DEF IInv, TypeOK
    <3> QED
      BY <2>a, <3>1, <3>2, <3>3, ReleasedRow
  <2>4. ASSUME NEW e \in Events, NEW v \in Results, NEW t \in Readings, Signal(e, v, t)
        PROVE  FALSE
    BY <2>4 DEF Signal
  <2>5. ASSUME NEW D \in SUBSET RunIds, NEW t \in Readings, PruneFinishedBefore(D, t)
        PROVE  FALSE
    BY <2>5 DEF PruneFinishedBefore, Prunable, Terminal
  <2>6. ASSUME NEW q \in RunIds, NEW n \in Names, NEW at \in WakeTimes \cup Readings,
               Enqueue(q, n, at)
        PROVE  FALSE
    BY <2>6 DEF Enqueue, IInv, TypeOK
  <2> QED
    BY <2>1, <2>2, <2>3, <2>4, <2>5, <2>6 DEF Next, StaleCall, Tick
<1> QED
  BY <1>1, Invariance, PTL DEF Spec, LeaseRespected

(* A finished run never changes again and outlives its retention.            *)
THEOREM OutcomesFinal == Spec => TerminalFinal
<1> DEFINE A == \A r \in RunIds :
                   runs[r].status \in Terminal =>
                       \/ runs'[r] = runs[r]
                       \/ runs'[r] = NoRow /\ runs[r].finished_at + Retention <= clock
<1>1. IInv /\ [Next]_vars => [A]_vars
  <2> SUFFICES ASSUME IInv, Next, NEW r \in RunIds, runs[r].status \in Terminal,
                      runs'[r] # runs[r]
               PROVE  runs'[r] = NoRow /\ runs[r].finished_at + Retention <= clock
    OBVIOUS
  <2>a. runs[r].status \notin {"absent", "pending", "running"}
    BY DEF Terminal
  <2>1. ASSUME NEW o \in Owners, NEW q \in RunIds, OwnerStep(o, q)
        PROVE  FALSE
    <3>1. runs' = runs \/ (Owns(o, q) /\ \A x \in RunIds \ {q} : runs'[x] = runs[x])
      BY <2>1 DEF OwnerStep, Heartbeat, SaveStep, Complete, Cancel, FailDead, Finish,
                  FailRetry, Defer, WaitForEvent, IInv, TypeOK
    <3> QED
      BY <2>a, <3>1 DEF Owns
  <2>2. ASSUME NEW o \in Owners, NEW q \in RunIds, NEW ns \in SUBSET Names,
               NEW t \in Readings, NEW ms \in LeaseMs, Claim(o, q, ns, t, ms)
        PROVE  FALSE
    BY <2>a, <2>2 DEF Claim, Claimable, IInv, TypeOK
  <2>3. ASSUME NEW t \in Readings, ReclaimExpired(t)
        PROVE  FALSE
    BY <2>a, <2>3 DEF ReclaimExpired, Expired
  <2>4. ASSUME NEW e \in Events, NEW v \in Results, NEW t \in Readings, Signal(e, v, t)
        PROVE  FALSE
    BY <2>a, <2>4 DEF Signal
  <2>5. ASSUME NEW D \in SUBSET RunIds, NEW t \in Readings, PruneFinishedBefore(D, t)
        PROVE  runs'[r] = NoRow /\ runs[r].finished_at + Retention <= clock
    <3>1. runs'[r] = NoRow /\ r \in Prunable(t)
      BY <2>5 DEF PruneFinishedBefore
    <3>2. runs[r].finished_at \in Nat /\ runs[r].finished_at + Retention <= t
      BY <3>1 DEF Prunable, IInv, TypeOK, Row
    <3>3. t \in Nat /\ t <= clock /\ clock \in Nat /\ Retention \in Nat
      BY ReadingsType, ConstantsAssumption DEF IInv, TypeOK
    <3> QED
      BY <3>1, <3>2, <3>3
  <2>6. ASSUME NEW q \in RunIds, NEW n \in Names, NEW at \in WakeTimes \cup Readings,
               Enqueue(q, n, at)
        PROVE  FALSE
    BY <2>a, <2>6 DEF Enqueue, IInv, TypeOK
  <2> QED
    BY <2>1, <2>2, <2>3, <2>4, <2>5, <2>6 DEF Next, StaleCall, Tick
<1> QED
  BY <1>1, Invariance, PTL DEF Spec, TerminalFinal
-----------------------------------------------------------------------------
(* The refinement: what each commit is in the abstract life of a run.        *)

(* What is seen of the table, as functions on the runs.                      *)
Phase == [r \in RunIds |-> runs[r].status]
Holder == [r \in RunIds |-> runs[r].worker_id]
Started == {o \in Owners : told[o] # "none"}

(* An operation that replaces one row changes what is seen of that run only. *)
LEMMA SeenUpdate ==
    ASSUME TypeOK, NEW r \in RunIds, NEW row \in Row,
           runs' = [runs EXCEPT ![r] = row]
    PROVE  /\ Phase' = [Phase EXCEPT ![r] = row.status]
           /\ Holder' = [Holder EXCEPT ![r] = row.worker_id]
  BY TableUpdate DEF Phase, Holder

(* An answer to an owner that has started starts nobody.                     *)
LEMMA StartedKept ==
    ASSUME TypeOK, NEW o \in Owners, told[o] # "none", NEW a, a # "none",
           told' = [told EXCEPT ![o] = a]
    PROVE  Started' = Started
  BY DEF Started, TypeOK

(* Enqueue is Submit.                                                        *)
LEMMA EnqueueSubmits ==
    ASSUME IInv, NEW r \in RunIds, NEW n \in Names, NEW at \in WakeTimes \cup Readings,
           Enqueue(r, n, at)
    PROVE  Lifecycle!Submit(r)
<1> DEFINE row == [status |-> "pending", name |-> n, worker_id |-> NULL,
                   lease_until |-> NULL, run_at |-> at, attempts |-> 0,
                   finished_at |-> NULL]
<1>1. at \in Nat
  BY ConstantsAssumption, ReadingsType DEF IInv
<1>2. row \in Row /\ row.status = "pending" /\ row.worker_id = NULL
  BY <1>1 DEF Row, Statuses
<1>3. runs' = [runs EXCEPT ![r] = row] /\ runs[r].status = "absent"
      /\ steps' = steps /\ told' = told
  BY DEF Enqueue
<1> HIDE DEF row
<1>4. Phase' = [Phase EXCEPT ![r] = "pending"] /\ Holder' = [Holder EXCEPT ![r] = NULL]
  BY <1>2, <1>3, SeenUpdate DEF IInv
<1>5. Holder[r] = NULL /\ Phase[r] = "absent"
  BY <1>3 DEF Holder, Phase, IInv, SoleOwner
<1>6. Holder' = Holder
  BY <1>4, <1>5 DEF Holder
<1> QED
  BY <1>3, <1>4, <1>5, <1>6 DEF Lifecycle!Submit, Phase, Holder

(* Claim is Start: the owner is new, and the waits it answers have timed out. *)
LEMMA ClaimStarts ==
    ASSUME IInv, NEW o \in Owners, NEW r \in RunIds, NEW ns \in SUBSET Names,
           NEW t \in Readings, NEW ms \in LeaseMs, Claim(o, r, ns, t, ms)
    PROVE  Lifecycle!Start(r, o)
<1> DEFINE row == Claimed(runs[r], o, LeaseUntil(t, ms))
<1>1. row \in Row /\ row.status = "running" /\ row.worker_id = o
  BY ReadingsType, LeaseUntilType, ClaimedRow DEF IInv, TypeOK
<1>2. runs' = [runs EXCEPT ![r] = row] /\ runs[r].status = "pending"
      /\ told[o] = "none" /\ told' = [told EXCEPT ![o] = "open"]
  BY DEF Claim, Claimable
<1> HIDE DEF row
<1>3. Phase' = [Phase EXCEPT ![r] = "running"] /\ Holder' = [Holder EXCEPT ![r] = o]
  BY <1>1, <1>2, SeenUpdate DEF IInv
<1>4. Phase[r] = "pending" /\ o \notin Started
  BY <1>2 DEF Phase, Started
<1>5. Started' = Started \cup {o}
  BY <1>2 DEF Started, IInv, TypeOK
<1>6. \A s \in StepNames : \/ steps'[r][s] = steps[r][s]
                           \/ steps[r][s] = NULL /\ steps'[r][s] \in {JsonNull}
  BY DEF Claim, IInv, TypeOK
<1>7. \A q \in RunIds \ {r} : steps'[q] = steps[q]
  BY DEF Claim, IInv, TypeOK
<1> QED
  BY <1>3, <1>4, <1>5, <1>6, <1>7
     DEF Lifecycle!Start, Lifecycle!Learns, Lifecycle!Keeps, Phase, Holder, Started

(* Complete, cancel and a final failure are Conclude.                        *)
LEMMA FinishConcludes ==
    ASSUME IInv, NEW o \in Owners, NEW r \in RunIds, NEW st \in Terminal,
           NEW t \in Readings, Finish(o, r, st, t)
    PROVE  Lifecycle!Conclude(r, st)
<1> DEFINE row == Finished(runs[r], st, t)
<1>1. row \in Row /\ row.status = st /\ row.worker_id = NULL
  BY ReadingsType, FinishedRow DEF IInv, TypeOK
<1>2. runs' = [runs EXCEPT ![r] = row] /\ Owns(o, r)
      /\ told' = [told EXCEPT ![o] = st] /\ steps' = steps
  BY DEF Finish
<1> HIDE DEF row
<1>3. Phase' = [Phase EXCEPT ![r] = st] /\ Holder' = [Holder EXCEPT ![r] = NULL]
  BY <1>1, <1>2, SeenUpdate DEF IInv
<1>4. Phase[r] = "running" /\ told[o] = "open"
  BY <1>2 DEF Phase, Owns, IInv, SoleOwner
<1>5. Started' = Started
  BY <1>2, <1>4, StartedKept DEF Terminal, IInv
<1> QED
  BY <1>2, <1>3, <1>4, <1>5 DEF Lifecycle!Conclude, Phase, Holder, Started

(* An owner that gives up its run for later yields it.                       *)
LEMMA GiveUpYields ==
    ASSUME IInv, NEW o \in Owners, NEW r \in RunIds, NEW row \in Row, NEW a,
           Owns(o, r), row.status = "pending", row.worker_id = NULL, a # "none",
           runs' = [runs EXCEPT ![r] = row], told' = [told EXCEPT ![o] = a],
           steps' = steps
    PROVE  Lifecycle!Yield({r})
<1>1. Phase' = [Phase EXCEPT ![r] = "pending"] /\ Holder' = [Holder EXCEPT ![r] = NULL]
  BY SeenUpdate DEF IInv
<1>2. Phase[r] = "running" /\ told[o] = "open"
  BY DEF Phase, Owns, IInv, SoleOwner
<1>3. Started' = Started
  BY <1>2, StartedKept DEF IInv
<1>4. /\ Phase' = [q \in RunIds |-> IF q \in {r} THEN "pending" ELSE Phase[q]]
      /\ Holder' = [q \in RunIds |-> IF q \in {r} THEN NULL ELSE Holder[q]]
  BY <1>1 DEF Phase, Holder
<1> QED
  BY <1>2, <1>3, <1>4 DEF Lifecycle!Yield, Phase, Holder, Started

(* A step is saved by the attempt that holds the run, or it was saved before. *)
LEMMA SaveStepRecords ==
    ASSUME IInv, NEW o \in Owners, NEW r \in RunIds, NEW s \in StepNames,
           NEW v \in Results, SaveStep(o, r, s, v)
    PROVE  Lifecycle!Record(r, s, v) \/ UNCHANGED Lifecycle!vars
<1>1. runs' = runs /\ told' = told /\ runs[r].status = "running"
  BY DEF SaveStep, Owns
<1>2. CASE steps[r][s] = NULL
  <2>1. steps' = [steps EXCEPT ![r][s] = v]
    BY <1>2 DEF SaveStep
  <2> QED
    BY <1>1, <1>2, <2>1 DEF Lifecycle!Record
<1>3. CASE steps[r][s] # NULL
  <2>1. steps' = steps
    BY <1>3 DEF SaveStep, IInv, TypeOK
  <2> QED
    BY <1>1, <2>1 DEF Lifecycle!vars
<1> QED
  BY <1>2, <1>3

(* An owner's operation is a step of the attempt that holds the run; the     *)
(* renewal of its lease is not seen.                                         *)
LEMMA OwnerStepSeen ==
    ASSUME IInv, NEW o \in Owners, NEW r \in RunIds, OwnerStep(o, r)
    PROVE  Lifecycle!Next \/ UNCHANGED Lifecycle!vars
<1>a. runs[r] \in Row
  BY DEF IInv, TypeOK
<1>1. ASSUME NEW t \in Readings, NEW ms \in LeaseMs, Heartbeat(o, r, t, ms)
      PROVE  UNCHANGED Lifecycle!vars
  <2> DEFINE row == Renewed(runs[r], LeaseUntil(t, ms))
  <2>1. row \in Row /\ row.status = runs[r].status /\ row.worker_id = runs[r].worker_id
    BY <1>a, ReadingsType, LeaseUntilType, RenewedRow DEF IInv
  <2>2. runs' = [runs EXCEPT ![r] = row] /\ steps' = steps /\ told' = told
    BY <1>1 DEF Heartbeat
  <2> HIDE DEF row
  <2>3. Phase' = Phase /\ Holder' = Holder
    BY <2>1, <2>2, SeenUpdate DEF Phase, Holder, IInv
  <2> QED
    BY <2>2, <2>3 DEF Lifecycle!vars, Phase, Holder
<1>2. ASSUME NEW s \in StepNames, NEW v \in Results, SaveStep(o, r, s, v)
      PROVE  Lifecycle!Next \/ UNCHANGED Lifecycle!vars
  BY <1>2, SaveStepRecords DEF Lifecycle!Next
<1>3. ASSUME NEW t \in Readings, NEW st \in Terminal, Finish(o, r, st, t)
      PROVE  Lifecycle!Next
  BY <1>3, FinishConcludes DEF Lifecycle!Next, Lifecycle!Outcomes, Terminal
<1>4. ASSUME Lifecycle!Yield({r})
      PROVE  Lifecycle!Next
  BY <1>4 DEF Lifecycle!Next
<1>5. ASSUME NEW next \in WakeTimes, FailRetry(o, r, next)
      PROVE  Lifecycle!Next
  BY <1>a, <1>4, <1>5, GiveUpYields, RescheduledRow, ConstantsAssumption DEF FailRetry
<1>6. ASSUME NEW wake \in WakeTimes \cup {NULL}, Defer(o, r, wake)
      PROVE  Lifecycle!Next
  BY <1>a, <1>4, <1>6, GiveUpYields, ParkedRow, ConstantsAssumption DEF Defer
<1>7. ASSUME NEW s \in StepNames, NEW e \in Events,
             NEW timeout \in WakeTimes \cup {NULL}, WaitForEvent(o, r, s, e, timeout)
      PROVE  Lifecycle!Next
  BY <1>a, <1>4, <1>7, GiveUpYields, ParkedRow, ConstantsAssumption DEF WaitForEvent
<1> QED
  BY <1>1, <1>2, <1>3, <1>5, <1>6, <1>7
     DEF OwnerStep, Complete, Cancel, FailDead, Terminal

(* The runs whose leases are reclaimed are yielded together.                 *)
LEMMA ReclaimYields ==
    ASSUME IInv, NEW t \in Readings, ReclaimExpired(t),
           NEW S \in SUBSET RunIds, S = {r \in RunIds : Expired(r, t)}
    PROVE  Lifecycle!Yield(S)
<1>1. S # {} /\ \A r \in S : Phase[r] = "running"
  BY DEF ReclaimExpired, Expired, Phase
<1>2. \A r \in RunIds : Released(runs[r]).status = "pending" /\ Released(runs[r]).worker_id = NULL
  BY ReleasedRow DEF IInv, TypeOK
<1>3. \A r \in RunIds : runs'[r] = IF r \in S THEN Released(runs[r]) ELSE runs[r]
  BY DEF ReclaimExpired
<1>4. /\ Phase' = [q \in RunIds |-> IF q \in S THEN "pending" ELSE Phase[q]]
      /\ Holder' = [q \in RunIds |-> IF q \in S THEN NULL ELSE Holder[q]]
  BY <1>2, <1>3 DEF Phase, Holder
<1>5. steps' = steps /\ told' = told
  BY DEF ReclaimExpired
<1> QED
  BY <1>1, <1>4, <1>5 DEF Lifecycle!Yield, Phase, Holder

(* A signal answers steps of parked runs only: every waiter is parked.       *)
LEMMA SignalDelivers ==
    ASSUME IInv, NEW e \in Events, NEW v \in Results, NEW t \in Readings, Signal(e, v, t)
    PROVE  Lifecycle!Deliver(v)
<1>1. \A r \in RunIds : Woken(runs[r], t).status = runs[r].status
                        /\ Woken(runs[r], t).worker_id = runs[r].worker_id
  BY ReadingsType, WokenRow DEF IInv, TypeOK
<1>2. \A r \in RunIds : runs'[r].status = runs[r].status
                        /\ runs'[r].worker_id = runs[r].worker_id
  BY <1>1 DEF Signal
<1>3. Phase' = Phase /\ Holder' = Holder /\ told' = told
  BY <1>2 DEF Phase, Holder, Signal
<1>4. ASSUME NEW r \in RunIds
      PROVE  \/ steps'[r] = steps[r]
             \/ /\ Phase[r] = "pending"
                /\ \A s \in StepNames : \/ steps'[r][s] = steps[r][s]
                                        \/ steps[r][s] = NULL /\ steps'[r][s] \in {v}
  <2>1. CASE \E s \in StepNames : HasWaiter(r, s, e)
    <3>1. Phase[r] = "pending"
      BY <2>1 DEF HasWaiter, IInv, WaiterParked, Phase
    <3>2. \A s \in StepNames : \/ steps'[r][s] = steps[r][s]
                               \/ steps[r][s] = NULL /\ steps'[r][s] \in {v}
      BY DEF Signal
    <3> QED
      BY <3>1, <3>2
  <2>2. CASE \A s \in StepNames : ~HasWaiter(r, s, e)
    <3>1. steps'[r] = [s \in StepNames |-> steps[r][s]]
      BY <2>2 DEF Signal
    <3> QED
      BY <3>1 DEF IInv, TypeOK
  <2> QED
    BY <2>1, <2>2
<1> QED
  BY <1>3, <1>4 DEF Lifecycle!Deliver, Lifecycle!Learns, Lifecycle!Keeps, Phase, Holder

(* Retention forgets finished runs, with all they recorded.                  *)
LEMMA PruneForgets ==
    ASSUME IInv, NEW D \in SUBSET RunIds, NEW t \in Readings, PruneFinishedBefore(D, t)
    PROVE  Lifecycle!Forget(D)
<1>1. D # {} /\ \A r \in D : Phase[r] \in Terminal
  BY DEF PruneFinishedBefore, Prunable, Phase
<1>2. Phase' = [r \in RunIds |-> IF r \in D THEN "absent" ELSE Phase[r]]
  BY DEF PruneFinishedBefore, Phase, NoRow
<1>3. \A r \in D : runs[r].worker_id = NULL
  BY <1>1 DEF Phase, Terminal, IInv, SoleOwner
<1>4. Holder' = Holder
  BY <1>3 DEF PruneFinishedBefore, Holder, NoRow
<1> QED
  BY <1>1, <1>2, <1>4
     DEF Lifecycle!Forget, Lifecycle!Outcomes, Terminal, PruneFinishedBefore, Phase, Holder

(* The store implements the abstract life of a run: every commit, also of a  *)
(* delayed or repeated call, is one of its steps or is not seen.             *)
THEOREM Refinement == Spec => ImplementsLifecycle
<1>1. Init => Lifecycle!Init
  BY DEF Init, Lifecycle!Init, NoRow
<1>2. IInv /\ [Next]_vars => [Lifecycle!Next]_Lifecycle!vars
  <2> SUFFICES ASSUME IInv, [Next]_vars
               PROVE  Lifecycle!Next \/ UNCHANGED Lifecycle!vars
    BY DEF Lifecycle!vars
  <2>1. ASSUME NEW r \in RunIds, NEW n \in Names, NEW at \in WakeTimes \cup Readings,
               Enqueue(r, n, at)
        PROVE  Lifecycle!Next
    BY <2>1, EnqueueSubmits DEF Lifecycle!Next
  <2>2. ASSUME NEW o \in Owners, NEW r \in RunIds, NEW ns \in SUBSET Names,
               NEW t \in Readings, NEW ms \in LeaseMs, Claim(o, r, ns, t, ms)
        PROVE  Lifecycle!Next
    BY <2>2, ClaimStarts DEF Lifecycle!Next
  <2>3. ASSUME NEW o \in Owners, NEW r \in RunIds, OwnerStep(o, r)
        PROVE  Lifecycle!Next \/ UNCHANGED Lifecycle!vars
    BY <2>3, OwnerStepSeen
  <2>4. ASSUME NEW o \in Owners, StaleCall(o)
        PROVE  UNCHANGED Lifecycle!vars
    <3>1. Started' = Started
      BY <2>4, StartedKept DEF StaleCall, IInv
    <3> QED
      BY <2>4, <3>1 DEF StaleCall, Lifecycle!vars, Started
  <2>5. ASSUME NEW t \in Readings, ReclaimExpired(t)
        PROVE  Lifecycle!Next
    <3>1. PICK S \in SUBSET RunIds : S = {r \in RunIds : Expired(r, t)}
      OBVIOUS
    <3>2. Lifecycle!Yield(S)
      BY <2>5, <3>1, ReclaimYields
    <3> QED
      BY <3>2 DEF Lifecycle!Next
  <2>6. ASSUME NEW e \in Events, NEW v \in Results, NEW t \in Readings, Signal(e, v, t)
        PROVE  Lifecycle!Next
    BY <2>6, SignalDelivers DEF Lifecycle!Next
  <2>7. ASSUME NEW D \in SUBSET RunIds, NEW t \in Readings, PruneFinishedBefore(D, t)
        PROVE  Lifecycle!Next
    BY <2>7, PruneForgets DEF Lifecycle!Next
  <2>8. CASE Tick \/ UNCHANGED vars
    BY <2>8 DEF Tick, vars, Lifecycle!vars
  <2> QED
    BY <2>1, <2>2, <2>3, <2>4, <2>5, <2>6, <2>7, <2>8 DEF Next
<1> QED
  BY <1>1, <1>2, Invariance, PTL DEF Spec, ImplementsLifecycle, Lifecycle!Spec
=============================================================================
