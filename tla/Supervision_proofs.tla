------------------------- MODULE Supervision_proofs -------------------------
(***************************************************************************)
(* Theorems about what starts, watches and stops processes: the instances  *)
(* of an app (Instances) and the workers of a workflow runtime (Workers    *)
(* says what is promised of them, and Dispatch, whose operators are named  *)
(* D!... here, what they do).                                              *)
(***************************************************************************)
EXTENDS Instances, Workers, FiniteSetTheorems, TLAPS

CONSTANTS MaxEnqueues, MaxParks

VARIABLES queue, delayed, lost, unhealthy, shutting_down, accepting, noted, enqueued, parks,
          faults

D == INSTANCE Dispatch

(* The counting operators of both modules are those of FiniteSets.         *)
LEMMA SameCounting ==
    ASSUME NEW S
    PROVE  D!Cardinality(S) = Cardinality(S) /\ (D!IsFiniteSet(S) <=> IsFiniteSet(S))
  BY DEF D!Cardinality, Cardinality, D!IsFiniteSet, IsFiniteSet

ChildRec == [pc : {"none"} \cup D!Live \cup D!Gone, lane : Lanes \cup {NULL},
             holding : Nat, claimed : BOOLEAN, advanced : BOOLEAN]

(* Reaping keeps a process table a process table.                          *)
LEMMA ReapedType ==
    ASSUME D!TypeOK
    PROVE  D!Reaped \in [Procs -> ChildRec] /\ D!NoChild \in ChildRec
<1>1. D!NoChild \in ChildRec
  BY DEF D!NoChild, ChildRec
<1>2. child \in [Procs -> ChildRec]
  BY DEF D!TypeOK, ChildRec
<1> HIDE DEF ChildRec
<1> QED
  BY <1>1, <1>2 DEF D!Reaped

(* So does spawning.                                                       *)
LEMMA SpawnedType ==
    ASSUME D!TypeOK, NEW f \in D!Assignments
    PROVE  D!Spawned(f) \in [Procs -> ChildRec]
<1>1. ASSUME NEW p \in DOMAIN f PROVE D!NewChild(f[p]) \in ChildRec
  <2>1. f[p] \in Lanes
    BY DEF D!Assignments
  <2> QED
    BY <2>1 DEF D!NewChild, D!NoChild, ChildRec, D!Live
<1> QED
  BY <1>1, ReapedType DEF D!Spawned

(* Counting one lane up or down keeps the counts.                          *)
LEMMA CountType ==
    ASSUME NEW g \in [Lanes -> Nat], NEW l, NEW n, l \in Lanes => n \in Nat
    PROVE  [g EXCEPT ![l] = n] \in [Lanes -> Nat]
  OBVIOUS

(* Every step keeps the runs, the signal, the process table and the bounds *)
(* well typed.                                                             *)
LEMMA WorkerTypeStep ==
    ASSUME D!ConstantsOK
    PROVE  D!TypeOK /\ [D!Next]_(D!vars) => D!TypeOK'
<1> SUFFICES ASSUME D!TypeOK, [D!Next]_(D!vars) PROVE D!TypeOK'
  OBVIOUS
<1>c. MaxEnqueues \in Nat /\ MaxParks \in Nat /\ MaxFaults \in Nat
  BY DEF D!ConstantsOK
<1> USE <1>c
<1>a. D!Reaped \in [Procs -> [pc : {"none"} \cup D!Live \cup D!Gone, lane : Lanes \cup {NULL},
                            holding : Nat, claimed : BOOLEAN, advanced : BOOLEAN]]
  BY ReapedType DEF ChildRec
<1>b. ASSUME NEW f \in D!Assignments
      PROVE  D!Spawned(f) \in [Procs -> [pc : {"none"} \cup D!Live \cup D!Gone,
                                       lane : Lanes \cup {NULL}, holding : Nat,
                                       claimed : BOOLEAN, advanced : BOOLEAN]]
  BY <1>b, SpawnedType DEF ChildRec
<1>1. CASE D!Reap
  BY <1>1, <1>a DEF D!TypeOK, D!Reap, D!runVars, D!signalVars, D!bounds
<1>2. CASE D!CoolDown
  BY <1>2 DEF D!TypeOK, D!CoolDown, D!runVars, D!signalVars, D!bounds
<1>3. ASSUME NEW s \in Senders, NEW l \in Lanes, D!HealthCheck(s, l)
      PROVE  D!TypeOK'
  BY <1>3, <1>a DEF D!TypeOK, D!HealthCheck, D!runVars, D!bounds
<1>4. ASSUME NEW s \in Senders, NEW l \in Lanes, D!Reclaim(s, l)
      PROVE  D!TypeOK'
  BY <1>4 DEF D!TypeOK, D!Reclaim, D!childVars, D!bounds
<1>5. ASSUME NEW s \in Senders, D!EnqueueWrite(s)
      PROVE  D!TypeOK'
  <2>1. queue' \in [Lanes -> Nat]
    BY <1>5, CountType DEF D!TypeOK, D!EnqueueWrite
  <2>2. enqueued' \in 0..MaxEnqueues
    BY <1>5 DEF D!TypeOK, D!EnqueueWrite
  <2> QED
    BY <1>5, <2>1, <2>2 DEF D!TypeOK, D!EnqueueWrite, D!childVars
<1>6. ASSUME NEW s \in Senders, D!SignalSwap(s)
      PROVE  D!TypeOK'
  BY <1>6 DEF D!TypeOK, D!SignalSwap, D!IdleSender, D!runVars, D!childVars, D!bounds
<1>7. ASSUME NEW s \in Senders, D!SignalNotify(s)
      PROVE  D!TypeOK'
  BY <1>7 DEF D!TypeOK, D!SignalNotify, D!IdleSender, D!runVars, D!childVars, D!bounds
<1>8. ASSUME NEW l \in Lanes, D!Due(l)
      PROVE  D!TypeOK'
  BY <1>8 DEF D!TypeOK, D!Due, D!signalVars, D!childVars, D!bounds
<1>9. CASE D!Notified \/ D!Debounced \/ D!ScanTick \/ D!Check \/ D!WakeIgnored \/ D!DispatcherStops
  BY <1>9 DEF D!TypeOK, D!Notified, D!Debounced, D!ScanTick, D!Check, D!WakeIgnored, D!DispatcherStops,
              D!runVars, D!signalVars, D!childVars, D!bounds
<1>10. CASE D!WakeUnhealthy
  BY <1>10, <1>a DEF D!TypeOK, D!WakeUnhealthy, D!runVars, D!signalVars, D!bounds
<1>11. CASE D!WakeSpawns
  BY <1>11, <1>b DEF D!TypeOK, D!WakeSpawns, D!runVars, D!signalVars, D!bounds
<1>12. CASE D!WakeFails
  BY <1>12, <1>b DEF D!TypeOK, D!WakeFails, D!runVars, D!signalVars
<1>13. ASSUME NEW p \in Procs,
              D!Bootstrapped(p) \/ D!ClaimEmpty(p) \/ D!IdleOut(p) \/ D!Exit(p)
       PROVE  D!TypeOK'
  BY <1>13 DEF D!TypeOK, D!Bootstrapped, D!ClaimEmpty, D!IdleOut, D!Exit, D!Live, D!Gone,
               D!runVars, D!signalVars, D!bounds
<1>14. ASSUME NEW p \in Procs, D!Claim(p)
       PROVE  D!TypeOK'
  <2>1. queue' \in [Lanes -> Nat]
    <3>1. child[p].lane \in Lanes => queue[child[p].lane] - 1 \in Nat
      BY <1>14 DEF D!TypeOK, D!Claim
    <3> QED
      BY <1>14, <3>1, CountType DEF D!TypeOK, D!Claim
  <2>2. child' \in [Procs -> ChildRec]
    <3>1. child[p] \in ChildRec /\ child \in [Procs -> ChildRec]
      BY DEF D!TypeOK, ChildRec
    <3>2. child' = [child EXCEPT ![p] = [child[p] EXCEPT !.holding = child[p].holding + 1,
                                            !.claimed = TRUE, !.pc = "polling"]]
      BY <1>14 DEF D!Claim
    <3>a. child[p].holding + 1 \in Nat
      BY <3>1 DEF ChildRec
    <3>3. [child[p] EXCEPT !.holding = child[p].holding + 1, !.claimed = TRUE,
                           !.pc = "polling"] \in ChildRec
      BY <3>1, <3>a, Zenon DEF ChildRec, D!Live
    <3> QED
      BY <3>1, <3>2, <3>3
  <2>3. noted' \subseteq Procs
    BY <1>14 DEF D!TypeOK, D!Claim
  <2> QED
    BY <1>14, <2>1, <2>2, <2>3 DEF D!TypeOK, D!Claim, ChildRec, D!signalVars, D!bounds
<1>15. ASSUME NEW p \in Procs, D!NotifyClaimed(p)
       PROVE  D!TypeOK'
  BY ZenonT(40), <1>15 DEF D!TypeOK, D!NotifyClaimed, D!runVars, D!signalVars, D!bounds
<1>16. ASSUME NEW p \in Procs, D!FinishRun(p)
       PROVE  D!TypeOK'
  BY <1>16 DEF D!TypeOK, D!FinishRun, D!runVars, D!signalVars, D!bounds
<1>17. ASSUME NEW p \in Procs, D!ParkRun(p)
       PROVE  D!TypeOK'
  <2>1. delayed' \in [Lanes -> Nat]
    <3>1. child[p].lane \in Lanes => delayed[child[p].lane] + 1 \in Nat
      BY DEF D!TypeOK
    <3> QED
      BY <1>17, <3>1 DEF D!TypeOK, D!ParkRun
  <2>2. child' \in [Procs -> ChildRec]
    <3>1. child[p] \in ChildRec /\ child \in [Procs -> ChildRec]
      BY DEF D!TypeOK, ChildRec
    <3>2. child' = [child EXCEPT ![p] = [child[p] EXCEPT !.holding = child[p].holding - 1]]
      BY <1>17, <3>1 DEF D!ParkRun, ChildRec
    <3>3. [child[p] EXCEPT !.holding = child[p].holding - 1] \in ChildRec
      BY <1>17, <3>1 DEF D!ParkRun, ChildRec
    <3> QED
      BY <3>1, <3>2, <3>3
  <2>3. parks' \in 0..MaxParks
    BY <1>17 DEF D!TypeOK, D!ParkRun
  <2> QED
    BY <1>17, <2>1, <2>2, <2>3 DEF D!TypeOK, D!ParkRun, ChildRec, D!signalVars
<1>18. ASSUME NEW p \in Procs, D!Crash(p)
       PROVE  D!TypeOK'
  <2>1. lost' \in [Lanes -> Nat]
    <3>1. child[p].holding \in Nat
      BY DEF D!TypeOK
    <3> QED
      BY <1>18, <3>1, CountType DEF D!TypeOK, D!Crash
  <2>2. child' \in [Procs -> ChildRec]
    <3>1. child[p] \in ChildRec /\ child \in [Procs -> ChildRec]
      BY DEF D!TypeOK, ChildRec
    <3>2. child' = [child EXCEPT ![p] = [child[p] EXCEPT !.pc = "crashed", !.holding = 0]]
      BY <1>18, <3>1 DEF D!Crash, ChildRec
    <3>3. [child[p] EXCEPT !.pc = "crashed", !.holding = 0] \in ChildRec
      BY <3>1 DEF ChildRec, D!Gone
    <3> QED
      BY <3>1, <3>2, <3>3
  <2>3. faults' \in 0..MaxFaults
    BY <1>18 DEF D!TypeOK, D!Crash
  <2> QED
    BY <1>18, <2>1, <2>2, <2>3 DEF D!TypeOK, D!Crash, ChildRec, D!signalVars
<1>19. CASE D!StopRequested \/ D!BeginDrain \/ UNCHANGED D!vars
  BY <1>19 DEF D!TypeOK, D!StopRequested, D!BeginDrain, D!vars, D!runVars, D!signalVars, D!childVars, D!bounds
<1> QED
  BY <1>1, <1>2, <1>3, <1>4, <1>5, <1>6, <1>7, <1>8, <1>9, <1>10, <1>11, <1>12, <1>13,
     <1>14, <1>15, <1>16, <1>17, <1>18, <1>19
     DEF D!Next, D!SenderStep, D!DispatcherStep, D!ClaimStep, D!HandlerStep

(* The initial state is well typed.                                        *)
LEMMA WorkerTypeInit ==
    ASSUME D!ConstantsOK
    PROVE  D!Init => D!TypeOK
<1>1. D!NoChild \in ChildRec
  BY DEF D!NoChild, ChildRec
<1>2. D!IdleSender \in [pc : {"idle", "healthy", "wrote", "swapped"}, lane : Lanes \cup {NULL}]
  BY DEF D!IdleSender
<1> SUFFICES ASSUME D!Init PROVE D!TypeOK
  OBVIOUS
<1>3. child \in [Procs -> ChildRec]
  BY <1>1 DEF D!Init
<1>4. sender \in [Senders -> [pc : {"idle", "healthy", "wrote", "swapped"},
                             lane : Lanes \cup {NULL}]]
  BY <1>2 DEF D!Init
<1>5. /\ queue \in [Lanes -> Nat] /\ delayed \in [Lanes -> Nat] /\ lost \in [Lanes -> Nat]
      /\ enqueued \in 0..MaxEnqueues /\ parks \in 0..MaxParks /\ faults \in 0..MaxFaults
  BY DEF D!ConstantsOK, D!Init
<1>6. /\ pending_signal \in BOOLEAN /\ permit \in BOOLEAN /\ unhealthy \in BOOLEAN
      /\ shutting_down \in BOOLEAN /\ accepting \in BOOLEAN /\ noted \subseteq Procs
      /\ dispatcher \in {"select", "debounce", "check", "wake", "stopped"}
  BY DEF D!Init
<1> QED
  BY <1>3, <1>4, <1>5, <1>6 DEF D!TypeOK, ChildRec

(* The state stays well typed.                                             *)
THEOREM WorkersTyped ==
    ASSUME D!ConstantsOK
    PROVE  D!Spec => []D!TypeOK
  BY WorkerTypeInit, WorkerTypeStep, PTL DEF D!Spec
-----------------------------------------------------------------------------
(* Coalescing loses no signal: while the flag is up, an earlier signal is    *)
(* still going to be looked at, so returning early from signal() is safe.    *)
THEOREM SignalsKept ==
    ASSUME D!ConstantsOK
    PROVE  D!Spec => []NoLostSignal
<1>1. D!Init => NoLostSignal
  BY DEF D!Init, NoLostSignal
<1>2. D!TypeOK /\ NoLostSignal /\ [D!Next]_(D!vars) => NoLostSignal'
  <2> SUFFICES ASSUME D!TypeOK, NoLostSignal, [D!Next]_(D!vars) PROVE NoLostSignal'
    OBVIOUS
  <2>1. ASSUME NEW s \in Senders, NEW l \in Lanes, D!HealthCheck(s, l) \/ D!Reclaim(s, l)
        PROVE  NoLostSignal'
    <3>1. \A q \in Senders : sender[q].pc = "swapped" => sender'[q].pc = "swapped"
      BY <2>1 DEF D!TypeOK, D!HealthCheck, D!Reclaim
    <3> QED
      BY <2>1, <3>1 DEF NoLostSignal, D!HealthCheck, D!Reclaim
  <2>2. ASSUME NEW s \in Senders, D!EnqueueWrite(s)
        PROVE  NoLostSignal'
    <3>1. \A q \in Senders : sender[q].pc = "swapped" => sender'[q].pc = "swapped"
      BY <2>2 DEF D!TypeOK, D!EnqueueWrite
    <3> QED
      BY <2>2, <3>1 DEF NoLostSignal, D!EnqueueWrite
  <2>3. ASSUME NEW s \in Senders, D!SignalSwap(s)
        PROVE  NoLostSignal'
    <3>1. CASE pending_signal
      <4>1. \A q \in Senders : sender[q].pc = "swapped" => sender'[q].pc = "swapped"
        BY <2>3 DEF D!TypeOK, D!SignalSwap
      <4> QED
        BY <2>3, <3>1, <4>1 DEF NoLostSignal, D!SignalSwap
    <3>2. CASE ~pending_signal
      <4>1. sender'[s].pc = "swapped"
        BY <2>3, <3>2 DEF D!TypeOK, D!SignalSwap
      <4> QED
        BY <4>1 DEF NoLostSignal
    <3> QED
      BY <3>1, <3>2
  <2>4. ASSUME NEW s \in Senders, D!SignalNotify(s)
        PROVE  NoLostSignal'
    BY <2>4 DEF NoLostSignal, D!SignalNotify
  <2>5. CASE D!DispatcherStep
    <3>1. CASE D!Notified \/ D!Debounced
      BY <3>1 DEF NoLostSignal, D!Notified, D!Debounced
    <3>2. CASE D!ScanTick \/ D!Check \/ D!WakeIgnored \/ D!WakeUnhealthy \/ D!WakeSpawns
      <4>1. UNCHANGED D!signalVars /\ dispatcher \notin {"debounce", "stopped"}
        BY <3>2 DEF D!ScanTick, D!Check, D!WakeIgnored, D!WakeUnhealthy, D!WakeSpawns
      <4> QED
        BY <4>1 DEF NoLostSignal, D!signalVars
    <3> QED
      BY <2>5, <3>1, <3>2 DEF D!DispatcherStep
  <2>6. CASE D!WakeFails \/ D!DispatcherStops
    BY <2>6 DEF NoLostSignal, D!WakeFails, D!DispatcherStops, D!signalVars
  <2>7. CASE D!Reap \/ D!CoolDown \/ D!StopRequested \/ D!BeginDrain \/ UNCHANGED D!vars
    BY <2>7 DEF NoLostSignal, D!Reap, D!CoolDown, D!StopRequested, D!BeginDrain, D!signalVars, D!vars
  <2>8. ASSUME NEW l \in Lanes, D!Due(l)
        PROVE  NoLostSignal'
    BY <2>8 DEF NoLostSignal, D!Due, D!signalVars
  <2>9. ASSUME NEW p \in Procs,
               \/ D!Bootstrapped(p) \/ D!ClaimStep(p) \/ D!ClaimEmpty(p) \/ D!IdleOut(p)
               \/ D!Exit(p) \/ D!HandlerStep(p) \/ D!Crash(p)
        PROVE  NoLostSignal'
    BY <2>9 DEF NoLostSignal, D!Bootstrapped, D!ClaimStep, D!Claim, D!NotifyClaimed, D!ClaimEmpty,
                D!IdleOut, D!Exit, D!HandlerStep, D!FinishRun, D!ParkRun, D!Crash, D!signalVars
  <2> QED
    BY <2>1, <2>2, <2>3, <2>4, <2>5, <2>6, <2>7, <2>8, <2>9 DEF D!Next, D!SenderStep
<1> QED
  BY <1>1, <1>2, WorkersTyped, PTL DEF D!Spec
-----------------------------------------------------------------------------
(* The live workers of a lane, and how many it may have.                     *)
LiveOf(l) == {p \in Procs : child[p].pc \in D!Live /\ child[p].lane = l}
Limit(l) == IF LaneWorkers[l] = 0 THEN 1 ELSE LaneWorkers[l]

(* The workers of a lane are counted.                                        *)
LEMMA LiveFinite ==
    ASSUME D!ConstantsOK, NEW l \in Lanes
    PROVE  /\ IsFiniteSet(LiveOf(l)) /\ Cardinality(LiveOf(l)) \in Nat
           /\ IsFiniteSet(LiveOf(l)') /\ Cardinality(LiveOf(l))' \in Nat
           /\ Limit(l) \in Nat /\ 1 <= Limit(l)
<1>1. LiveOf(l) \subseteq Procs /\ LiveOf(l)' \subseteq Procs /\ IsFiniteSet(Procs)
  BY SameCounting DEF D!ConstantsOK, LiveOf
<1>2. IsFiniteSet(LiveOf(l)) /\ IsFiniteSet(LiveOf(l)')
  BY <1>1, FS_Subset
<1>3. Cardinality(LiveOf(l)) \in Nat /\ Cardinality(LiveOf(l)') \in Nat
  BY <1>2, FS_CardinalityType
<1>4. Limit(l) \in Nat /\ 1 <= Limit(l)
  BY DEF D!ConstantsOK, Limit
<1> QED
  BY <1>2, <1>3, <1>4

(* A step that makes no worker live keeps every lane within its limit.       *)
LEMMA NoNewWorker ==
    ASSUME D!ConstantsOK, D!OneWorkerPerLane,
           \A p \in Procs : child'[p].pc \in D!Live =>
               child[p].pc \in D!Live /\ child'[p].lane = child[p].lane
    PROVE  D!OneWorkerPerLane'
<1>1. ASSUME NEW l \in Lanes
      PROVE  Cardinality(LiveOf(l)') <= Limit(l)
  <2>1. LiveOf(l)' \subseteq LiveOf(l)
    BY DEF LiveOf
  <2>2. Cardinality(LiveOf(l)') <= Cardinality(LiveOf(l))
    BY <2>1, LiveFinite, FS_Subset
  <2>3. Cardinality(LiveOf(l)) <= Limit(l)
    BY SameCounting DEF D!OneWorkerPerLane, LiveOf, Limit
  <2>4. Cardinality(LiveOf(l)') \in Nat /\ Cardinality(LiveOf(l)) \in Nat /\ Limit(l) \in Nat
    BY LiveFinite
  <2> QED
    BY <2>2, <2>3, <2>4
<1> QED
  BY <1>1, SameCounting DEF D!OneWorkerPerLane, LiveOf, Limit

(* wake() spawns at most what is missing, so a lane stays within its limit.  *)
LEMMA SpawnWithinLimit ==
    ASSUME D!ConstantsOK, D!TypeOK, D!OneWorkerPerLane, NEW f \in D!Assignments,
           \A l \in Lanes : D!CountIn(f, l) <= D!Target(l), child' = D!Spawned(f)
    PROVE  D!OneWorkerPerLane'
<1>1. ASSUME NEW l \in Lanes
      PROVE  Cardinality(LiveOf(l)') <= Limit(l)
  <2> DEFINE New == {p \in DOMAIN f : f[p] = l}
  <2>1. D!LiveIn(l) = LiveOf(l)
    BY DEF D!LiveIn, LiveOf, D!Reaped, D!NoChild, D!Live, D!Gone
  <2>2. LiveOf(l)' \subseteq LiveOf(l) \cup New
    <3> SUFFICES ASSUME NEW p \in Procs, child'[p].pc \in D!Live, child'[p].lane = l, p \notin New
                 PROVE  p \in LiveOf(l)
      BY DEF LiveOf
    <3>1. CASE p \in DOMAIN f
      <4>1. child'[p].lane = f[p]
        BY <3>1 DEF D!Spawned, D!NewChild, D!NoChild
      <4> QED
        BY <3>1, <4>1
    <3>2. CASE p \notin DOMAIN f
      <4>1. child'[p] = D!Reaped[p]
        BY <3>2 DEF D!Spawned
      <4> QED
        BY <4>1 DEF D!Reaped, D!NoChild, D!Live, LiveOf
    <3> QED
      BY <3>1, <3>2
  <2>3. IsFiniteSet(New) /\ Cardinality(New) \in Nat
    <3>1. New \subseteq Procs
      BY DEF D!Assignments
    <3> QED
      BY <3>1, SameCounting, FS_Subset, FS_CardinalityType DEF D!ConstantsOK
  <2>4. Cardinality(New) <= D!Target(l)
    BY SameCounting DEF D!CountIn
  <2> HIDE DEF New
  <2>5. /\ IsFiniteSet(LiveOf(l) \cup New)
        /\ Cardinality(LiveOf(l) \cup New) \in Nat
        /\ Cardinality(LiveOf(l) \cup New) <= Cardinality(LiveOf(l)) + Cardinality(New)
    <3>1. /\ IsFiniteSet(LiveOf(l) \cup New) /\ IsFiniteSet(LiveOf(l) \cap New)
          /\ Cardinality(LiveOf(l) \cup New)
               = Cardinality(LiveOf(l)) + Cardinality(New) - Cardinality(LiveOf(l) \cap New)
      BY <2>3, LiveFinite, FS_Union, FS_Intersection
    <3>2. Cardinality(LiveOf(l) \cap New) \in Nat
      BY <3>1, FS_CardinalityType
    <3>3. Cardinality(LiveOf(l) \cup New) \in Nat
      BY <3>1, FS_CardinalityType
    <3> QED
      BY <2>3, <3>1, <3>2, <3>3, LiveFinite
  <2>6. Cardinality(LiveOf(l)') <= Cardinality(LiveOf(l) \cup New)
    BY <2>2, <2>5, LiveFinite, FS_Subset
  <2>7. Cardinality(LiveOf(l)) <= Limit(l)
    BY SameCounting DEF D!OneWorkerPerLane, LiveOf, Limit
  <2>8. Cardinality(LiveOf(l)) + D!Target(l) <= Limit(l) /\ D!Target(l) \in Nat
    <3>1. D!Target(l) = IF LaneWorkers[l] = 0 THEN IF Cardinality(LiveOf(l)) = 0 THEN 1 ELSE 0
                      ELSE IF Cardinality(LiveOf(l)) < LaneWorkers[l]
                             THEN LaneWorkers[l] - Cardinality(LiveOf(l)) ELSE 0
      BY <2>1, SameCounting DEF D!Target
    <3>2. LaneWorkers[l] \in Nat /\ Cardinality(LiveOf(l)) \in Nat
      BY LiveFinite DEF D!ConstantsOK
    <3> QED
      BY <2>7, <3>1, <3>2 DEF Limit
  <2>9. Cardinality(LiveOf(l)') \in Nat /\ Cardinality(LiveOf(l)) \in Nat /\ Limit(l) \in Nat
    BY LiveFinite
  <2> QED
    BY <2>3, <2>4, <2>5, <2>6, <2>8, <2>9
<1> QED
  BY <1>1, SameCounting DEF D!OneWorkerPerLane, LiveOf, Limit

(* A lane that scales to zero never has two workers, an always-on lane never *)
(* more than its target: wake() counts what it reaped, also after a spawn    *)
(* that failed half way.                                                     *)
THEOREM WorkersBounded ==
    ASSUME D!ConstantsOK
    PROVE  D!Spec => []OneWorkerPerLane
<1>1. D!Init => D!OneWorkerPerLane
  <2> SUFFICES ASSUME D!Init, NEW l \in Lanes
               PROVE  Cardinality(LiveOf(l)) <= Limit(l)
    BY SameCounting DEF D!OneWorkerPerLane, LiveOf, Limit
  <2>1. LiveOf(l) = {}
    BY DEF D!Init, LiveOf, D!NoChild, D!Live
  <2> QED
    BY <2>1, LiveFinite, FS_EmptySet
<1>2. D!TypeOK /\ D!OneWorkerPerLane /\ [D!Next]_(D!vars) => D!OneWorkerPerLane'
  <2> SUFFICES ASSUME D!TypeOK, D!OneWorkerPerLane, [D!Next]_(D!vars) PROVE D!OneWorkerPerLane'
    OBVIOUS
  <2>a. \A p \in Procs : D!Reaped[p].pc \in D!Live =>
            child[p].pc \in D!Live /\ D!Reaped[p].lane = child[p].lane
    BY DEF D!Reaped, D!NoChild, D!Live
  <2>1. CASE child' = D!Reaped \/ child' = child
    BY <2>1, <2>a, NoNewWorker
  <2>2. CASE D!WakeSpawns
    <3>1. PICK f \in D!Assignments : /\ \A l \in Lanes : D!CountIn(f, l) = D!Target(l)
                                   /\ child' = D!Spawned(f)
      BY <2>2 DEF D!WakeSpawns
    <3>2. ASSUME NEW l \in Lanes PROVE D!Target(l) \in Nat
      <4>1. D!LiveIn(l) = LiveOf(l)
        BY DEF D!LiveIn, LiveOf, D!Reaped, D!NoChild, D!Live, D!Gone
      <4>2. Cardinality(D!LiveIn(l)) \in Nat /\ LaneWorkers[l] \in Nat
        BY <4>1, LiveFinite DEF D!ConstantsOK
      <4> QED
        BY <4>2, SameCounting DEF D!Target
    <3> QED
      BY <3>1, <3>2, SpawnWithinLimit
  <2>3. CASE D!WakeFails
    BY <2>3, SpawnWithinLimit DEF D!WakeFails
  <2>4. ASSUME NEW p \in Procs,
               \/ D!Bootstrapped(p) \/ D!ClaimStep(p) \/ D!ClaimEmpty(p) \/ D!IdleOut(p)
               \/ D!Exit(p) \/ D!HandlerStep(p) \/ D!Crash(p)
        PROVE  D!OneWorkerPerLane'
    <3>1. \A q \in Procs : child'[q].pc \in D!Live =>
              child[q].pc \in D!Live /\ child'[q].lane = child[q].lane
      <4>1. CASE D!Bootstrapped(p)
        BY <4>1 DEF D!TypeOK, D!Bootstrapped, D!Live
      <4>2. CASE D!Claim(p)
        <5>1. child[p].pc \in D!Live
          BY <4>2 DEF D!Claim, D!MayClaim, D!Live
        <5>2. child'[p].lane = child[p].lane /\ \A q \in Procs \ {p} : child'[q] = child[q]
          BY <4>2 DEF D!Claim, D!TypeOK
        <5> QED
          BY <5>1, <5>2
      <4>3. CASE D!NotifyClaimed(p)
        BY <4>3 DEF D!TypeOK, D!NotifyClaimed, D!Live
      <4>4. CASE D!ClaimEmpty(p)
        BY <4>4 DEF D!TypeOK, D!ClaimEmpty, D!MayClaim, D!Live
      <4>5. CASE D!IdleOut(p) \/ D!Exit(p) \/ D!Crash(p)
        <5>1. child[p].pc \in D!Live
          BY <4>5 DEF D!IdleOut, D!Exit, D!Crash, D!Live
        <5>2. child'[p].lane = child[p].lane /\ \A q \in Procs \ {p} : child'[q] = child[q]
          BY <4>5 DEF D!TypeOK, D!IdleOut, D!Exit, D!Crash
        <5> QED
          BY <5>1, <5>2
      <4>6. CASE D!FinishRun(p) \/ D!ParkRun(p)
        <5>1. child' = [child EXCEPT ![p].holding = @ - 1]
          BY <4>6 DEF D!FinishRun, D!ParkRun
        <5> QED
          BY <5>1 DEF D!TypeOK
      <4> QED
        BY <2>4, <4>1, <4>2, <4>3, <4>4, <4>5, <4>6 DEF D!ClaimStep, D!HandlerStep
    <3> QED
      BY <3>1, NoNewWorker
  <2>5. ASSUME NEW s \in Senders, NEW l \in Lanes, D!HealthCheck(s, l) \/ D!Reclaim(s, l)
        PROVE  child' = D!Reaped \/ child' = child
    BY <2>5 DEF D!HealthCheck, D!Reclaim, D!childVars
  <2>6. ASSUME NEW s \in Senders, D!SenderStep(s)
        PROVE  child' = child
    BY <2>6 DEF D!SenderStep, D!EnqueueWrite, D!SignalSwap, D!SignalNotify, D!childVars
  <2>7. CASE \/ D!Notified \/ D!Debounced \/ D!ScanTick \/ D!Check \/ D!WakeIgnored \/ D!WakeUnhealthy
             \/ D!DispatcherStops \/ D!Reap \/ D!CoolDown \/ D!StopRequested \/ D!BeginDrain
             \/ (\E l \in Lanes : D!Due(l)) \/ UNCHANGED D!vars
    <3>1. child' = D!Reaped \/ child' = child
      BY <2>7 DEF D!Notified, D!Debounced, D!ScanTick, D!Check, D!WakeIgnored, D!WakeUnhealthy,
                  D!DispatcherStops, D!Reap, D!CoolDown, D!StopRequested, D!BeginDrain, D!Due, D!childVars, D!vars
    <3> QED
      BY <2>1, <3>1
  <2> QED
    BY <2>1, <2>2, <2>3, <2>4, <2>5, <2>6, <2>7 DEF D!Next, D!DispatcherStep
<1>3. D!OneWorkerPerLane => OneWorkerPerLane
  BY SameCounting DEF D!OneWorkerPerLane, OneWorkerPerLane, D!Live, Live
<1> QED
  BY <1>1, <1>2, <1>3, WorkersTyped, PTL DEF D!Spec

-----------------------------------------------------------------------------
(* The rest of this module is about Instances.                             *)
InstRec == [st : States, reg : BOOLEAN, proc : {"none", "up", "exited", "reaped"},
            build : Nat,
            spawn : {"none", "alloc", "started", "ready", "abort", "ok", "failed"}]
CheckRec == [st : {"none", "Ready", "Healthy", "Unhealthy"},
             probe : {"none", "pending", "ok", "failed"}]
RequestRec == [pc : {"idle", "begun", "waiting", "ready", "picked", "active", "served"},
               inst : Ids \cup {NULL}]
EventRec == [kind : {"Healthy", "Dead"}, inst : Ids]
Config == [version : Nat, min : Nat]
OpRec == [pc : {"idle", "prepare", "next", "spawn", "settle", "drain", "drained", "kill",
                "remove", "rollback", "discard", "restore"},
          mode : {"none", "fresh", "rollout", "scale", "stop"},
          todo : Nat, old : SUBSET Ids, new : SUBSET Ids, cur : Ids \cup {NULL},
          window : {"none", "open", "probing", "probed"}, saved : Config]
UsedRec == [commands : Nat, faults : Nat, evictions : Nat, stopped : BOOLEAN, sick : BOOLEAN,
            stuck : BOOLEAN]

(* The type invariant, with the whole record of the operator's command: it *)
(* counts down only instances it had to start.                             *)
Command(op) ==
    /\ op \in OpRec
    /\ op.pc \in {"next", "spawn", "settle"} => op.mode \in {"fresh", "rollout", "scale"}
    /\ op.pc \in {"spawn", "settle"} => op.todo > 0 /\ op.cur \in Ids

Typed == TypeOK /\ Command(operator) /\ used \in UsedRec

(* Records of the initial values.                                          *)
LEMMA Blanks ==
    /\ NoInst \in InstRec /\ NoCheck \in CheckRec /\ NoRequest \in RequestRec
    /\ NoOp \in OpRec
<1>1. MinInstances \in Nat
  BY InstancesAssumption
<1>2. NoInst \in InstRec
  BY DEF NoInst, InstRec, States, Running
<1>3. NoCheck \in CheckRec /\ NoRequest \in RequestRec
  BY DEF NoCheck, CheckRec, NoRequest, RequestRec
<1>4. NoOp \in OpRec
  BY <1>1 DEF NoOp, OpRec, Config
<1> QED
  BY <1>2, <1>3, <1>4

(* The initial state is well typed.                                        *)
LEMMA InstTypeInit == Init => Typed
<1> SUFFICES ASSUME Init PROVE Typed
  OBVIOUS
<1>1. inst \in [Ids -> InstRec]
  <2>1. PICK S \in SUBSET Ids :
           inst = [i \in Ids |-> IF i \in S
                        THEN [NoInst EXCEPT !.st = "Healthy", !.reg = TRUE, !.proc = "up",
                                            !.build = 1]
                        ELSE NoInst]
    BY DEF Init
  <2>2. [NoInst EXCEPT !.st = "Healthy", !.reg = TRUE, !.proc = "up", !.build = 1] \in InstRec
    BY DEF NoInst, InstRec, States, Running
  <2> QED
    BY <2>1, <2>2, Blanks
<1>2. check \in [Ids -> CheckRec] /\ req \in [Requests -> RequestRec] /\ operator \in OpRec
  BY Blanks DEF Init
<1>3. routed \subseteq Ids /\ suppressed \subseteq Ids /\ readyEvents \subseteq Ids
  BY DEF Init
<1>4. config \in Config /\ cold \in {"none", "Starting", "Ready", "Failed"} /\ leaders \in Nat
  BY InstancesAssumption DEF Init, Config
<1>5. healthEvents \in Seq(EventRec)
  BY DEF Init
<1>6. /\ handler \in [pc : {"idle", "kill", "remove", "alloc", "spawn"}, inst : Ids \cup {NULL},
                      replace : BOOLEAN]
      /\ evictor \in [pc : {"idle", "kill", "remove"}, inst : Ids \cup {NULL}, replace : {FALSE}]
  BY DEF Init, Resting
<1>7. used \in UsedRec /\ operator.pc = "idle"
  BY DEF Init, UsedRec, NoOp
<1> QED
  BY <1>1, <1>2, <1>3, <1>4, <1>5, <1>6, <1>7
     DEF Typed, Command, TypeOK, InstRec, CheckRec, RequestRec, OpRec, Config, EventRec

(* The requests' own steps keep the types.                                 *)
LEMMA RequestTypes ==
    ASSUME Typed, NEW r \in Requests, RequestStep(r) \/ WaitTimesOut(r)
    PROVE  Typed'
<1>1. UNCHANGED <<inst, check, routed, suppressed, config, events, actors, used>>
  BY DEF RequestStep, Pick, Begin, Wait, Resume, Start, Finish, Broken, WaitTimesOut
<1>2. req' \in [Requests -> RequestRec]
  <2>1. req \in [Requests -> RequestRec] /\ routed \subseteq Ids
    BY DEF Typed, TypeOK, RequestRec
  <2>2. CASE Pick(r)
    BY <2>1, <2>2 DEF Pick, RequestRec
  <2>3. CASE Begin(r) \/ Wait(r) \/ WaitTimesOut(r) \/ Start(r)
    <3>1. PICK p \in {"begun", "ready", "waiting", "idle", "active"} :
             req' = [req EXCEPT ![r].pc = p]
      BY <2>3 DEF Begin, Wait, WaitTimesOut, Start
    <3> QED
      BY <2>1, <3>1 DEF RequestRec
  <2>4. CASE Resume(r)
    BY <2>1, <2>4 DEF Resume, RequestRec
  <2>5. CASE Finish(r) \/ Broken(r)
    BY <2>1, <2>5 DEF Finish, Broken, NoRequest, RequestRec
  <2> QED
    BY <2>2, <2>3, <2>4, <2>5 DEF RequestStep
<1>3. cold' \in {"none", "Starting", "Ready", "Failed"} /\ leaders' \in Nat
  BY DEF RequestStep, Pick, Begin, Wait, Resume, Start, Finish, Broken, WaitTimesOut,
         Typed, TypeOK
<1> QED
  BY <1>1, <1>2, <1>3 DEF Typed, TypeOK, RequestRec, events, actors

(* So do the spawn tasks.                                                  *)
LEMMA SpawnTypes ==
    ASSUME Typed, NEW i \in Ids, SpawnStep(i) \/ SpawnError(i) \/ Crash(i)
    PROVE  Typed'
<1>1. UNCHANGED <<check, suppressed, config, coldVars, healthEvents, actors>>
  BY DEF SpawnStep, SpawnProcess, SpawnReady, SpawnHealthy, SpawnAborts, SpawnKills, SpawnError,
         Crash, events
<1>2. inst' \in [Ids -> InstRec]
  <2>1. inst \in [Ids -> InstRec] /\ inst[i] \in InstRec
    BY DEF Typed, TypeOK, InstRec
  <2>2. PICK r \in InstRec : inst' = [inst EXCEPT ![i] = r]
    <3>1. CASE SpawnProcess(i)
      <4>1. inst' = [inst EXCEPT ![i] = [inst[i] EXCEPT !.proc = "up", !.st = "Starting",
                                                        !.spawn = "started"]]
        BY <2>1, <3>1 DEF SpawnProcess
      <4> QED
        BY <2>1, <4>1 DEF InstRec, States, Running
    <3>2. CASE SpawnError(i)
      BY <2>1, <3>2 DEF SpawnError, InstRec
    <3>3. CASE SpawnReady(i)
      <4>1. inst' = [inst EXCEPT ![i] = [inst[i] EXCEPT !.st = "Ready", !.spawn = "ready"]]
        BY <2>1, <3>3 DEF SpawnReady
      <4> QED
        BY <2>1, <4>1 DEF InstRec, States, Running
    <3>4. CASE SpawnHealthy(i)
      <4>1. inst' = [inst EXCEPT ![i] = [inst[i] EXCEPT !.st = "Healthy", !.spawn = "ok"]]
        BY <2>1, <3>4 DEF SpawnHealthy
      <4> QED
        BY <2>1, <4>1 DEF InstRec, States, Running
    <3>5. CASE SpawnAborts(i)
      <4>1. inst' = [inst EXCEPT ![i] = [inst[i] EXCEPT !.st = "Unhealthy", !.proc = "none",
                                                        !.spawn = "abort"]]
        BY <2>1, <3>5 DEF SpawnAborts
      <4> QED
        BY <2>1, <4>1 DEF InstRec, States, Running
    <3>6. CASE SpawnKills(i)
      <4>1. inst' = [inst EXCEPT ![i] = [inst[i] EXCEPT !.st = "Stopped", !.spawn = "failed"]]
        BY <2>1, <3>6 DEF SpawnKills
      <4> QED
        BY <2>1, <4>1 DEF InstRec, States, Running
    <3>7. CASE Crash(i)
      BY <2>1, <3>7 DEF Crash, InstRec
    <3> QED
      BY <3>1, <3>2, <3>3, <3>4, <3>5, <3>6, <3>7 DEF SpawnStep
  <2> QED
    BY <2>1, <2>2
<1>3. routed' \subseteq Ids /\ readyEvents' \subseteq Ids
  BY DEF SpawnStep, SpawnProcess, SpawnReady, SpawnHealthy, SpawnAborts, SpawnKills, SpawnError,
         Crash, events, Routing, Typed, TypeOK
<1>4. used' \in UsedRec
  BY DEF SpawnStep, SpawnProcess, SpawnReady, SpawnHealthy, SpawnAborts, SpawnKills, SpawnError,
         Crash, Fault, Typed, UsedRec
<1> QED
  BY <1>1, <1>2, <1>3, <1>4 DEF Typed, TypeOK, InstRec, coldVars, actors

(* Answering the waiting requests keeps the table of requests.             *)
LEMMA ColdTypes ==
    ASSUME Typed, MarkReady \/ MarkFailed \/ Reset \/ UNCHANGED coldVars
    PROVE  /\ cold' \in {"none", "Starting", "Ready", "Failed"} /\ leaders' \in Nat
           /\ req' \in [Requests -> RequestRec]
<1>1. req \in [Requests -> RequestRec]
  BY DEF Typed, TypeOK, RequestRec
<1>2. ASSUME NEW p \in {"ready", "idle"} PROVE Answered(p) \in [Requests -> RequestRec]
  BY <1>1, <1>2 DEF Answered, RequestRec
<1>3. req' \in [Requests -> RequestRec]
  BY <1>1, <1>2 DEF MarkReady, MarkFailed, Reset, coldVars
<1> QED
  BY <1>3 DEF MarkReady, MarkFailed, Reset, coldVars, Typed, TypeOK

(* A new instance is an instance, and so is one that was killed or removed.*)
LEMMA TableTypes ==
    ASSUME Typed
    PROVE  /\ inst \in [Ids -> InstRec]
           /\ \A i \in Ids : Allocated(i) \in [Ids -> InstRec]
           /\ \A i \in Ids \cup {NULL} : /\ Killed(i) \in [Ids -> InstRec]
                                         /\ Removed(i) \in [Ids -> InstRec]
<1>1. inst \in [Ids -> InstRec]
  BY DEF Typed, TypeOK, InstRec
<1>2. ASSUME NEW i \in Ids PROVE Allocated(i) \in [Ids -> InstRec]
  <2>1. [NoInst EXCEPT !.st = "Starting", !.reg = TRUE, !.build = config.version,
                       !.spawn = "alloc"] \in InstRec
    BY DEF NoInst, InstRec, States, Running, Typed, TypeOK
  <2> QED
    BY <1>1, <2>1 DEF Allocated
<1>3. ASSUME NEW i \in Ids \cup {NULL}
      PROVE  Killed(i) \in [Ids -> InstRec] /\ Removed(i) \in [Ids -> InstRec]
  <2>1. CASE i \in Ids
    <3>1. inst[i] \in InstRec
      BY <1>1, <2>1
    <3>2. Killed(i) = IF KillFails(i) THEN inst
                      ELSE [inst EXCEPT ![i] = [inst[i] EXCEPT !.proc = "none",
                                                               !.st = "Stopped"]]
      BY <1>1, <2>1 DEF Killed
    <3>3. [inst[i] EXCEPT !.proc = "none", !.st = "Stopped"] \in InstRec
      BY <3>1 DEF InstRec, States
    <3>4. Removed(i) = [inst EXCEPT ![i] = [inst[i] EXCEPT !.reg = FALSE]]
      BY DEF Removed
    <3>5. [inst[i] EXCEPT !.reg = FALSE] \in InstRec
      BY <3>1 DEF InstRec
    <3> QED
      BY <1>1, <3>2, <3>3, <3>4, <3>5
  <2>2. CASE i \notin Ids
    <3>1. [inst EXCEPT ![i].proc = "none", ![i].st = "Stopped"] = inst /\ Removed(i) = inst
      BY <1>1, <2>2 DEF Removed
    <3> QED
      BY <1>1, <3>1 DEF Killed
  <2> QED
    BY <2>1, <2>2
<1> QED
  BY <1>1, <1>2, <1>3

(* The cold start keeps the types.                                         *)
LEMMA ColdStartTypes ==
    ASSUME Typed, ColdAllocate \/ (\E i \in Ids : ColdStep(i)) \/ AppIdle
    PROVE  Typed'
<1>1. CASE ColdAllocate
  <2>1. inst' \in [Ids -> InstRec]
    BY <1>1, TableTypes DEF ColdAllocate
  <2>2. leaders' \in Nat
    BY <1>1 DEF ColdAllocate, Typed, TypeOK
  <2> QED
    BY ZenonT(40), <1>1, <2>1, <2>2 DEF ColdAllocate, Typed, TypeOK, InstRec, events, actors
<1>2. ASSUME NEW i \in Ids, ColdFinished(i) PROVE Typed'
  <2>1. inst' \in [Ids -> InstRec]
    <3>1. inst \in [Ids -> InstRec]
      BY TableTypes
    <3> QED
      BY <1>2, <3>1 DEF ColdFinished, InstRec
  <2> QED
    BY ZenonT(40), <1>2, <2>1 DEF ColdFinished, Typed, TypeOK, InstRec, events, actors, coldVars
<1>3. ASSUME NEW i \in Ids, ColdFailed(i) PROVE Typed'
  <2>1. inst' \in [Ids -> InstRec]
    <3>1. inst \in [Ids -> InstRec] /\ inst[i] \in InstRec
      BY TableTypes
    <3>2. inst' = [inst EXCEPT ![i] = [inst[i] EXCEPT !.spawn = "none", !.reg = FALSE]]
      BY <1>3, <3>1 DEF ColdFailed
    <3> QED
      BY <3>1, <3>2 DEF InstRec
  <2>2. routed' \subseteq Ids /\ suppressed' \subseteq Ids
    BY <1>3 DEF ColdFailed, RoutedWithout, SuppressedWithout, Typed, TypeOK
  <2>3. /\ cold' \in {"none", "Starting", "Ready", "Failed"} /\ leaders' \in Nat
        /\ req' \in [Requests -> RequestRec]
    BY <1>3, ColdTypes DEF ColdFailed
  <2> QED
    BY <1>3, <2>1, <2>2, <2>3 DEF ColdFailed, Typed, TypeOK, InstRec, RequestRec, events, actors
<1>4. CASE AppIdle
  <2>1. /\ cold' \in {"none", "Starting", "Ready", "Failed"} /\ leaders' \in Nat
        /\ req' \in [Requests -> RequestRec]
    BY <1>4, ColdTypes DEF AppIdle
  <2> QED
    BY <1>4, <2>1 DEF AppIdle, Typed, TypeOK, RequestRec, events, actors
<1> QED
  BY <1>1, <1>2, <1>3, <1>4 DEF ColdStep

(* The prober keeps the types.                                             *)
LEMMA CheckTypes ==
    ASSUME Typed, NEW i \in Ids, CheckStep(i)
    PROVE  Typed'
<1>1. UNCHANGED <<suppressed, config, coldVars, readyEvents, handler, evictor>>
  BY DEF CheckStep, CheckBegin, ProbeOk, ProbeFails, CheckExited, CheckOk, CheckFailed, events,
         actors
<1>2. check' \in [Ids -> CheckRec]
  <2>1. check \in [Ids -> CheckRec] /\ inst[i] \in InstRec
    BY TableTypes DEF Typed, TypeOK, CheckRec
  <2>2. CASE CheckBegin(i)
    BY <2>1, <2>2 DEF CheckBegin, CheckRec
  <2>3. CASE ProbeOk(i) \/ ProbeFails(i)
    BY <2>1, <2>3 DEF ProbeOk, ProbeFails, CheckRec
  <2>4. CASE CheckExited(i) \/ CheckOk(i) \/ CheckFailed(i)
    BY <2>1, <2>4, Blanks DEF CheckExited, CheckOk, CheckFailed
  <2> QED
    BY <2>2, <2>3, <2>4 DEF CheckStep
<1>3. Command(operator')
  <2>1. Command(operator)
    BY DEF Typed
  <2>2. ASSUME NEW a, NEW b \in {"none", "open", "probing", "probed"}
        PROVE  Command(Window(i, a, b))
    <3>1. /\ Window(i, a, b) \in OpRec /\ Window(i, a, b).pc = operator.pc
          /\ Window(i, a, b).todo = operator.todo /\ Window(i, a, b).cur = operator.cur
          /\ Window(i, a, b).mode = operator.mode
      BY <2>1, <2>2 DEF Window, OpRec, Command
    <3> QED
      BY <2>1, <3>1 DEF Command
  <2> QED
    BY <2>1, <2>2 DEF CheckStep, CheckBegin, ProbeOk, ProbeFails, CheckExited, CheckOk,
                      CheckFailed, actors
<1>4. used' \in UsedRec
  <2>1. used \in UsedRec
    BY DEF Typed
  <2>2. CASE Noted(i)
    <3>1. PICK b \in BOOLEAN : used' = [used EXCEPT !.sick = b]
      BY <2>1, <2>2 DEF Noted, UsedRec
    <3> QED
      BY <2>1, <3>1 DEF UsedRec
  <2>3. CASE CheckBegin(i) \/ ProbeOk(i) \/ ProbeFails(i)
    BY <2>1, <2>3 DEF CheckBegin, ProbeOk, ProbeFails, Fault, UsedRec
  <2> QED
    BY <2>2, <2>3 DEF CheckStep, CheckExited, CheckOk, CheckFailed
<1>5. /\ inst' \in [Ids -> InstRec] /\ routed' \subseteq Ids
      /\ healthEvents' \in Seq(EventRec)
  <2>1. /\ inst \in [Ids -> InstRec] /\ inst[i] \in InstRec /\ routed \subseteq Ids
        /\ healthEvents \in Seq(EventRec)
    BY TableTypes DEF Typed, TypeOK, EventRec
  <2>2. ASSUME NEW s \in States, NEW e \in {"none", "Healthy", "Dead"}, Applied(i, s, e)
        PROVE  /\ inst' \in [Ids -> InstRec] /\ routed' \subseteq Ids
               /\ healthEvents' \in Seq(EventRec)
    <3>1. routed' \subseteq Ids
      BY <2>1, <2>2 DEF Applied, Routing
    <3>2. inst' \in [Ids -> InstRec]
      BY SMTT(30), <2>1, <2>2 DEF Applied, InstRec
    <3>3. healthEvents' \in Seq(EventRec)
      <4>1. e # "none" => [kind |-> e, inst |-> i] \in EventRec
        BY <2>2 DEF EventRec
      <4> QED
        BY <2>1, <2>2, <4>1 DEF Applied
    <3> QED
      BY <3>1, <3>2, <3>3
  <2>3. CASE CheckExited(i)
    <3> DEFINE gone == [inst[i] EXCEPT !.proc = IF @ = "exited" THEN "reaped" ELSE @]
    <3>1. gone \in InstRec
      BY <2>1 DEF InstRec
    <3>2. [gone EXCEPT !.st = "Stopped"] \in InstRec
      BY <3>1 DEF InstRec, States
    <3>3. [kind |-> "Dead", inst |-> i] \in EventRec
      BY DEF EventRec
    <3> QED
      BY SMTT(30), <2>1, <2>3, <3>1, <3>2, <3>3 DEF CheckExited, Routing
  <2>4. CASE CheckOk(i)
    <3>1. CASE check[i].st = "Healthy"
      BY <2>1, <2>4, <3>1 DEF CheckOk
    <3>2. CASE check[i].st # "Healthy"
      <4>1. Applied(i, "Healthy", IF check[i].st = "Ready" THEN "Healthy" ELSE "none")
        BY <2>4, <3>2 DEF CheckOk
      <4> QED
        BY <2>2, <4>1 DEF States, Running
    <3> QED
      BY <3>1, <3>2
  <2>5. CASE CheckFailed(i)
    <3>1. PICK s \in IF i \in suppressed THEN {"Unhealthy"}
                     ELSE {check[i].st, "Unhealthy", "Stopped"} :
             IF s = check[i].st THEN UNCHANGED <<inst, routed, healthEvents>>
             ELSE Applied(i, s, IF s = "Stopped" THEN "Dead" ELSE "none")
      BY <2>5 DEF CheckFailed
    <3>2. CASE s = check[i].st
      BY <2>1, <3>1, <3>2
    <3>3. CASE s # check[i].st
      BY <2>2, <3>1, <3>3 DEF States
    <3> QED
      BY <3>2, <3>3
  <2>6. CASE CheckBegin(i) \/ ProbeOk(i) \/ ProbeFails(i)
    BY <2>1, <2>6 DEF CheckBegin, ProbeOk, ProbeFails, events
  <2> QED
    BY <2>3, <2>4, <2>5, <2>6 DEF CheckStep
<1>6. TypeOK'
  <2>1. /\ operator'.old \subseteq Ids /\ operator'.new \subseteq Ids /\ operator'.todo \in Nat
        /\ operator'.cur \in Ids \cup {NULL}
    BY <1>3 DEF OpRec, Command
  <2> QED
    BY <1>1, <1>2, <1>5, <2>1 DEF Typed, TypeOK, InstRec, CheckRec, EventRec, coldVars
<1> QED
  BY <1>3, <1>4, <1>6 DEF Typed

HandlerRec == [pc : {"idle", "kill", "remove", "alloc", "spawn"}, inst : Ids \cup {NULL},
               replace : BOOLEAN]
EvictorRec == [pc : {"idle", "kill", "remove"}, inst : Ids \cup {NULL}, replace : {FALSE}]

(* The handler of events and the evictor keep the types.                   *)
LEMMA HandlerTypes ==
    ASSUME Typed, HandlerStep \/ \E i \in Ids : HandleReady(i)
    PROVE  Typed'
<1>1. handler \in HandlerRec /\ Resting \in HandlerRec /\ handler.inst \in Ids \cup {NULL}
  BY DEF Typed, TypeOK, HandlerRec, Resting
<1>2. ASSUME NEW k \in {"Healthy", "Dead"}, NextEvent(k)
      PROVE  /\ healthEvents' \in Seq(EventRec) /\ Head(healthEvents) \in EventRec
             /\ handler.pc = "idle"
  <2>1. healthEvents \in Seq(EventRec) /\ healthEvents # <<>>
    BY <1>2 DEF Typed, TypeOK, EventRec, NextEvent
  <2> QED
    BY <1>2, <2>1 DEF NextEvent
<1>3. CASE HandleHealthy \/ \E i \in Ids : HandleReady(i)
  <2>1. /\ cold' \in {"none", "Starting", "Ready", "Failed"} /\ leaders' \in Nat
        /\ req' \in [Requests -> RequestRec]
    BY <1>3, ColdTypes DEF HandleHealthy, HandleReady
  <2>2. readyEvents' \subseteq Ids
    BY <1>3 DEF HandleHealthy, HandleReady, Typed, TypeOK
  <2>3. healthEvents' \in Seq(EventRec)
    BY <1>3, <1>2 DEF HandleHealthy, HandleReady, Typed, TypeOK, EventRec
  <2>4. UNCHANGED <<inst, check, routed, suppressed, config, handler, evictor, operator, used>>
    BY <1>3 DEF HandleHealthy, HandleReady, actors
  <2> QED
    BY <2>1, <2>2, <2>3, <2>4 DEF Typed, TypeOK, RequestRec, EventRec
<1>4. CASE HandleDead
  <2>1. /\ cold' \in {"none", "Starting", "Ready", "Failed"} /\ leaders' \in Nat
        /\ req' \in [Requests -> RequestRec]
    BY <1>4, ColdTypes DEF HandleDead
  <2>2. healthEvents' \in Seq(EventRec) /\ Head(healthEvents).inst \in Ids
    BY <1>4, <1>2 DEF HandleDead, EventRec
  <2>3. handler' \in HandlerRec
    <3>1. CASE handler' = handler
      BY <1>1, <3>1
    <3>2. CASE handler' # handler
      <4> DEFINE i == Head(healthEvents).inst
                 b == Cardinality(OfBuild(inst[i].build))
                        <= IF inst[i].build = config.version THEN config.min ELSE 0
      <4>1. handler' = [pc |-> "kill", inst |-> i, replace |-> b]
        BY <1>4, <3>2 DEF HandleDead
      <4>2. b \in BOOLEAN
        OBVIOUS
      <4> HIDE DEF b
      <4> QED
        BY <2>2, <4>1, <4>2 DEF HandlerRec
    <3> QED
      BY <3>1, <3>2
  <2>4. UNCHANGED <<inst, check, routed, suppressed, config, readyEvents, evictor, operator,
                    used>>
    BY <1>4 DEF HandleDead
  <2> QED
    BY <2>1, <2>2, <2>3, <2>4 DEF Typed, TypeOK, RequestRec, EventRec, HandlerRec
<1>5. CASE HandlerKills \/ HandlerRemoves \/ HandlerAllocates
  <2>1. inst' \in [Ids -> InstRec]
    BY <1>1, <1>5, TableTypes DEF HandlerKills, HandlerRemoves, HandlerAllocates
  <2>2. routed' \subseteq Ids /\ suppressed' \subseteq Ids
    BY <1>5 DEF HandlerKills, HandlerRemoves, HandlerAllocates, RoutedWithout,
                SuppressedWithout, Typed, TypeOK
  <2>3. handler' \in HandlerRec
    BY <1>1, <1>5 DEF HandlerKills, HandlerRemoves, HandlerAllocates, HandlerRec
  <2>4. UNCHANGED <<check, config, coldVars, events, evictor, operator, used>>
    BY <1>5 DEF HandlerKills, HandlerRemoves, HandlerAllocates
  <2> QED
    BY <2>1, <2>2, <2>3, <2>4 DEF Typed, TypeOK, InstRec, HandlerRec, coldVars, events
<1>6. CASE HandlerSpawned
  <2>1. inst' \in [Ids -> InstRec]
    <3> DEFINE i == handler.inst
    <3>1. inst \in [Ids -> InstRec]
      BY TableTypes
    <3>2. CASE i \in Ids
      <4>1. inst[i] \in InstRec
        BY <3>1, <3>2
      <4>2. CASE inst[i].spawn = "ok"
        <5>1. inst' = [inst EXCEPT ![i] = [inst[i] EXCEPT !.spawn = "none"]]
          BY <1>6, <4>2 DEF HandlerSpawned
        <5> QED
          BY <3>1, <4>1, <5>1 DEF InstRec
      <4>3. CASE inst[i].spawn # "ok"
        <5>1. inst' = [inst EXCEPT ![i].spawn = "none", ![i].reg = FALSE]
          BY <1>6, <4>3 DEF HandlerSpawned
        <5>2. inst' = [inst EXCEPT ![i] = [inst[i] EXCEPT !.spawn = "none", !.reg = FALSE]]
          BY <3>1, <3>2, <5>1
        <5> QED
          BY <3>1, <4>1, <5>2 DEF InstRec
      <4> QED
        BY <4>2, <4>3
    <3>3. CASE i \notin Ids
      BY <1>6, <3>1, <3>3 DEF HandlerSpawned
    <3> QED
      BY <3>2, <3>3
  <2>2. routed' \subseteq Ids /\ suppressed' \subseteq Ids
    BY <1>6 DEF HandlerSpawned, RoutedWithout, SuppressedWithout, Typed, TypeOK
  <2>3. handler' \in HandlerRec
    BY <1>1, <1>6 DEF HandlerSpawned
  <2>4. UNCHANGED <<check, config, coldVars, events, evictor, operator, used>>
    BY <1>6 DEF HandlerSpawned
  <2> QED
    BY <2>1, <2>2, <2>3, <2>4 DEF Typed, TypeOK, InstRec, HandlerRec, coldVars, events
<1> QED
  BY <1>3, <1>4, <1>5, <1>6 DEF HandlerStep

(* The evictor keeps them.                                                 *)
LEMMA EvictorTypes ==
    ASSUME Typed, EvictorStep \/ \E i \in Ids : Evict(i)
    PROVE  Typed'
<1>1. evictor \in EvictorRec /\ Resting \in EvictorRec /\ evictor.inst \in Ids \cup {NULL}
  BY DEF Typed, TypeOK, EvictorRec, Resting
<1>2. CASE EvictKills \/ EvictRemoves
  <2>1. inst' \in [Ids -> InstRec]
    BY <1>1, <1>2, TableTypes DEF EvictKills, EvictRemoves
  <2>2. routed' \subseteq Ids /\ suppressed' \subseteq Ids
    BY <1>2 DEF EvictKills, EvictRemoves, RoutedWithout, SuppressedWithout, Typed, TypeOK
  <2>3. evictor' \in EvictorRec
    BY <1>1, <1>2 DEF EvictKills, EvictRemoves, EvictorRec
  <2>4. /\ cold' \in {"none", "Starting", "Ready", "Failed"} /\ leaders' \in Nat
        /\ req' \in [Requests -> RequestRec]
    <3>1. Reset \/ UNCHANGED coldVars
      BY <1>2 DEF EvictKills, EvictRemoves
    <3> QED
      BY <3>1, ColdTypes
  <2>5. UNCHANGED <<check, config, events, handler, operator, used>>
    BY <1>2 DEF EvictKills, EvictRemoves
  <2> QED
    BY <2>1, <2>2, <2>3, <2>4, <2>5 DEF Typed, TypeOK, InstRec, EvictorRec, RequestRec, events
<1>3. ASSUME NEW i \in Ids, Evict(i) PROVE Typed'
  <2>1. evictor' \in EvictorRec
    BY <1>1, <1>3 DEF Evict, EvictorRec
  <2>2. used' \in UsedRec
    <3>1. used \in UsedRec /\ used' = [used EXCEPT !.evictions = used.evictions + 1]
      BY <1>3 DEF Evict, Typed
    <3> QED
      BY <3>1 DEF UsedRec
  <2> QED
    BY <1>3, <2>1, <2>2 DEF Evict, Typed, TypeOK, EvictorRec, coldVars, events
<1> QED
  BY <1>2, <1>3 DEF EvictorStep

(* The commands of the operator keep them.                                 *)
LEMMA OperatorTypes ==
    ASSUME Typed,
           OperatorStep \/ DrainTimesOut \/ Deploy \/ Stop \/ \E n \in ScaleTargets : Scale(n)
    PROVE  Typed'
<1>1. operator \in OpRec /\ config \in Config /\ NoOp \in OpRec /\ used \in UsedRec
  BY Blanks DEF Typed, Command, TypeOK, Config
<1>2. /\ inst \in [Ids -> InstRec] /\ routed \subseteq Ids /\ suppressed \subseteq Ids
      /\ Registered \subseteq Ids
  BY TableTypes DEF Typed, TypeOK, Registered
<1>3. ASSUME NEW p \in {"rollback", "restore"} PROVE Fail(p) \in OpRec /\ Fail(p).pc = p /\ Command(Fail(p))
  BY <1>1, <1>3 DEF Fail, OpRec, Command
<1>a. operator.cur \in Ids \cup {NULL} /\ operator.old \subseteq Ids /\ operator.new \subseteq Ids
  BY <1>1 DEF OpRec
<1>b. UNCHANGED <<check, events, handler, evictor>>
  BY DEF OperatorStep, Prepared, OpAllocates, OpSpawned, OpSpawnFails, Settled, Cutover, DrainOne,
         Drained, OpKills, OpRemoves, OpFinishes, RollbackKills, RollbackRemoves, Restore,
         DrainTimesOut, Deploy, Stop, Scale
<1>c. /\ cold' \in {"none", "Starting", "Ready", "Failed"} /\ leaders' \in Nat
      /\ req' \in [Requests -> RequestRec]
  <2>1. Reset \/ UNCHANGED coldVars
    BY DEF OperatorStep, Prepared, OpAllocates, OpSpawned, OpSpawnFails, Settled, Cutover,
           DrainOne, Drained, OpKills, OpRemoves, OpFinishes, RollbackKills, RollbackRemoves,
           Restore, DrainTimesOut, Deploy, Stop, Scale
  <2> QED
    BY <2>1, ColdTypes
<1>d. SUFFICES /\ inst' \in [Ids -> InstRec] /\ routed' \subseteq Ids /\ suppressed' \subseteq Ids
               /\ config' \in Config /\ used' \in UsedRec /\ Command(operator')
  <2> SUFFICES ASSUME /\ inst' \in [Ids -> InstRec] /\ routed' \subseteq Ids
                      /\ suppressed' \subseteq Ids
                      /\ config' \in Config /\ used' \in UsedRec /\ Command(operator')
               PROVE  Typed'
    BY <1>d
  <2>1. /\ operator'.old \subseteq Ids /\ operator'.new \subseteq Ids /\ operator'.todo \in Nat
        /\ operator'.cur \in Ids \cup {NULL}
    BY DEF OpRec, Command
  <2> QED
    BY <1>b, <1>c, <2>1 DEF Typed, TypeOK, InstRec, RequestRec, Config, events
<1>4. CASE Deploy
  <2>1. Command(operator')
    BY <1>1, <1>4 DEF Deploy, NoOp, OpRec, Command
  <2>2. config' \in Config
    BY <1>1, <1>4 DEF Deploy, Config
  <2>3. used' \in UsedRec
    BY <1>1, <1>4 DEF Deploy, UsedRec
  <2> QED
    BY <1>2, <1>4, <2>1, <2>2, <2>3 DEF Deploy
<1>5. CASE Prepared
  <2>1. AtLeastOne \in Nat
    BY <1>1 DEF AtLeastOne, Config
  <2>2. Command(operator')
    BY <1>1, <1>2, <1>5, <2>1 DEF Prepared, OpRec, Command
  <2> QED
    BY <1>1, <1>2, <1>5, <2>2 DEF Prepared
<1>6. ASSUME NEW n \in ScaleTargets, Scale(n)
      PROVE  /\ inst' \in [Ids -> InstRec] /\ routed' \subseteq Ids /\ suppressed' \subseteq Ids
             /\ config' \in Config /\ used' \in UsedRec /\ Command(operator')
  <2> DEFINE candidates == {i \in Registered : inst[i].st \in Running}
             running == Cardinality(candidates)
  <2>1. n \in Nat /\ running \in Nat
    <3>1. candidates \subseteq Ids
      BY <1>2
    <3>2. IsFiniteSet(candidates)
      BY <3>1, InstancesAssumption, FS_Subset
    <3> QED
      BY <3>2, InstancesAssumption, FS_CardinalityType
  <2>2. PICK old \in SUBSET candidates :
           operator' = [NoOp EXCEPT !.mode = "scale", !.saved = config, !.old = old,
                                    !.pc = IF n > running THEN "next" ELSE "drain",
                                    !.todo = IF n > running THEN n - running ELSE 0]
    BY <1>6 DEF Scale
  <2> HIDE DEF running
  <2>3. old \subseteq Ids
    BY <1>2, <2>2
  <2>4. Command(operator')
    <3>1. (IF n > running THEN n - running ELSE 0) \in Nat
      BY <2>1
    <3> QED
      BY ZenonT(40), <1>1, <2>2, <2>3, <3>1 DEF NoOp, OpRec, Command
  <2>5. config' \in Config
    BY <1>1, <1>6, <2>1 DEF Scale, Config
  <2>6. used' \in UsedRec
    <3>1. used' = [used EXCEPT !.commands = used.commands + 1]
      BY <1>6 DEF Scale
    <3> QED
      BY <1>1, <3>1 DEF UsedRec
  <2> QED
    BY <1>2, <1>6, <2>4, <2>5, <2>6 DEF Scale
<1>7. CASE Stop
  <2>1. Command(operator')
    BY <1>1, <1>2, <1>7 DEF Stop, NoOp, OpRec, Command
  <2>2. used' \in UsedRec
    <3>1. used' = [used EXCEPT !.commands = used.commands + 1, !.stopped = TRUE]
      BY <1>7 DEF Stop
    <3>2. used.commands + 1 \in Nat
      BY <1>1 DEF UsedRec
    <3> QED
      BY <1>1, <3>1, <3>2 DEF UsedRec
  <2> QED
    BY <1>1, <1>2, <1>7, <2>1, <2>2 DEF Stop
<1>8. CASE OpAllocates
  <2>1. PICK i \in Ids : /\ inst' = Allocated(i)
                         /\ operator' = [operator EXCEPT !.pc = "spawn", !.cur = i]
                         /\ suppressed' = suppressed \cup {i} \/ suppressed' = suppressed
    BY <1>8 DEF OpAllocates
  <2>2. inst' \in [Ids -> InstRec] /\ suppressed' \subseteq Ids
    BY <1>2, <2>1, TableTypes
  <2>3. Command(operator')
    BY <1>1, <1>8, <2>1 DEF OpAllocates, OpRec, Command, Typed
  <2> QED
    BY <1>1, <1>2, <1>8, <2>2, <2>3 DEF OpAllocates
<1>9. CASE OpSpawned
  <2>1. inst' \in [Ids -> InstRec]
    BY <1>2, <1>9 DEF OpSpawned, InstRec
  <2>2. operator.todo > 0 /\ operator.cur \in Ids /\ operator.mode \in {"fresh", "rollout", "scale"}
    BY <1>9 DEF OpSpawned, Typed, Command
  <2>3. CASE operator.mode = "rollout"
    <3>1. operator' = [operator EXCEPT !.pc = "settle", !.new = operator.new \cup {operator.cur},
                                       !.window = "open"]
      BY <1>9, <2>3 DEF OpSpawned
    <3>2. Command(operator')
      BY <1>1, <2>2, <3>1 DEF OpRec, Command
    <3> QED
      BY <1>1, <1>2, <1>9, <2>1, <3>2 DEF OpSpawned
  <2>4. CASE operator.mode # "rollout"
    <3>1. operator' = [operator EXCEPT !.pc = "next", !.new = operator.new \cup {operator.cur},
                                       !.cur = NULL, !.todo = operator.todo - 1]
      BY <1>9, <2>4 DEF OpSpawned
    <3>2. operator.todo - 1 \in Nat
      BY <1>1, <2>2 DEF OpRec
    <3>3. Command(operator')
      BY <1>1, <2>2, <3>1, <3>2 DEF OpRec, Command
    <3> QED
      BY <1>1, <1>2, <1>9, <2>1, <3>3 DEF OpSpawned
  <2> QED
    BY <2>3, <2>4
<1>10. CASE OpSpawnFails
  <2> DEFINE i == operator.cur
             forget == operator.mode = "fresh" /\ config.min = 0
  <2>1. i \in Ids /\ inst[i] \in InstRec
    BY <1>2, <1>10 DEF OpSpawnFails, Typed, Command
  <2>2. inst' \in [Ids -> InstRec]
    <3>1. inst' = [inst EXCEPT ![i] = [inst[i] EXCEPT !.spawn = "none",
                                                      !.reg = inst[i].reg /\ ~forget]]
      BY <1>2, <1>10, <2>1 DEF OpSpawnFails
    <3>2. (inst[i].reg /\ ~forget) \in BOOLEAN
      OBVIOUS
    <3> HIDE DEF forget
    <3> QED
      BY <1>2, <2>1, <3>1, <3>2 DEF InstRec
  <2>3. routed' \subseteq Ids
    BY <1>2, <1>10 DEF OpSpawnFails, RoutedWithout
  <2>4. Command(operator')
    <3>1. CASE operator.mode = "rollout"
      <4>1. operator' = [Fail("rollback") EXCEPT !.new = Fail("rollback").new \cup {i}]
        BY <1>10, <3>1 DEF OpSpawnFails
      <4> QED
        BY <1>3, <2>1, <4>1 DEF OpRec, Command
    <3>2. CASE operator.mode = "scale"
      BY <1>3, <1>10, <3>2 DEF OpSpawnFails
    <3>3. CASE operator.mode = "fresh"
      BY <1>3, <1>10, <3>3 DEF OpSpawnFails
    <3>4. operator.mode \in {"rollout", "scale", "fresh"}
      BY <1>10 DEF OpSpawnFails, Typed, Command
    <3> QED
      BY <3>1, <3>2, <3>3, <3>4
  <2>5. used' \in UsedRec
    <3>1. PICK b \in BOOLEAN : used' = [used EXCEPT !.stuck = b]
      BY <1>1, <1>10 DEF OpSpawnFails, UsedRec
    <3> QED
      BY <1>1, <3>1 DEF UsedRec
  <2> QED
    BY <1>1, <1>2, <1>10, <2>2, <2>3, <2>4, <2>5 DEF OpSpawnFails
<1>11. CASE Settled
  <2>1. CASE inst[operator.cur].st = "Healthy"
    <3>1. operator.todo - 1 \in Nat /\ operator.mode \in {"fresh", "rollout", "scale"}
      BY <1>1, <1>11 DEF Settled, Typed, Command, OpRec
    <3>2. operator' = [operator EXCEPT !.pc = "next", !.cur = NULL, !.todo = operator.todo - 1,
                                       !.window = "none"]
      BY <1>11, <2>1 DEF Settled
    <3>3. Command(operator')
      BY <1>1, <3>1, <3>2 DEF OpRec, Command
    <3> QED
      BY <1>1, <1>2, <1>11, <3>3 DEF Settled
  <2>2. CASE inst[operator.cur].st # "Healthy"
    BY <1>1, <1>2, <1>3, <1>11, <2>2 DEF Settled
  <2> QED
    BY <2>1, <2>2
<1>12. CASE Cutover
  <2>1. Command(operator')
    <3>1. \/ operator' = [operator EXCEPT !.pc = "drain", !.old = {}]
          \/ operator' = [operator EXCEPT !.pc = "drain"]
          \/ operator' = Fail("rollback")
      BY <1>12 DEF Cutover
    <3> QED
      BY <1>1, <1>3, <3>1 DEF OpRec, Command
  <2>2. routed' \subseteq Ids /\ suppressed' \subseteq Ids
    BY <1>2, <1>a, <1>12 DEF Cutover
  <2> QED
    BY <1>1, <1>2, <1>12, <2>1, <2>2 DEF Cutover
<1>13. CASE DrainOne
  <2>1. PICK i \in operator.old :
          /\ inst' = [inst EXCEPT ![i].st = "Draining"]
          /\ routed' = Routing(i, "Draining")
          /\ operator' = [operator EXCEPT !.pc = IF operator.mode = "stop" THEN "kill"
                                                 ELSE "drained",
                                          !.cur = i, !.old = operator.old \ {i}]
    BY <1>13 DEF DrainOne
  <2>2. i \in Ids /\ inst' \in [Ids -> InstRec]
    BY <1>2, <1>a, <2>1 DEF InstRec, States
  <2>3. Command(operator')
    BY <1>1, <2>1, <2>2 DEF OpRec, Command
  <2> QED
    BY <1>1, <1>2, <1>13, <2>1, <2>2, <2>3 DEF DrainOne, Routing
<1>14. CASE Drained \/ DrainTimesOut
  <2>1. operator' = [operator EXCEPT !.pc = "kill"]
    BY <1>14 DEF Drained, DrainTimesOut
  <2>2. Command(operator')
    BY <1>1, <2>1 DEF OpRec, Command
  <2> QED
    BY <1>1, <1>2, <1>14, <2>2 DEF Drained, DrainTimesOut
<1>15. CASE OpKills \/ OpRemoves \/ OpFinishes
  <2>1. \/ operator' = NoOp \/ operator' = [operator EXCEPT !.pc = "remove"]
        \/ operator' = [operator EXCEPT !.pc = "drain", !.cur = NULL]
    BY <1>15 DEF OpKills, OpRemoves, OpFinishes
  <2>2. Command(operator')
    BY <1>1, <2>1 DEF OpRec, Command, NoOp
  <2>3. inst' \in [Ids -> InstRec]
    BY <1>2, <1>a, <1>15, TableTypes DEF OpKills, OpRemoves, OpFinishes
  <2>4. routed' \subseteq Ids /\ suppressed' \subseteq Ids
    BY <1>2, <1>15 DEF OpKills, OpRemoves, OpFinishes, RoutedWithout, SuppressedWithout
  <2> QED
    BY <1>1, <1>15, <2>2, <2>3, <2>4 DEF OpKills, OpRemoves, OpFinishes
<1>16. CASE RollbackKills
  <2>1. PICK i \in operator.new :
          /\ inst' = Killed(i)
          /\ operator' = [operator EXCEPT !.pc = "discard", !.cur = i,
                                          !.new = operator.new \ {i}]
    BY <1>16 DEF RollbackKills
  <2>2. i \in Ids
    BY <1>a, <2>1
  <2>3. inst' \in [Ids -> InstRec]
    BY <2>1, <2>2, TableTypes
  <2>4. Command(operator')
    BY <1>1, <2>1, <2>2 DEF OpRec, Command
  <2> QED
    BY <1>1, <1>2, <1>16, <2>3, <2>4 DEF RollbackKills
<1>17. CASE RollbackRemoves
  <2>1. inst' \in [Ids -> InstRec]
    BY <1>a, <1>17, TableTypes DEF RollbackRemoves
  <2>2. routed' \subseteq Ids /\ suppressed' \subseteq Ids
    BY <1>2, <1>17 DEF RollbackRemoves, RoutedWithout, SuppressedWithout
  <2> QED
    BY <1>1, <1>3, <1>17, <2>1, <2>2 DEF RollbackRemoves
<1>18. CASE Restore
  <2>1. config' \in Config
    BY <1>1, <1>18 DEF Restore, OpRec
  <2>2. Command(operator')
    BY <1>1, <1>18 DEF Restore, Command, NoOp
  <2> QED
    BY <1>1, <1>2, <1>18, <2>1, <2>2 DEF Restore
<1> QED
  BY <1>4, <1>5, <1>6, <1>7, <1>8, <1>9, <1>10, <1>11, <1>12, <1>13, <1>14, <1>15, <1>16,
     <1>17, <1>18 DEF OperatorStep

(* The state stays well typed, and a command always knows the instance it  *)
(* is waiting for.                                                         *)
THEOREM TypeCorrect == Spec => []Typed
<1>1. Typed /\ [Next]_vars => Typed'
  <2> SUFFICES ASSUME Typed, [Next]_vars PROVE Typed'
    OBVIOUS
  <2>1. CASE UNCHANGED vars
    BY <2>1 DEF vars, Typed, TypeOK
  <2>2. CASE Next
    BY <2>2, RequestTypes, SpawnTypes, ColdStartTypes, CheckTypes, HandlerTypes, EvictorTypes,
       OperatorTypes DEF Next
  <2> QED
    BY <2>1, <2>2
<1> QED
  BY <1>1, InstTypeInit, PTL DEF Spec

-----------------------------------------------------------------------------
(* Candidates of a rollout stay hidden from requests until the cutover: a  *)
(* transition to Healthy asks for the suppression, a candidate is          *)
(* suppressed in the critical section that registers it, and the cutover   *)
(* lifts the suppression of all of them as it adds them.                   *)
THEOREM HiddenUntilCutover == Spec => []SuppressedHidden
<1>1. Init => SuppressedHidden
  BY DEF Init, SuppressedHidden
<1>2. Typed /\ SuppressedHidden /\ [Next]_vars => SuppressedHidden'
  <2> SUFFICES ASSUME Typed, SuppressedHidden, [Next]_vars PROVE SuppressedHidden'
    OBVIOUS
  <2>1. CASE routed' \subseteq routed /\ suppressed' \subseteq suppressed
    BY <2>1 DEF SuppressedHidden
  <2>2. ASSUME NEW i, NEW s, routed' = Routing(i, s), suppressed' = suppressed
        PROVE  SuppressedHidden'
    BY <2>2 DEF Routing, SuppressedHidden
  <2>3. ASSUME NEW i \in Ids, SpawnStep(i) \/ SpawnError(i) \/ Crash(i) PROVE SuppressedHidden'
    BY <2>1, <2>2, <2>3 DEF SpawnStep, SpawnProcess, SpawnReady, SpawnHealthy, SpawnAborts,
                            SpawnKills, SpawnError, Crash
  <2>4. ASSUME NEW i \in Ids, CheckStep(i) PROVE SuppressedHidden'
    BY <2>1, <2>2, <2>4 DEF CheckStep, CheckBegin, ProbeOk, ProbeFails, CheckExited, CheckOk,
                            CheckFailed, Applied
  <2>5. ASSUME NEW r \in Requests, RequestStep(r) \/ WaitTimesOut(r) PROVE SuppressedHidden'
    BY <2>1, <2>5 DEF RequestStep, Pick, Begin, Wait, Resume, Start, Finish, Broken,
                      WaitTimesOut
  <2>6. CASE ColdAllocate \/ (\E i \in Ids : ColdStep(i)) \/ AppIdle
    BY <2>1, <2>6 DEF ColdAllocate, ColdStep, ColdFinished, ColdFailed, AppIdle, RoutedWithout,
                      SuppressedWithout
  <2>7. CASE HandlerStep \/ \E i \in Ids : HandleReady(i)
    BY <2>1, <2>7 DEF HandlerStep, HandleHealthy, HandleDead, HandlerKills, HandlerRemoves,
                      HandlerAllocates, HandlerSpawned, HandleReady, RoutedWithout,
                      SuppressedWithout
  <2>8. CASE EvictorStep \/ \E i \in Ids : Evict(i)
    BY <2>1, <2>8 DEF EvictorStep, EvictKills, EvictRemoves, Evict, RoutedWithout,
                      SuppressedWithout
  <2>9. CASE OpAllocates
    <3>1. PICK i \in Ids : Unused(i) /\ suppressed' \subseteq suppressed \cup {i}
      BY <2>9 DEF OpAllocates
    <3>2. i \notin routed /\ routed' = routed
      BY <2>9, <3>1 DEF Unused, OpAllocates
    <3> QED
      BY <3>1, <3>2 DEF SuppressedHidden
  <2>10. CASE Cutover
    BY <2>1, <2>10 DEF Cutover, SuppressedHidden
  <2>11. CASE DrainOne
    BY <2>1, <2>11 DEF DrainOne, Routing
  <2>12. CASE \/ Prepared \/ OpSpawned \/ OpSpawnFails \/ Settled \/ Drained \/ OpKills
              \/ OpRemoves \/ OpFinishes \/ RollbackKills \/ RollbackRemoves \/ Restore
              \/ DrainTimesOut \/ Deploy \/ Stop \/ \E n \in ScaleTargets : Scale(n)
    BY <2>1, <2>12 DEF Prepared, OpSpawned, OpSpawnFails, Settled, Drained, OpKills, OpRemoves,
                       OpFinishes, RollbackKills, RollbackRemoves, Restore, DrainTimesOut,
                       Deploy, Stop, Scale, RoutedWithout, SuppressedWithout
  <2>13. CASE UNCHANGED vars
    BY <2>1, <2>13 DEF vars
  <2> QED
    BY <2>3, <2>4, <2>5, <2>6, <2>7, <2>8, <2>9, <2>10, <2>11, <2>12, <2>13
       DEF Next, OperatorStep
<1> QED
  BY <1>1, <1>2, TypeCorrect, PTL DEF Spec

-----------------------------------------------------------------------------
(* Zero downtime.                                                          *)
(* Nobody stopped the app, no probe took a serving instance away or        *)
(* reported one dead, and no instance was left that only seems to run.     *)
Calm == ~used.sick /\ ~used.stopped /\ ~used.stuck

(* Where a command is before the instances it starts are all there, and    *)
(* while it stops the instances it replaced or has no use for.             *)
Rolling == {"next", "spawn", "settle", "rollback", "discard"}
Stopping == {"drain", "drained", "kill", "remove"}

Serving == {i \in Ids : inst[i].reg /\ i \in routed /\ inst[i].st = "Healthy"}

(* Instances the command has started or is taking back.                    *)
Coming == IF operator.pc \in {"next", "settle", "rollback"} THEN operator.new
          ELSE IF operator.pc \in {"spawn", "discard"} THEN operator.new \cup {operator.cur}
          ELSE {}

(* Instances that the evictor or the command is about to stop, or stops if *)
(* it fails.                                                               *)
Leaving == {evictor.inst} \cup Coming \cup
           (IF operator.pc \in Stopping THEN operator.old \cup {operator.cur} ELSE {})

Staying == Serving \ Leaving

(* How many have to stay: if the command fails, the configuration goes     *)
(* back to what it was.                                                    *)
Target == IF operator.pc \in Rolling THEN operator.saved.min ELSE config.min

(* Instances whose death is reported and not yet handled.                  *)
Dead == {i \in Ids : \E k \in 1..Len(healthEvents) :
                        healthEvents[k].kind = "Dead" /\ healthEvents[k].inst = i}

(* The command: only rollouts and scaling up start instances, the former   *)
(* hidden from requests, and what a command starts it does not stop        *)
(* afterwards.                                                             *)
Phases ==
    /\ operator.pc \in {"idle", "prepare"} \cup Rolling \cup Stopping
    /\ operator.pc \in Rolling => operator.mode \in {"rollout", "scale"}
    /\ suppressed = IF operator.mode = "rollout" THEN Coming ELSE {}
    /\ \A i \in Coming : inst[i].reg
    /\ operator.pc = "prepare" => operator.new = {} /\ operator.mode = "none"
    /\ operator.pc \in {"prepare", "next"} => operator.cur = NULL
    /\ operator.pc \in {"spawn", "discard"} => operator.cur \in Ids \ operator.new
    /\ operator.pc = "spawn" => operator.cur \notin operator.old
    /\ operator.pc = "settle" => /\ operator.cur \in operator.new /\ operator.mode = "rollout"
                                 /\ operator.window \in {"open", "probing", "probed"}
    /\ operator.pc \in {"next", "spawn", "settle"} => operator.new \cap operator.old = {}
    /\ \A i \in Ids : inst[i].spawn # "none" => operator.pc = "spawn" /\ operator.cur = i

(* How many a rollout starts.                                              *)
Counts ==
    /\ config.min > 0
    /\ operator.mode = "rollout" =>
          /\ operator.pc \in {"next", "spawn"} =>
                operator.todo + Cardinality(operator.new) = config.min
          /\ operator.pc = "settle" =>
                operator.todo + Cardinality(operator.new) = config.min + 1
          /\ operator.pc \in Rolling => operator.saved.min = config.min
    /\ operator.pc \in Rolling => operator.saved.min > 0
    /\ operator.pc = "prepare" => operator.saved.min = config.min

(* Nobody else starts or stops instances meanwhile.                        *)
Alone ==
    /\ evictor.pc # "idle" => operator.pc = "idle"
    /\ evictor.pc = "idle" => evictor.inst = NULL
    /\ leaders = 0 /\ handler.pc = "idle"

(* The stability window of i is over.                                      *)
Passed(i) ==
    \/ operator.pc \in {"next", "spawn"}
    \/ operator.pc = "settle" /\ (operator.cur # i \/ operator.window = "probed")

(* Deaths that are reported are those of candidates or of instances that   *)
(* are gone; a candidate reported dead does not pass its window: the probe *)
(* that begins in it finds it dead again.                                  *)
Deaths ==
    /\ \A i \in Dead : IF i \in suppressed THEN inst[i].proc # "up" ELSE ~inst[i].reg
    /\ \A i \in Ids : inst[i].spawn = "alloc" =>
          check[i].probe = "none" /\ i \notin Dead /\ inst[i].st = "Starting"
    /\ \A i \in operator.new \cap Dead : Passed(i) => HealthLocked(i)
    /\ operator.pc = "settle" /\ operator.window = "probing" =>
          /\ check[operator.cur].probe # "none"
          /\ check[operator.cur].probe # "pending" => operator.cur \notin Dead

(* An instance that is started in the open serves when its start is over,  *)
(* unless that failed; it may keep the look of one that starts only if     *)
(* there is no process a probe could ask.                                  *)
Begun(i) ==
    /\ inst[i].spawn = "none" => i \in Serving \/ HealthLocked(i)
    /\ inst[i].spawn = "ok" => i \in Serving
    /\ inst[i].spawn = "failed" =>
          HealthLocked(i) \/ (inst[i].st = "Starting" /\ check[i].probe = "none")
    /\ inst[i].st = "Healthy" => i \in routed

(* Instances that are neither candidates nor on their way out serve, and   *)
(* there are as many as configured, now or after the command.              *)
Supplied ==
    /\ \A i \in Ids : inst[i].reg /\ i \notin suppressed => Begun(i)
    /\ Cardinality(Staying) >= Target
    /\ operator.mode = "scale" /\ operator.pc \in {"next", "spawn"} =>
          Cardinality(Serving \ {operator.cur}) + operator.todo >= config.min

Steady == Phases /\ Counts /\ Alone /\ Deaths /\ Supplied

Covered == Calm => Steady

(* Calm does not come back.                                                *)
LEMMA CalmBefore ==
    ASSUME Typed, [Next]_vars, Calm'
    PROVE  Calm
<1>1. used \in UsedRec
  BY DEF Typed
<1>2. CASE Fault
  BY <1>1, <1>2 DEF Fault, Calm, UsedRec
<1>3. ASSUME NEW i \in Ids, Noted(i) PROVE Calm
  BY <1>1, <1>3 DEF Noted, Calm, UsedRec
<1>4. CASE used' = used
  BY <1>4 DEF Calm
<1>5. ASSUME NEW r \in Requests, RequestStep(r) \/ WaitTimesOut(r) PROVE used' = used
  BY <1>5 DEF RequestStep, Pick, Begin, Wait, Resume, Start, Finish, Broken, WaitTimesOut
<1>6. ASSUME NEW i \in Ids, \/ SpawnStep(i) \/ SpawnError(i) \/ ColdStep(i) \/ CheckStep(i)
                            \/ Crash(i) \/ HandleReady(i)
      PROVE  used' = used \/ Fault \/ Noted(i)
  <2>1. CASE SpawnStep(i) \/ SpawnError(i) \/ Crash(i)
    BY <2>1 DEF SpawnStep, SpawnProcess, SpawnReady, SpawnHealthy, SpawnAborts, SpawnKills,
                SpawnError, Crash
  <2>2. CASE CheckStep(i)
    BY <2>2 DEF CheckStep, CheckBegin, ProbeOk, ProbeFails, CheckExited, CheckOk, CheckFailed
  <2>3. CASE ColdStep(i) \/ HandleReady(i)
    BY <2>3 DEF ColdStep, ColdFinished, ColdFailed, HandleReady
  <2> QED
    BY <1>6, <2>1, <2>2, <2>3
<1>7. ASSUME NEW i \in Ids, Evict(i) PROVE Calm
  <2>1. used' = [used EXCEPT !.evictions = used.evictions + 1]
    BY <1>7 DEF Evict
  <2> QED
    BY <1>1, <2>1 DEF Calm, UsedRec
<1>8. CASE ColdAllocate \/ HandlerStep \/ EvictorStep \/ AppIdle
  BY <1>4, <1>8 DEF ColdAllocate, HandlerStep, HandleHealthy, HandleDead, HandlerKills,
                    HandlerRemoves, HandlerAllocates, HandlerSpawned, EvictorStep, EvictKills,
                    EvictRemoves, AppIdle
<1>9. CASE OperatorStep \/ DrainTimesOut
  <2>1. CASE OpSpawnFails
    <3>1. PICK b \in BOOLEAN : used' = [used EXCEPT !.stuck = used.stuck \/ b]
      BY <2>1 DEF OpSpawnFails
    <3> QED
      BY <1>1, <3>1 DEF Calm, UsedRec
  <2>2. CASE ~OpSpawnFails
    BY <1>4, <1>9, <2>2 DEF OperatorStep, Prepared, OpAllocates, OpSpawned, Settled, Cutover,
                            DrainOne, Drained, OpKills, OpRemoves, OpFinishes, RollbackKills,
                            RollbackRemoves, Restore, DrainTimesOut
  <2> QED
    BY <2>1, <2>2
<1>10. CASE Deploy \/ Stop \/ \E n \in ScaleTargets : Scale(n)
  <2>1. \/ used' = [used EXCEPT !.commands = used.commands + 1]
        \/ used' = [used EXCEPT !.commands = used.commands + 1, !.stopped = TRUE]
    BY <1>10 DEF Deploy, Stop, Scale
  <2> QED
    BY <1>1, <2>1 DEF Calm, UsedRec
<1>11. CASE UNCHANGED vars
  BY <1>4, <1>11 DEF vars
<1> QED
  BY <1>2, <1>3, <1>4, <1>5, <1>6, <1>7, <1>8, <1>9, <1>10, <1>11 DEF Next

(* The instances that stay can be counted.                                 *)
LEMMA StayingCounted ==
    /\ IsFiniteSet(Serving) /\ IsFiniteSet(Staying) /\ Cardinality(Staying) \in Nat
    /\ IsFiniteSet(Staying)' /\ Cardinality(Staying)' \in Nat
<1>1. Serving \subseteq Ids /\ Staying \subseteq Ids /\ Staying' \subseteq Ids
  BY DEF Serving, Staying
<1>2. IsFiniteSet(Serving) /\ IsFiniteSet(Staying) /\ IsFiniteSet(Staying')
  BY <1>1, InstancesAssumption, FS_Subset
<1> QED
  BY <1>2, FS_CardinalityType

(* As long as those that stay still do, there are enough.                  *)
LEMMA StillEnough ==
    ASSUME Cardinality(Staying) >= Target, Staying \subseteq Staying', Target \in Nat,
           Target' \in Nat, Target' <= Target
    PROVE  Cardinality(Staying)' >= Target'
<1>1. Cardinality(Staying) <= Cardinality(Staying')
  BY StayingCounted, FS_Subset
<1>2. Cardinality(Staying) \in Nat /\ Cardinality(Staying') \in Nat
  BY StayingCounted
<1> QED
  BY <1>1, <1>2

(* The number that a command that scales up reaches.                       *)
LEMMA StillReached ==
    ASSUME operator.mode = "scale" /\ operator.pc \in {"next", "spawn"} =>
              Cardinality(Serving \ {operator.cur}) + operator.todo >= config.min,
           operator'.mode = "scale" /\ operator'.pc \in {"next", "spawn"} =>
              /\ operator.mode = "scale" /\ operator.pc \in {"next", "spawn"}
              /\ Serving \ {operator.cur} \subseteq Serving' \ {operator'.cur}
              /\ operator'.todo = operator.todo,
           operator.todo \in Nat, config.min \in Nat, config'.min = config.min
    PROVE  operator'.mode = "scale" /\ operator'.pc \in {"next", "spawn"} =>
              Cardinality(Serving' \ {operator'.cur}) + operator'.todo >= config'.min
<1> SUFFICES ASSUME operator'.mode = "scale", operator'.pc \in {"next", "spawn"}
             PROVE  Cardinality(Serving' \ {operator'.cur}) + operator'.todo >= config'.min
  OBVIOUS
<1> DEFINE S == Serving \ {operator.cur}
           T == Serving' \ {operator'.cur}
<1>1. S \subseteq Ids /\ T \subseteq Ids /\ S \subseteq T
  BY DEF Serving
<1>2. IsFiniteSet(T) /\ Cardinality(S) \in Nat /\ Cardinality(T) \in Nat
      /\ Cardinality(S) <= Cardinality(T)
  BY <1>1, InstancesAssumption, FS_Subset, FS_CardinalityType
<1>3. Cardinality(S) + operator.todo >= config.min /\ operator'.todo = operator.todo
  OBVIOUS
<1> HIDE DEF S, T
<1> QED
  BY <1>2, <1>3 DEF T

(* What a command aims at is a number.                                     *)
LEMMA TargetType ==
    ASSUME Typed
    PROVE  /\ config.min \in Nat /\ operator.saved.min \in Nat /\ Target \in Nat
           /\ operator.todo \in Nat
<1>1. operator \in OpRec /\ config \in Config
  BY DEF Typed, Command, TypeOK, Config
<1>2. operator.saved \in Config
  BY <1>1 DEF OpRec
<1> QED
  BY <1>1, <1>2 DEF Target, Config, OpRec

(* An event that is sent makes the channel longer.                         *)
LEMMA EventAdded ==
    ASSUME NEW q \in Seq(EventRec), NEW e \in EventRec
    PROVE  Append(q, e) # q
<1>1. Len(Append(q, e)) = Len(q) + 1 /\ Len(q) \in Nat
  OBVIOUS
<1> QED
  BY <1>1

(* Reports of deaths: one more, or the first one less.                     *)
LEMMA DeathReported ==
    ASSUME healthEvents \in Seq(EventRec), NEW e \in EventRec,
           healthEvents' = Append(healthEvents, e)
    PROVE  Dead' \subseteq IF e.kind = "Dead" THEN Dead \cup {e.inst} ELSE Dead
<1> SUFFICES ASSUME NEW i \in Dead', ~(e.kind = "Dead" /\ e.inst = i) PROVE i \in Dead
  OBVIOUS
<1>1. PICK k \in 1..Len(healthEvents') :
         healthEvents'[k].kind = "Dead" /\ healthEvents'[k].inst = i
  BY DEF Dead
<1>2. k \in 1..Len(healthEvents) /\ healthEvents[k] = healthEvents'[k]
  BY <1>1
<1> QED
  BY <1>1, <1>2 DEF Dead

(* Taking the next event, and what it may be.                              *)
LEMMA DeathTaken ==
    ASSUME healthEvents \in Seq(EventRec), healthEvents # <<>>,
           healthEvents' = Tail(healthEvents)
    PROVE  /\ Dead' \subseteq Dead
           /\ Head(healthEvents).kind = "Dead" => Head(healthEvents).inst \in Dead
<1>1. ASSUME NEW i \in Dead' PROVE i \in Dead
  <2>1. PICK k \in 1..Len(healthEvents') :
           healthEvents'[k].kind = "Dead" /\ healthEvents'[k].inst = i
    BY <1>1 DEF Dead
  <2>2. k + 1 \in 1..Len(healthEvents) /\ healthEvents[k + 1] = healthEvents'[k]
    BY <2>1
  <2> QED
    BY <1>1, <2>1, <2>2 DEF Dead
<1>2. 1 \in 1..Len(healthEvents) /\ Head(healthEvents) = healthEvents[1]
      /\ healthEvents[1] \in EventRec
  OBVIOUS
<1> QED
  BY <1>1, <1>2 DEF Dead, EventRec

(* Nothing changes but requests, the cold start and the channels of events.*)
LEMMA QuietStep ==
    ASSUME Typed, Steady, Dead' \subseteq Dead,
           UNCHANGED <<inst, check, routed, suppressed, config, operator, evictor, handler,
                       leaders>>
    PROVE  Steady'
<1>1. Phases' /\ Counts' /\ Alone'
  BY DEF Steady, Phases, Counts, Alone, Coming
<1>2. Deaths'
  BY DEF Steady, Deaths, Passed, HealthLocked
<1>3. Staying' = Staying /\ Serving' = Serving /\ Target' = Target
  BY DEF Staying, Serving, Leaving, Coming, Target
<1>4. Supplied'
  BY <1>3 DEF Steady, Supplied, Begun, HealthLocked
<1> QED
  BY <1>1, <1>2, <1>4 DEF Steady

(* Requests find instances, so none of them starts a cold start; reports   *)
(* of deaths are about candidates or instances that are gone, so the       *)
(* handler leaves the instances alone.                                     *)
LEMMA QuietSteps ==
    ASSUME Typed, Steady,
           \/ \E r \in Requests : RequestStep(r) \/ WaitTimesOut(r)
           \/ \E i \in Ids : HandleReady(i)
           \/ AppIdle \/ HandleHealthy \/ HandleDead \/ UNCHANGED vars
    PROVE  Steady'
<1>1. config.min > 0 /\ leaders = 0 /\ handler.pc = "idle"
  BY DEF Steady, Counts, Alone
<1>2. healthEvents' = healthEvents => Dead' = Dead
  BY DEF Dead
<1>3. healthEvents \in Seq(EventRec)
  BY DEF Typed, TypeOK, EventRec
<1>4. ASSUME NEW r \in Requests, RequestStep(r) \/ WaitTimesOut(r) PROVE Steady'
  <2>1. UNCHANGED <<inst, check, routed, suppressed, config, operator, evictor, handler,
                    leaders, healthEvents>>
    BY <1>1, <1>4 DEF RequestStep, Pick, Begin, Wait, Resume, Start, Finish, Broken,
                      WaitTimesOut, events, actors
  <2> QED
    BY <1>2, <2>1, QuietStep
<1>5. CASE (\E i \in Ids : HandleReady(i)) \/ AppIdle
  <2>1. UNCHANGED <<inst, check, routed, suppressed, config, operator, evictor, handler,
                    leaders, healthEvents>>
    BY <1>5 DEF HandleReady, AppIdle, MarkReady, Reset, events, actors
  <2> QED
    BY <1>2, <2>1, QuietStep
<1>6. CASE HandleHealthy
  <2>1. UNCHANGED <<inst, check, routed, suppressed, config, operator, evictor, handler, leaders>>
    BY <1>6 DEF HandleHealthy, MarkReady, actors
  <2>2. Dead' \subseteq Dead
    BY <1>3, <1>6, DeathTaken DEF HandleHealthy, NextEvent
  <2> QED
    BY <2>1, <2>2, QuietStep
<1>7. CASE HandleDead
  <2>1. Dead' \subseteq Dead /\ Head(healthEvents).inst \in Dead
    BY <1>3, <1>7, DeathTaken DEF HandleDead, NextEvent
  <2>2. Head(healthEvents).inst \in suppressed \/ ~inst[Head(healthEvents).inst].reg
    BY <2>1 DEF Steady, Deaths
  <2>3. UNCHANGED <<inst, check, routed, suppressed, config, operator, evictor, handler, leaders>>
    BY <1>7, <2>2 DEF HandleDead, coldVars
  <2> QED
    BY <2>1, <2>3, QuietStep
<1>8. CASE UNCHANGED vars
  BY <1>2, <1>8, QuietStep DEF vars
<1> QED
  BY <1>4, <1>5, <1>6, <1>7, <1>8

(* Only the instance the command waits for is being started: no other is   *)
(* touched, and in the open it serves once it is healthy.                  *)
LEMMA SpawnSteady ==
    ASSUME Typed, Typed', SuppressedHidden, Steady, NEW i \in Ids,
           SpawnStep(i) \/ SpawnError(i) \/ Crash(i)
    PROVE  Steady'
<1>0. /\ inst \in [Ids -> InstRec] /\ inst[i] \in InstRec
  BY TableTypes DEF Typed, TypeOK
<1>1. /\ UNCHANGED <<check, suppressed, config, leaders, healthEvents, handler, evictor,
                     operator>>
  BY DEF SpawnStep, SpawnProcess, SpawnReady, SpawnHealthy, SpawnAborts, SpawnKills, SpawnError,
         Crash, events, actors, coldVars
<1>2. Dead' = Dead /\ Dead \subseteq Ids /\ Coming' = Coming /\ Target' = Target
  BY <1>1 DEF Dead, Coming, Target
<1>3. \A j \in Ids : inst'[j].reg = inst[j].reg /\ (j # i => inst'[j] = inst[j])
  <2>1. CASE SpawnProcess(i) \/ SpawnReady(i) \/ SpawnHealthy(i)
    BY <1>0, <2>1 DEF SpawnProcess, SpawnReady, SpawnHealthy, InstRec
  <2>2. CASE SpawnAborts(i) \/ SpawnKills(i) \/ SpawnError(i) \/ Crash(i)
    BY <1>0, <2>2 DEF SpawnAborts, SpawnKills, SpawnError, Crash, InstRec
  <2> QED
    BY <2>1, <2>2 DEF SpawnStep
<1>a. /\ suppressed \subseteq Ids /\ operator.new \subseteq Ids /\ operator.old \subseteq Ids
  BY DEF Typed, TypeOK
<1>b. Coming \subseteq Ids
  BY <1>a DEF Coming, Steady, Phases
<1>4. CASE Crash(i)
  <2>1. /\ inst'[i].st = inst[i].st /\ inst'[i].spawn = inst[i].spawn
        /\ inst'[i].proc = "exited" /\ routed' = routed
    BY <1>0, <1>4 DEF Crash, InstRec
  <2>2. Phases' /\ Counts' /\ Alone'
    BY <1>1, <1>2, <1>3, <1>b, <2>1 DEF Steady, Phases, Counts, Alone
  <2>3. Deaths'
    BY <1>1, <1>2, <1>3, <1>a, <2>1 DEF Steady, Deaths, Passed, HealthLocked
  <2>4. Serving' = Serving /\ Staying' = Staying
    BY <1>1, <1>2, <1>3, <2>1 DEF Serving, Staying, Leaving
  <2>5. \A j \in Ids : inst[j].reg /\ j \notin suppressed => Begun(j)'
    BY <1>1, <1>3, <2>1, <2>4 DEF Steady, Supplied, Begun, HealthLocked
  <2>6. Supplied'
    BY <1>1, <1>2, <1>3, <2>4, <2>5 DEF Steady, Supplied
  <2> QED
    BY <2>2, <2>3, <2>6 DEF Steady
<1>5. CASE SpawnStep(i) \/ SpawnError(i)
  <2>1. inst[i].spawn # "none"
    BY <1>5 DEF SpawnStep, SpawnProcess, SpawnReady, SpawnHealthy, SpawnAborts, SpawnKills,
                SpawnError
  <2>2. /\ operator.pc = "spawn" /\ operator.cur = i /\ i \notin operator.new
        /\ i \in Coming /\ inst[i].reg
    BY <2>1 DEF Steady, Phases, Coming
  <2>3. \A j \in Ids : j # i => (j \in routed' <=> j \in routed)
    BY <1>5 DEF SpawnStep, SpawnProcess, SpawnReady, SpawnHealthy, SpawnAborts, SpawnKills,
                SpawnError, Routing
  <2>4. inst'[i].spawn # "alloc" /\ (i \in Dead => inst'[i].proc # "up")
    <3>1. i \in Dead => inst[i].proc # "up" /\ inst[i].spawn # "alloc"
      BY <2>2 DEF Steady, Deaths
    <3>2. CASE SpawnProcess(i) \/ SpawnAborts(i)
      BY <1>0, <3>1, <3>2 DEF SpawnProcess, SpawnAborts, InstRec
    <3>3. CASE SpawnReady(i) \/ SpawnHealthy(i) \/ SpawnKills(i) \/ SpawnError(i)
      <4>1. inst'[i].proc = inst[i].proc /\ inst'[i].spawn # "alloc"
        BY <1>0, <3>3 DEF SpawnReady, SpawnHealthy, SpawnKills, SpawnError, InstRec
      <4> QED
        BY <3>1, <4>1
    <3> QED
      BY <1>5, <3>2, <3>3 DEF SpawnStep
  <2>5. Phases' /\ Counts' /\ Alone'
    BY <1>1, <1>2, <1>3, <1>b, <2>2 DEF Steady, Phases, Counts, Alone
  <2>6. Deaths'
    BY <1>1, <1>2, <1>3, <1>a, <2>2, <2>4 DEF Steady, Deaths, Passed, HealthLocked
  <2>7. Serving' \ {i} = Serving \ {i} /\ Staying' = Staying
    <3>1. Serving' \ {i} = Serving \ {i}
      BY <1>3, <2>3 DEF Serving
    <3>2. i \in Leaving /\ Leaving' = Leaving
      BY <1>1, <1>2, <2>2 DEF Leaving
    <3> QED
      BY <3>1, <3>2 DEF Staying
  <2>8. i \notin suppressed => Begun(i)'
    <3> SUFFICES ASSUME i \notin suppressed PROVE Begun(i)'
      OBVIOUS
    <3>0. Begun(i)
      BY <2>2 DEF Steady, Supplied
    <3>1. CASE SpawnProcess(i) \/ SpawnReady(i) \/ SpawnAborts(i) \/ SpawnKills(i)
      <4>1. /\ inst'[i].st # "Healthy" /\ inst'[i].spawn \notin {"none", "ok"}
            /\ inst'[i].spawn = "failed" => inst'[i].st = "Stopped"
        BY <1>0, <3>1 DEF SpawnProcess, SpawnReady, SpawnAborts, SpawnKills, InstRec
      <4> QED
        BY <4>1 DEF Begun, HealthLocked
    <3>2. CASE SpawnHealthy(i)
      <4>1. inst'[i].st = "Healthy" /\ inst'[i].spawn = "ok"
        BY <1>0, <3>2 DEF SpawnHealthy, InstRec
      <4>2. i \in routed'
        BY <3>0, <3>2 DEF SpawnHealthy, Routing, Begun
      <4>3. i \in Serving'
        BY <1>3, <2>2, <4>1, <4>2 DEF Serving
      <4> QED
        BY <4>1, <4>2, <4>3 DEF Begun
    <3>3. CASE SpawnError(i)
      <4>1. inst'[i].st = inst[i].st /\ inst'[i].spawn = "failed" /\ inst[i].spawn = "alloc"
        BY <1>0, <3>3 DEF SpawnError, InstRec
      <4>2. inst[i].st = "Starting" /\ check[i].probe = "none"
        BY <4>1 DEF Steady, Deaths
      <4> QED
        BY <1>1, <4>1, <4>2 DEF Begun
    <3> QED
      BY <1>5, <3>1, <3>2, <3>3 DEF SpawnStep
  <2>9. \A j \in Ids : inst[j].reg /\ j \notin suppressed => Begun(j)'
    <3>1. ASSUME NEW j \in Ids, inst[j].reg, j \notin suppressed, j # i PROVE Begun(j)'
      <4>1. Begun(j)
        BY <3>1 DEF Steady, Supplied
      <4>2. inst'[j] = inst[j] /\ (j \in routed' <=> j \in routed) /\ check'[j] = check[j]
        BY <1>1, <1>3, <2>3, <3>1
      <4>3. j \in Serving <=> j \in Serving'
        BY <3>1, <4>2 DEF Serving
      <4> QED
        BY <4>1, <4>2, <4>3 DEF Begun, HealthLocked
    <3> QED
      BY <2>8, <3>1
  <2>10. Supplied'
    BY <1>1, <1>2, <1>3, <2>2, <2>7, <2>9 DEF Steady, Supplied
  <2> QED
    BY <2>5, <2>6, <2>10 DEF Steady
<1> QED
  BY <1>4, <1>5

(* A probe moves only the window of the candidate it looks at.             *)
LEMMA WindowMoves ==
    ASSUME Typed, NEW i \in Ids, NEW a, NEW b, operator' = Window(i, a, b)
    PROVE  /\ operator'.pc = operator.pc /\ operator'.mode = operator.mode
           /\ operator'.todo = operator.todo /\ operator'.old = operator.old
           /\ operator'.new = operator.new /\ operator'.cur = operator.cur
           /\ operator'.saved = operator.saved
           /\ IF operator.pc = "settle" /\ operator.cur = i /\ operator.window = a
              THEN operator'.window = b ELSE operator'.window = operator.window
  BY DEF Window, Typed, Command, OpRec

(* Beginning to probe, and its outcome: a dead candidate is found dead.    *)
LEMMA ProbeSteady ==
    ASSUME Typed, Typed', Steady, NEW i \in Ids, CheckBegin(i) \/ ProbeOk(i) \/ ProbeFails(i)
    PROVE  Steady'
<1>1. UNCHANGED <<inst, routed, suppressed, config, leaders, healthEvents, handler, evictor>>
  BY DEF CheckBegin, ProbeOk, ProbeFails, coldVars, events, actors
<1>2. Dead' = Dead /\ Dead \subseteq Ids
  BY <1>1 DEF Dead
<1>3. /\ check \in [Ids -> CheckRec] /\ config.min \in Nat /\ suppressed \subseteq Ids
      /\ operator.new \subseteq Ids /\ operator.old \subseteq Ids
  BY DEF Typed, TypeOK, CheckRec
<1>4. /\ operator'.pc = operator.pc /\ operator'.mode = operator.mode
      /\ operator'.todo = operator.todo /\ operator'.old = operator.old
      /\ operator'.new = operator.new /\ operator'.cur = operator.cur
      /\ operator'.saved = operator.saved
      /\ operator'.window = "probed" => operator.window = "probed"
      /\ operator'.window \in {"probing", operator.window}
  BY WindowMoves DEF CheckBegin, ProbeOk, ProbeFails, actors
<1>5. Phases' /\ Counts' /\ Alone'
  BY <1>1, <1>3, <1>4 DEF Steady, Phases, Counts, Alone, Coming
<1>6. Deaths'
  <2>1. \A j \in Dead : IF j \in suppressed THEN inst[j].proc # "up" ELSE ~inst[j].reg
    BY DEF Steady, Deaths
  <2>2. \A j \in operator.new \cap Dead : Passed(j)' => HealthLocked(j)'
    BY <1>1, <1>4 DEF Steady, Deaths, Passed, HealthLocked
  <2>3. ASSUME NEW j \in Ids, inst[j].spawn = "alloc"
        PROVE  check'[j].probe = "none" /\ j \notin Dead /\ inst[j].st = "Starting"
    <3>1. check[j].probe = "none" /\ j \notin Dead /\ inst[j].st = "Starting"
      BY <2>3 DEF Steady, Deaths
    <3>2. j # i
      BY <3>1 DEF CheckBegin, ProbeOk, ProbeFails
    <3> QED
      BY <1>3, <3>1, <3>2 DEF CheckBegin, ProbeOk, ProbeFails
  <2>4. ASSUME operator.pc = "settle", operator'.window = "probing"
        PROVE  /\ check'[operator.cur].probe # "none"
               /\ check'[operator.cur].probe # "pending" => operator.cur \notin Dead
    <3>1. operator.cur \in operator.new /\ operator.cur \in Ids /\ operator.cur \in suppressed
      BY <1>3, <2>4 DEF Steady, Phases, Coming
    <3>2. CASE CheckBegin(i)
      <4>1. check[i] = NoCheck /\ check'[i].probe = "pending"
            /\ \A j \in Ids : j # i => check'[j] = check[j]
        BY <1>3, <3>2 DEF CheckBegin
      <4>2. CASE operator.cur = i
        BY <4>1, <4>2
      <4>3. CASE operator.cur # i
        <5>1. operator.window = "probing"
          BY <2>4, <3>2, <4>3, WindowMoves DEF CheckBegin
        <5> QED
          BY <2>4, <3>1, <4>1, <4>3, <5>1 DEF Steady, Deaths
      <4> QED
        BY <4>2, <4>3
    <3>3. CASE ProbeOk(i) \/ ProbeFails(i)
      <4>1. /\ check'[i].probe \in {"ok", "failed"} /\ inst[i].proc = "up"
            /\ \A j \in Ids : j # i => check'[j] = check[j]
        BY <1>3, <3>3 DEF ProbeOk, ProbeFails, CheckRec
      <4>2. operator.window = "probing"
        BY <2>4, <3>3 DEF ProbeOk, ProbeFails, actors
      <4>3. CASE operator.cur = i
        BY <2>1, <3>1, <4>1, <4>3
      <4>4. CASE operator.cur # i
        BY <2>4, <3>1, <4>1, <4>2, <4>4 DEF Steady, Deaths
      <4> QED
        BY <4>3, <4>4
    <3> QED
      BY <3>2, <3>3
  <2> QED
    BY <1>1, <1>2, <1>4, <2>1, <2>2, <2>3, <2>4 DEF Deaths
<1>7. Serving' = Serving /\ Staying' = Staying /\ Target' = Target
  BY <1>1, <1>4 DEF Serving, Staying, Leaving, Coming, Target
<1>8. Supplied'
  <2>1. ASSUME NEW j \in Ids, inst[j].reg, j \notin suppressed PROVE Begun(j)'
    <3>1. Begun(j)
      BY <2>1 DEF Steady, Supplied
    <3>2. check[j].probe = "none" /\ inst[j].st = "Starting" => check'[j].probe = "none"
      BY <1>3 DEF CheckBegin, ProbeOk, ProbeFails, NoCheck
    <3> QED
      BY <1>1, <1>7, <3>1, <3>2 DEF Begun, HealthLocked
  <2> QED
    BY <1>1, <1>4, <1>7, <2>1 DEF Steady, Supplied
<1> QED
  BY <1>5, <1>6, <1>8 DEF Steady

(* Applying what a probe found: i is the instance, r what becomes of it.   *)
LEMMA FoundSteady ==
    ASSUME Typed, Typed', SuppressedHidden, Steady, NEW i \in Ids, NEW r \in InstRec,
           inst' = [inst EXCEPT ![i] = r], r.reg = inst[i].reg, r.spawn = inst[i].spawn,
           r.proc = "up" => inst[i].proc = "up",
           HealthLocked(i) => r.st = inst[i].st,
           i \in Serving => r.st = "Healthy",
           r.st = "Healthy" /\ inst[i].st # "Healthy" /\ i \notin suppressed => i \in routed',
           routed \subseteq routed', routed' \subseteq routed \cup {i},
           check[i].probe # "none", check' = [check EXCEPT ![i] = NoCheck],
           operator' = Window(i, "probing", "probed"),
           UNCHANGED <<suppressed, config, leaders, handler, evictor>>,
           Dead' \subseteq Dead \cup {i},
           i \in Dead' \ Dead =>
              \/ ~inst[i].reg /\ i \notin suppressed
              \/ i \in suppressed /\ r.proc # "up" /\ r.st \in {"Draining", "Stopped"},
           i \in Dead' => check[i].probe # "pending" \/ r.st \in {"Draining", "Stopped"}
    PROVE  Steady'
<1>1. /\ inst \in [Ids -> InstRec] /\ check \in [Ids -> CheckRec] /\ config.min \in Nat
      /\ suppressed \subseteq Ids /\ operator.new \subseteq Ids /\ operator.old \subseteq Ids
  BY TableTypes DEF Typed, TypeOK, CheckRec
<1>2. /\ inst'[i] = r /\ \A j \in Ids : j # i => inst'[j] = inst[j]
      /\ check'[i].probe = "none" /\ \A j \in Ids : j # i => check'[j] = check[j]
  BY <1>1 DEF NoCheck
<1>3. /\ operator'.pc = operator.pc /\ operator'.mode = operator.mode
      /\ operator'.todo = operator.todo /\ operator'.old = operator.old
      /\ operator'.new = operator.new /\ operator'.cur = operator.cur
      /\ operator'.saved = operator.saved
      /\ IF operator.pc = "settle" /\ operator.cur = i /\ operator.window = "probing"
         THEN operator'.window = "probed" ELSE operator'.window = operator.window
  BY WindowMoves
<1>4. \A j \in Ids : inst'[j].reg = inst[j].reg /\ inst'[j].spawn = inst[j].spawn
  BY <1>2
<1>5. Phases' /\ Counts' /\ Alone'
  <2>1. Coming' = Coming /\ Coming \subseteq Ids
    BY <1>1, <1>3 DEF Coming, Steady, Phases
  <2> QED
    BY <1>1, <1>3, <1>4, <2>1 DEF Steady, Phases, Counts, Alone
<1>6. Deaths'
  <2>0. Dead \subseteq Ids /\ Dead' \subseteq Ids
    BY DEF Dead
  <2>1. ASSUME NEW j \in Dead'
        PROVE  IF j \in suppressed THEN inst'[j].proc # "up" ELSE ~inst'[j].reg
    <3>1. j \in Dead => IF j \in suppressed THEN inst[j].proc # "up" ELSE ~inst[j].reg
      BY DEF Steady, Deaths
    <3>2. CASE j \in Dead
      BY <1>2, <1>4, <2>0, <2>1, <3>1, <3>2
    <3>3. CASE j \notin Dead
      BY <1>2, <1>4, <2>0, <2>1, <3>3
    <3> QED
      BY <3>2, <3>3
  <2>2. ASSUME NEW j \in Ids, inst'[j].spawn = "alloc"
        PROVE  check'[j].probe = "none" /\ j \notin Dead' /\ inst'[j].st = "Starting"
    <3>1. check[j].probe = "none" /\ j \notin Dead /\ inst[j].st = "Starting"
      BY <1>4, <2>2 DEF Steady, Deaths
    <3>2. j # i
      BY <3>1
    <3> QED
      BY <1>2, <3>1, <3>2
  <2>3. ASSUME NEW j \in operator.new \cap Dead', Passed(j)'
        PROVE  HealthLocked(j)'
    <3>1. CASE j \notin Dead
      <4>1. j = i /\ j \in Ids
        BY <1>1, <2>3, <3>1
      <4>2. CASE i \in suppressed
        BY <1>2, <2>3, <3>1, <4>1, <4>2 DEF HealthLocked
      <4>3. CASE i \notin suppressed
        <5>1. operator.pc \in {"next", "spawn", "settle"}
          BY <1>3, <2>3 DEF Passed
        <5>2. i \in Coming /\ inst[i].reg
          BY <2>3, <4>1, <5>1 DEF Steady, Phases, Coming
        <5> QED
          BY <2>3, <3>1, <4>1, <4>3, <5>2
      <4> QED
        BY <4>2, <4>3
    <3>2. CASE j \in Dead /\ Passed(j)
      <4>1. HealthLocked(j)
        BY <2>3, <3>2 DEF Steady, Deaths
      <4> QED
        BY <1>1, <1>2, <2>3, <4>1 DEF HealthLocked
    <3>3. CASE j \in Dead /\ ~Passed(j)
      <4>1. operator.pc = "settle" /\ operator.cur = i /\ operator.window = "probing" /\ j = i
        BY <1>3, <2>3, <3>3 DEF Passed
      <4>2. check[i].probe = "pending"
        BY <3>3, <4>1 DEF Steady, Deaths
      <4> QED
        BY <1>2, <2>3, <4>1, <4>2 DEF HealthLocked
    <3> QED
      BY <3>1, <3>2, <3>3
  <2>4. ASSUME operator'.pc = "settle", operator'.window = "probing"
        PROVE  /\ check'[operator'.cur].probe # "none"
               /\ check'[operator'.cur].probe # "pending" => operator'.cur \notin Dead'
    <3>1. operator.pc = "settle" /\ operator.window = "probing" /\ operator.cur # i
          /\ operator.cur \in Ids /\ operator'.cur = operator.cur
      BY <1>1, <1>3, <2>4 DEF Steady, Phases
    <3>2. /\ check[operator.cur].probe # "none"
          /\ check[operator.cur].probe # "pending" => operator.cur \notin Dead
      BY <3>1 DEF Steady, Deaths
    <3> QED
      BY <1>2, <3>1, <3>2
  <2> QED
    BY <1>3, <2>1, <2>2, <2>3, <2>4 DEF Deaths
<1>7. Serving \subseteq Serving'
  BY <1>2, <1>4 DEF Serving
<1>8. Supplied'
  <2>1. Leaving' = Leaving /\ Target' = Target
    BY <1>3 DEF Leaving, Coming, Target
  <2>2. Cardinality(Staying)' >= Target'
    <3>1. Staying \subseteq Staying'
      BY <1>7, <2>1 DEF Staying
    <3> QED
      BY <2>1, <3>1, StillEnough, TargetType DEF Steady, Supplied
  <2>3. operator'.mode = "scale" /\ operator'.pc \in {"next", "spawn"} =>
           Cardinality(Serving' \ {operator'.cur}) + operator'.todo >= config'.min
    <3>1. operator.mode = "scale" /\ operator.pc \in {"next", "spawn"} =>
             Cardinality(Serving \ {operator.cur}) + operator.todo >= config.min
      BY DEF Steady, Supplied
    <3>2. Serving \ {operator.cur} \subseteq Serving' \ {operator'.cur}
      BY <1>3, <1>7
    <3> QED
      BY <1>3, <3>1, <3>2, StillReached, TargetType
  <2>4. ASSUME NEW j \in Ids, inst'[j].reg, j \notin suppressed'
        PROVE  Begun(j)'
    <3>1. Begun(j)
      BY <1>4, <2>4 DEF Steady, Supplied
    <3>2. CASE j # i
      BY <1>2, <1>7, <3>1, <3>2 DEF Begun, HealthLocked
    <3>3. CASE j = i
      <4>1. inst'[j].st = "Healthy" => j \in routed'
        BY <1>2, <2>4, <3>1, <3>3 DEF Begun
      <4>2. HealthLocked(j) => HealthLocked(j)'
        BY <1>2, <3>3 DEF HealthLocked
      <4>3. inst'[j].spawn = inst[j].spawn
        BY <1>4
      <4> QED
        BY <1>7, <3>1, <3>3, <4>1, <4>2, <4>3 DEF Begun
    <3> QED
      BY <3>2, <3>3
  <2> QED
    BY <2>2, <2>3, <2>4 DEF Supplied
<1> QED
  BY <1>5, <1>6, <1>8 DEF Steady

(* While no probe takes a serving instance away, the findings of probes    *)
(* leave everything in order.                                              *)
LEMMA CheckSteady ==
    ASSUME Typed, Typed', SuppressedHidden, Steady, Calm', NEW i \in Ids, CheckStep(i)
    PROVE  Steady'
<1>1. /\ inst \in [Ids -> InstRec] /\ inst[i] \in InstRec /\ healthEvents \in Seq(EventRec)
  BY TableTypes DEF Typed, TypeOK, EventRec
<1>2. ASSUME Noted(i)
      PROVE  /\ routed \subseteq routed'
             /\ inst[i].reg /\ i \notin suppressed /\ inst'[i].st = "Stopped" =>
                   healthEvents' = healthEvents
  <2>1. used \in UsedRec
    BY DEF Typed
  <2> QED
    BY <1>2, <2>1 DEF Noted, Calm, UsedRec
<1>a. \A e \in EventRec : healthEvents' = Append(healthEvents, e) => healthEvents' # healthEvents
  BY <1>1, EventAdded
<1>3. healthEvents' = healthEvents => Dead' = Dead
  BY DEF Dead
<1>4. ASSUME NEW e \in {"none", "Healthy", "Dead"}, NEW s \in States, Applied(i, s, e),
             ~HealthLocked(i), s \in {"Unhealthy", "Stopped", "Healthy"},
             routed \subseteq routed'
      PROVE  \E r \in InstRec :
                /\ inst' = [inst EXCEPT ![i] = r] /\ r.reg = inst[i].reg
                /\ r.spawn = inst[i].spawn /\ r.proc = inst[i].proc /\ r.st = s
                /\ i \in Serving => r.st = "Healthy"
                /\ r.st = "Healthy" /\ inst[i].st # "Healthy" /\ i \notin suppressed =>
                      i \in routed'
                /\ routed' \subseteq routed \cup {i}
                /\ Dead' \subseteq IF e = "Dead" THEN Dead \cup {i} ELSE Dead
  <2> DEFINE r == [inst[i] EXCEPT !.st = s]
  <2>1. inst' = [inst EXCEPT ![i] = r]
    BY <1>4 DEF Applied
  <2>2. /\ r \in InstRec /\ r.reg = inst[i].reg /\ r.spawn = inst[i].spawn
        /\ r.proc = inst[i].proc /\ r.st = s
    BY <1>1, <1>4 DEF InstRec
  <2>3. i \in Serving => s = "Healthy"
    <3> SUFFICES ASSUME i \in Serving, s # "Healthy" PROVE FALSE
      OBVIOUS
    <3>1. routed' = routed \ {i} /\ i \in routed
      BY <1>4 DEF Applied, Routing, Serving
    <3> QED
      BY <1>4, <3>1
  <2>4. routed' \subseteq routed \cup {i}
    BY <1>4 DEF Applied, Routing
  <2>6. s = "Healthy" /\ inst[i].st # "Healthy" /\ i \notin suppressed => i \in routed'
    BY <1>4 DEF Applied, Routing
  <2>5. Dead' \subseteq IF e = "Dead" THEN Dead \cup {i} ELSE Dead
    <3>1. CASE e = "none"
      BY <1>3, <1>4, <3>1 DEF Applied
    <3>2. CASE e # "none"
      <4>1. [kind |-> e, inst |-> i] \in EventRec
        BY <1>4, <3>2 DEF EventRec
      <4>2. healthEvents' = Append(healthEvents, [kind |-> e, inst |-> i])
        BY <1>4, <3>2 DEF Applied
      <4> QED
        BY <1>1, <4>1, <4>2, DeathReported
    <3> QED
      BY <3>1, <3>2
  <2> HIDE DEF r
  <2> QED
    BY <2>1, <2>2, <2>3, <2>4, <2>5, <2>6
<1>5. ASSUME inst' = inst, routed' = routed, healthEvents' = healthEvents,
             CheckOk(i) \/ CheckFailed(i)
      PROVE  Steady'
  <2>1. inst' = [inst EXCEPT ![i] = inst[i]]
    BY <1>1, <1>5
  <2>2. /\ check[i].probe # "none" /\ check[i].probe # "pending"
        /\ check' = [check EXCEPT ![i] = NoCheck]
        /\ operator' = Window(i, "probing", "probed")
        /\ UNCHANGED <<suppressed, config, leaders, handler, evictor>>
    BY <1>5 DEF CheckOk, CheckFailed, coldVars
  <2>3. i \in Serving => inst[i].st = "Healthy"
    BY DEF Serving
  <2>4. Dead' = Dead
    BY <1>3, <1>5
  <2> QED
    BY <1>1, <1>5, <2>1, <2>2, <2>3, <2>4, FoundSteady
<1>6. CASE CheckExited(i)
  <2>1. /\ check[i].probe = "pending" /\ inst[i].proc # "up"
        /\ check' = [check EXCEPT ![i] = NoCheck]
        /\ operator' = Window(i, "probing", "probed") /\ routed \subseteq routed'
        /\ UNCHANGED <<suppressed, config, leaders, handler, evictor>>
        /\ Noted(i)
    BY <1>2, <1>6 DEF CheckExited, coldVars
  <2> DEFINE gone == [inst[i] EXCEPT !.proc = IF @ = "exited" THEN "reaped" ELSE @]
             stopped == [gone EXCEPT !.st = "Stopped"]
  <2>2. /\ gone \in InstRec /\ gone.reg = inst[i].reg /\ gone.spawn = inst[i].spawn
        /\ gone.proc # "up" /\ gone.st = inst[i].st
    BY <1>1, <2>1 DEF InstRec
  <2>3. /\ stopped \in InstRec /\ stopped.reg = inst[i].reg /\ stopped.spawn = inst[i].spawn
        /\ stopped.proc # "up" /\ stopped.st = "Stopped"
    BY ZenonT(40), <2>2 DEF InstRec, States
  <2>4. CASE HealthLocked(i)
    <3>1. inst' = [inst EXCEPT ![i] = gone] /\ routed' = routed /\ healthEvents' = healthEvents
      BY <1>6, <2>4 DEF CheckExited
    <3>2. i \notin Serving /\ gone.st \in {"Draining", "Stopped"} /\ Dead' = Dead
      BY <1>3, <2>2, <2>4, <3>1 DEF HealthLocked, Serving
    <3> HIDE DEF gone
    <3> QED
      BY <2>1, <2>2, <3>1, <3>2, FoundSteady
  <2>5. CASE ~HealthLocked(i)
    <3>1. /\ inst' = [inst EXCEPT ![i] = stopped] /\ routed' = Routing(i, "Stopped")
          /\ healthEvents' = Append(healthEvents, [kind |-> "Dead", inst |-> i])
      BY <1>6, <2>5 DEF CheckExited
    <3>2. Dead' \subseteq Dead \cup {i}
      <4>1. [kind |-> "Dead", inst |-> i] \in EventRec
        BY DEF EventRec
      <4> QED
        BY <1>1, <3>1, <4>1, DeathReported
    <3>3. i \notin Serving
      BY <2>1, <3>1 DEF Serving, Routing
    <3>4. routed' \subseteq routed \cup {i}
      BY <3>1 DEF Routing
    <3>5. i \in suppressed \/ ~inst[i].reg
      <4>1. inst'[i].st = "Stopped"
        BY <1>1, <2>3, <3>1
      <4> QED
        BY <1>2, <1>a, <2>1, <3>1, <4>1 DEF EventRec
    <3>6. ~inst[i].reg => i \notin suppressed
      BY DEF Steady, Phases
    <3> HIDE DEF stopped
    <3> QED
      BY <2>1, <2>3, <2>5, <3>1, <3>2, <3>3, <3>4, <3>5, <3>6, FoundSteady
  <2> QED
    BY <2>4, <2>5
<1>7. CASE CheckOk(i) \/ CheckFailed(i)
  <2>1. /\ check[i].probe # "none" /\ check[i].probe # "pending"
        /\ check' = [check EXCEPT ![i] = NoCheck]
        /\ operator' = Window(i, "probing", "probed") /\ routed \subseteq routed'
        /\ UNCHANGED <<suppressed, config, leaders, handler, evictor>> /\ Noted(i)
    BY <1>2, <1>7 DEF CheckOk, CheckFailed, coldVars
  <2>2. \/ UNCHANGED <<inst, routed, healthEvents>>
        \/ \E e \in {"none", "Healthy"} : Applied(i, "Healthy", e)
        \/ Applied(i, "Unhealthy", "none")
        \/ i \notin suppressed /\ Applied(i, "Stopped", "Dead")
    <3>1. CASE CheckOk(i)
      BY <3>1 DEF CheckOk
    <3>2. CASE CheckFailed(i)
      BY <3>2 DEF CheckFailed
    <3> QED
      BY <1>7, <3>1, <3>2
  <2>3. CASE UNCHANGED <<inst, routed, healthEvents>> \/ HealthLocked(i)
    BY <1>5, <1>7, <2>2, <2>3 DEF Applied
  <2>4. CASE ~HealthLocked(i) /\ ~UNCHANGED <<inst, routed, healthEvents>>
    <3>1. PICK s \in States, e \in {"none", "Healthy", "Dead"} :
             /\ Applied(i, s, e) /\ s \in {"Unhealthy", "Stopped", "Healthy"}
             /\ e = "Dead" => i \notin suppressed /\ s = "Stopped"
      BY <2>2, <2>4 DEF States, Running
    <3>2. PICK r \in InstRec :
                /\ inst' = [inst EXCEPT ![i] = r] /\ r.reg = inst[i].reg
                /\ r.spawn = inst[i].spawn /\ r.proc = inst[i].proc /\ r.st = s
                /\ i \in Serving => r.st = "Healthy"
                /\ r.st = "Healthy" /\ inst[i].st # "Healthy" /\ i \notin suppressed =>
                      i \in routed'
                /\ routed' \subseteq routed \cup {i}
                /\ Dead' \subseteq IF e = "Dead" THEN Dead \cup {i} ELSE Dead
      BY <1>4, <2>1, <2>4, <3>1
    <3>3. i \in Dead' \ Dead => ~inst[i].reg /\ i \notin suppressed
      <4> SUFFICES ASSUME i \in Dead' \ Dead PROVE ~inst[i].reg /\ i \notin suppressed
        OBVIOUS
      <4>1. i \notin suppressed /\ s = "Stopped" /\ e = "Dead"
        BY <3>1, <3>2
      <4>2. inst'[i].st = "Stopped" /\ healthEvents' # healthEvents
        BY <1>1, <1>a, <2>4, <3>1, <3>2, <4>1 DEF Applied, EventRec
      <4> QED
        BY <1>2, <2>1, <4>1, <4>2
    <3> QED
      BY <2>1, <2>4, <3>2, <3>3, FoundSteady
  <2> QED
    BY <2>3, <2>4
<1>8. CASE CheckBegin(i) \/ ProbeOk(i) \/ ProbeFails(i)
  BY <1>8, ProbeSteady
<1> QED
  BY <1>6, <1>7, <1>8 DEF CheckStep

(* The types the steps below use.                                          *)
LEMMA Referred ==
    ASSUME Typed
    PROVE  /\ NULL \notin Ids /\ config.min \in Nat /\ config \in Config
           /\ inst \in [Ids -> InstRec] /\ suppressed \subseteq Ids /\ routed \subseteq Ids
           /\ operator \in OpRec /\ operator.new \subseteq Ids /\ operator.old \subseteq Ids
           /\ operator.cur \in Ids \cup {NULL} /\ evictor.inst \in Ids \cup {NULL}
           /\ Dead \subseteq Ids /\ check \in [Ids -> CheckRec]
  BY TableTypes, InstancesAssumption DEF Typed, TypeOK, Command, Dead, Config, CheckRec

(* What a kill does to the table.                                          *)
LEMMA KilledFields ==
    ASSUME Typed, NEW i \in Ids \cup {NULL}
    PROVE  \A j \in Ids : /\ Killed(i)[j].reg = inst[j].reg
                          /\ Killed(i)[j].spawn = inst[j].spawn
                          /\ Killed(i)[j].proc = "up" => inst[j].proc = "up"
                          /\ Killed(i)[j].st \in {inst[j].st, "Stopped"}
                          /\ j # i => Killed(i)[j] = inst[j]
<1>1. inst \in [Ids -> InstRec]
  BY Referred
<1>2. CASE KillFails(i)
  BY <1>2 DEF Killed
<1>3. CASE ~KillFails(i) /\ i \in Ids
  <2>1. Killed(i) = [inst EXCEPT ![i] = [inst[i] EXCEPT !.proc = "none", !.st = "Stopped"]]
    BY <1>1, <1>3 DEF Killed
  <2>2. inst[i] \in InstRec
    BY <1>1, <1>3
  <2> QED
    BY <1>1, <1>3, <2>1, <2>2 DEF InstRec
<1>4. CASE ~KillFails(i) /\ i \notin Ids
  <2>1. [inst EXCEPT ![i].proc = "none", ![i].st = "Stopped"] = inst
    BY <1>1, <1>4
  <2> QED
    BY <1>4, <2>1 DEF Killed
<1> QED
  BY <1>2, <1>3, <1>4

(* What a removal does.                                                    *)
LEMMA RemovedFields ==
    ASSUME Typed, NEW i \in Ids \cup {NULL}
    PROVE  \A j \in Ids : /\ Removed(i)[j].spawn = inst[j].spawn
                          /\ Removed(i)[j].proc = inst[j].proc
                          /\ Removed(i)[j].st = inst[j].st
                          /\ Removed(i)[j].reg => inst[j].reg /\ j # i
                          /\ j # i => Removed(i)[j] = inst[j]
<1>1. inst \in [Ids -> InstRec]
  BY Referred
<1>2. CASE i \in Ids
  BY <1>1, <1>2 DEF Removed, InstRec
<1>3. CASE i \notin Ids
  <2>1. Removed(i) = inst
    BY <1>1, <1>3 DEF Removed
  <2> QED
    BY <1>3, <2>1
<1> QED
  BY <1>2, <1>3

(* Idle eviction leaves as many as configured: under the locks, with no    *)
(* candidates about, every healthy instance it counts serves.              *)
LEMMA EvictorSteady ==
    ASSUME Typed, Typed', Steady, EvictorStep \/ \E i \in Ids : Evict(i)
    PROVE  Steady'
<1>0. /\ NULL \notin Ids /\ config.min \in Nat /\ suppressed \subseteq Ids
      /\ evictor.inst \in Ids \cup {NULL} /\ Dead \subseteq Ids
  BY Referred
<1>1. UNCHANGED <<check, config, healthEvents, handler, operator, leaders>>
  BY DEF EvictorStep, EvictKills, EvictRemoves, Evict, coldVars, events, Reset
<1>2. Dead' = Dead
  BY <1>1 DEF Dead
<1>3. operator.pc = "idle"
  BY DEF EvictorStep, EvictKills, EvictRemoves, Evict, Steady, Alone
<1>4. /\ suppressed = {} /\ \A i \in Ids : inst[i].spawn = "none"
      /\ Coming = {} /\ Coming' = {} /\ Target = config.min /\ Target' = config.min
  BY <1>1, <1>3 DEF Steady, Phases, Rolling, Coming, Target
<1>a. \A i \in Ids : inst[i].reg => i \in Serving \/ HealthLocked(i)
  BY <1>4 DEF Steady, Supplied, Begun
<1>b. ASSUME Cardinality(Staying)' >= config.min, \A i \in Ids : inst'[i].spawn = "none",
             \A i \in Ids : inst'[i].reg => i \in Serving' \/ HealthLocked(i)'
      PROVE  Supplied'
  BY <1>1, <1>3, <1>4, <1>b DEF Supplied, Begun, Serving, HealthLocked
<1>5. ASSUME suppressed' = {}, \A i \in Ids : inst'[i].spawn = "none",
             \A i \in Ids : inst'[i].reg => inst[i].reg
      PROVE  Phases' /\ Counts' /\ Deaths'
  <2>1. Phases'
    BY <1>1, <1>3, <1>4, <1>5 DEF Phases, Rolling, Stopping
  <2>2. Counts'
    BY <1>1 DEF Steady, Counts
  <2>3. Deaths'
    BY <1>0, <1>1, <1>2, <1>3, <1>4, <1>5 DEF Steady, Deaths, Passed
  <2> QED
    BY <2>1, <2>2, <2>3
<1>6. ASSUME NEW i \in Ids, Evict(i) PROVE Steady'
  <2>1. /\ UNCHANGED <<inst, routed, suppressed>> /\ evictor.pc = "idle" /\ evictor.inst = NULL
        /\ evictor'.pc = "kill" /\ evictor'.inst = i /\ Count({"Healthy"}) > config.min
    BY <1>6 DEF Evict, Steady, Alone, Typed, TypeOK
  <2>2. Phases' /\ Counts' /\ Deaths'
    BY <1>4, <1>5, <2>1
  <2>3. Alone'
    BY <1>1, <1>3, <2>1 DEF Steady, Alone
  <2>4. Serving' = Serving
    BY <2>1 DEF Serving
  <2>5. {j \in Registered : inst[j].st \in {"Healthy"}} = Serving
    BY <1>a DEF Registered, Serving, HealthLocked
  <2>6. Cardinality(Serving) > config.min
    BY <2>1, <2>5 DEF Count
  <2>7. Staying' = Serving \ {i}
    BY <1>1, <1>3, <1>4, <2>1, <2>4 DEF Staying, Leaving, Stopping
  <2>8. Cardinality(Serving \ {i}) >= Cardinality(Serving) - 1 /\ Cardinality(Serving) \in Nat
    <3>1. IsFiniteSet(Serving) /\ Cardinality(Serving) \in Nat
      BY StayingCounted, FS_CardinalityType
    <3>2. CASE i \in Serving
      <4>1. Cardinality(Serving \ {i}) = Cardinality(Serving) - 1
        BY ONLY <3>1, <3>2, FS_RemoveElement
      <4> QED
        BY ONLY <3>1, <4>1
    <3>3. CASE i \notin Serving
      <4>1. Serving \ {i} = Serving
        BY <3>3
      <4> QED
        BY <3>1, <4>1
    <3> QED
      BY <3>2, <3>3
  <2>9. Cardinality(Staying)' >= config.min
    <3>1. Cardinality(Staying') \in Nat
      BY StayingCounted
    <3>2. Cardinality(Staying') >= Cardinality(Serving) - 1
      BY <2>7, <2>8
    <3> QED
      BY <1>0, <1>1, <2>6, <2>8, <3>1, <3>2
  <2>10. Supplied'
    BY <1>4, <1>a, <1>b, <2>1, <2>4, <2>9 DEF HealthLocked
  <2> QED
    BY <2>2, <2>3, <2>10 DEF Steady
<1>7. CASE EvictKills
  <2> DEFINE i == evictor.inst
  <2>1. /\ inst' = Killed(i) /\ UNCHANGED <<routed, suppressed>> /\ evictor.pc = "kill"
        /\ evictor'.pc = "remove" /\ evictor'.inst = i
    BY <1>7 DEF EvictKills, Typed, TypeOK
  <2>2. \A j \in Ids : /\ inst'[j].reg = inst[j].reg /\ inst'[j].spawn = inst[j].spawn
                       /\ inst'[j].st \in {inst[j].st, "Stopped"}
                       /\ j # i => inst'[j] = inst[j]
    BY <1>0, <2>1, KilledFields
  <2>3. Phases' /\ Counts' /\ Deaths'
    BY <1>4, <1>5, <2>1, <2>2
  <2>4. Alone'
    BY <1>1, <1>3, <2>1 DEF Steady, Alone
  <2>5. Staying \subseteq Staying'
    BY <1>1, <1>4, <2>1, <2>2 DEF Serving, Staying, Leaving
  <2>6. Cardinality(Staying)' >= config.min
    BY <1>0, <1>4, <2>5, StillEnough DEF Steady, Supplied
  <2>7. ASSUME NEW j \in Ids, inst'[j].reg
        PROVE  j \in Serving' \/ HealthLocked(j)'
    <3>1. j \in Serving \/ HealthLocked(j)
      BY <1>a, <2>2, <2>7
    <3> QED
      BY <2>1, <2>2, <3>1 DEF Serving, HealthLocked
  <2>8. Supplied'
    BY <1>4, <1>b, <2>2, <2>6, <2>7
  <2> QED
    BY <2>3, <2>4, <2>8 DEF Steady
<1>8. CASE EvictRemoves
  <2> DEFINE i == evictor.inst
  <2>1. /\ inst' = Removed(i) /\ routed' = RoutedWithout(i) /\ suppressed' = {}
        /\ evictor'.pc = "idle" /\ evictor'.inst = NULL
    BY <1>4, <1>8 DEF EvictRemoves, Resting, SuppressedWithout
  <2>2. \A j \in Ids : /\ inst'[j].spawn = inst[j].spawn
                       /\ inst'[j].reg => inst[j].reg /\ j # i
                       /\ j # i => inst'[j] = inst[j]
    BY <1>0, <2>1, RemovedFields
  <2>3. \A j \in Ids : j # i => (j \in routed' <=> j \in routed)
    BY <2>1 DEF RoutedWithout
  <2>4. Phases' /\ Counts' /\ Deaths'
    <3>1. /\ \A j \in Ids : inst'[j].spawn = "none"
          /\ \A j \in Ids : inst'[j].reg => inst[j].reg
      BY <1>4, <2>2
    <3> QED
      BY <1>5, <2>1, <3>1
  <2>5. Alone'
    BY <1>1, <1>3, <2>1 DEF Steady, Alone
  <2>6. Staying \subseteq Staying'
    BY <1>0, <1>1, <1>4, <2>1, <2>2, <2>3 DEF Serving, Staying, Leaving
  <2>7. Cardinality(Staying)' >= config.min
    BY <1>0, <1>4, <2>6, StillEnough DEF Steady, Supplied
  <2>8. ASSUME NEW j \in Ids, inst'[j].reg
        PROVE  j \in Serving' \/ HealthLocked(j)'
    <3>1. j # i /\ inst'[j] = inst[j]
      BY <2>2, <2>8
    <3>2. j \in Serving \/ HealthLocked(j)
      BY <1>a, <2>8, <3>1
    <3> QED
      BY <2>3, <2>8, <3>1, <3>2 DEF Serving, HealthLocked
  <2>9. Supplied'
    BY <1>4, <1>b, <2>2, <2>7, <2>8
  <2> QED
    BY <2>4, <2>5, <2>9 DEF Steady
<1> QED
  BY <1>6, <1>7, <1>8 DEF EvictorStep

(* A command moves on and leaves the instances alone.                      *)
LEMMA CommandMoves ==
    ASSUME Typed, Steady,
           UNCHANGED <<inst, check, routed, suppressed, healthEvents, handler, evictor, leaders>>,
           Target' = Target, evictor.pc = "idle", operator'.pc # "settle",
           operator'.pc \in {"next", "spawn"} => operator'.mode # "scale",
           Leaving' \cap Ids \subseteq Leaving,
           \A i \in operator'.new \cap Dead : Passed(i)' => HealthLocked(i),
           Phases', Counts'
    PROVE  Steady'
<1>0. /\ Target \in Nat /\ suppressed \subseteq Ids /\ Dead \subseteq Ids
  BY Referred, TargetType
<1>1. Dead' = Dead
  BY DEF Dead
<1>2. Alone'
  BY DEF Steady, Alone
<1>3. Deaths'
  BY <1>0, <1>1 DEF Steady, Deaths, HealthLocked
<1>4. Serving' = Serving
  BY DEF Serving
<1>5. Staying \subseteq Staying'
  BY <1>4 DEF Staying, Serving
<1>6. Cardinality(Staying)' >= Target'
  BY <1>0, <1>5, StillEnough DEF Steady, Supplied
<1>7. Supplied'
  BY <1>4, <1>6 DEF Steady, Supplied, Begun, HealthLocked
<1> QED
  BY <1>2, <1>3, <1>7 DEF Steady

(* Somebody serves.                                                        *)
LEMMA SomebodyServes ==
    ASSUME Typed, Steady
    PROVE  Staying # {}
<1>1. Cardinality(Staying) >= Target /\ Target > 0 /\ Target \in Nat
  BY TargetType DEF Steady, Supplied, Counts, Target
<1>2. Cardinality(Staying) \in Nat
  BY StayingCounted
<1>3. Cardinality(Staying) # 0
  BY <1>1, <1>2
<1> QED
  BY <1>3, FS_EmptySet

(* A deploy begins and looks at what runs: a rollout.                      *)
LEMMA DeploySteady ==
    ASSUME Typed, Steady, Deploy \/ Prepared
    PROVE  Steady'
<1>0. /\ config \in Config /\ config.min \in Nat /\ operator \in OpRec
  BY Referred
<1>1. /\ UNCHANGED <<inst, check, routed, suppressed, healthEvents, handler, evictor, leaders>>
  BY DEF Deploy, Prepared, coldVars, events
<1>2. CASE Deploy
  <2>1. /\ operator.pc = "idle" /\ evictor.pc = "idle"
    BY <1>2 DEF Deploy, Locked
  <2>2. config' = [config EXCEPT !.version = config.version + 1]
    BY <1>2 DEF Deploy
  <2>c. config'.min = config.min
    BY <1>0, <2>2 DEF Config
  <2>4. operator' = [NoOp EXCEPT !.pc = "prepare", !.saved = config]
    BY <1>2 DEF Deploy
  <2>5. /\ operator'.pc = "prepare" /\ operator'.new = {} /\ operator'.cur = NULL
        /\ operator'.saved = config /\ operator'.window = "none" /\ operator'.old = {}
        /\ operator'.mode = "none"
    BY <2>4 DEF NoOp
  <2>6. Phases'
    BY <1>1, <2>1, <2>5 DEF Steady, Phases, Rolling, Stopping, Coming
  <2>7. Counts'
    BY <2>5, <2>c DEF Steady, Counts, Rolling
  <2>8. Leaving' \subseteq Leaving
    BY <1>1, <2>1, <2>5 DEF Leaving, Stopping, Coming
  <2>9. Target' = Target
    BY <2>1, <2>5, <2>c DEF Target, Rolling, Steady, Counts
  <2> QED
    BY <1>1, <2>1, <2>5, <2>6, <2>7, <2>8, <2>9, CommandMoves
<1>3. CASE Prepared
  <2>1. /\ operator.pc = "prepare" /\ evictor.pc = "idle" /\ config' = config
        /\ operator.new = {}
    BY <1>3 DEF Prepared, Steady, Alone, Phases
  <2>c. config'.min = config.min
    BY <2>1
  <2>2. Registered # {}
    BY SomebodyServes DEF Staying, Serving, Registered
  <2>4. AtLeastOne = config.min
    BY <1>0 DEF AtLeastOne, Steady, Counts
  <2>3. operator' = [operator EXCEPT !.pc = "next", !.todo = config.min, !.old = Registered,
                                     !.mode = "rollout"]
    BY ONLY <1>3, <2>2, <2>4 DEF Prepared
  <2>5. /\ operator'.pc = "next" /\ operator'.new = {} /\ operator'.cur = operator.cur
        /\ operator'.saved = operator.saved /\ operator'.mode = "rollout"
        /\ operator'.todo = config.min /\ operator'.old = Registered
    BY <1>0, <2>1, <2>3 DEF OpRec
  <2>6. Phases'
    BY <1>1, <2>1, <2>5 DEF Steady, Phases, Rolling, Stopping, Coming
  <2>7. Counts'
    <3>1. Cardinality(operator'.new) = 0
      BY <2>5, FS_EmptySet
    <3>2. operator'.todo + Cardinality(operator'.new) = config'.min
      BY <1>0, <2>1, <2>5, <3>1
    <3> QED
      BY <2>1, <2>5, <3>2 DEF Steady, Counts, Rolling
  <2>8. Leaving' \subseteq Leaving
    BY <1>1, <2>1, <2>5 DEF Leaving, Stopping, Coming
  <2>9. Target' = Target
    BY <2>1, <2>5, <2>c DEF Target, Rolling, Steady, Counts
  <2> QED
    BY <1>1, <2>1, <2>5, <2>6, <2>7, <2>8, <2>9, CommandMoves
<1> QED
  BY <1>2, <1>3

(* A candidate whose window is over is healthy or the rollout fails; an    *)
(* instance was drained; a command ends.                                   *)
LEMMA ProgressSteady ==
    ASSUME Typed, Steady, Settled \/ Drained \/ DrainTimesOut \/ OpFinishes \/ Restore
    PROVE  Steady'
<1>0. /\ config \in Config /\ config.min \in Nat /\ operator \in OpRec
      /\ operator.new \subseteq Ids /\ Dead \subseteq Ids
  BY Referred
<1>1. /\ UNCHANGED <<inst, check, routed, suppressed, healthEvents, handler, evictor, leaders>>
  BY DEF Settled, Drained, DrainTimesOut, OpFinishes, Restore, Reset, coldVars, events
<1>a. /\ operator.pc # "idle" /\ operator.pc # "restore" /\ evictor.pc = "idle"
  BY DEF Settled, Drained, DrainTimesOut, OpFinishes, Restore, Steady, Alone, Phases, Rolling,
         Stopping
<1>2. CASE Settled
  <2>1. /\ operator.pc = "settle" /\ config' = config
        /\ inst[operator.cur].st = "Healthy" => operator.window = "probed"
        /\ operator.mode = "rollout"
    BY <1>2 DEF Settled, Steady, Phases
  <2>3. CASE inst[operator.cur].st = "Healthy"
    <3>1. operator' = [operator EXCEPT !.pc = "next", !.cur = NULL, !.todo = operator.todo - 1,
                                       !.window = "none"]
      BY <1>2, <2>3 DEF Settled
    <3>2. /\ operator'.pc = "next" /\ operator'.new = operator.new /\ operator'.cur = NULL
          /\ operator'.todo = operator.todo - 1 /\ operator'.saved = operator.saved
          /\ operator'.old = operator.old /\ operator'.mode = operator.mode
      BY <1>0, <3>1 DEF OpRec
    <3>3. Phases'
      BY <1>1, <2>1, <3>2 DEF Steady, Phases, Rolling, Stopping, Coming
    <3>4. Counts'
      <4>1. IsFiniteSet(operator.new) /\ Cardinality(operator.new) \in Nat
        BY <1>0, InstancesAssumption, FS_Subset, FS_CardinalityType
      <4>2. operator.todo + Cardinality(operator.new) = config.min + 1 /\ operator.todo \in Nat
        BY <1>0, <2>1 DEF Steady, Counts, OpRec
      <4>3. operator'.todo + Cardinality(operator'.new) = config'.min
        BY <1>0, <2>1, <3>2, <4>1, <4>2
      <4> QED
        BY <2>1, <3>2, <4>3 DEF Steady, Counts, Rolling
    <3>5. \A i \in operator'.new \cap Dead : HealthLocked(i)
      BY <2>1, <2>3, <3>2 DEF Steady, Deaths, Passed
    <3>6. Leaving' \subseteq Leaving
      BY <1>1, <2>1, <3>2 DEF Leaving, Stopping, Coming
    <3>7. Target' = Target
      BY <2>1, <3>2 DEF Target, Rolling
    <3> QED
      BY <1>1, <1>a, <2>1, <3>2, <3>3, <3>4, <3>5, <3>6, <3>7, CommandMoves
  <2>4. CASE inst[operator.cur].st # "Healthy"
    <3>1. operator' = [operator EXCEPT !.pc = "rollback", !.cur = NULL, !.window = "none"]
      BY <1>2, <2>4 DEF Settled, Fail
    <3>2. /\ operator'.pc = "rollback" /\ operator'.new = operator.new
          /\ operator'.saved = operator.saved /\ operator'.mode = operator.mode
      BY <1>0, <3>1 DEF OpRec
    <3>3. Phases'
      BY <1>1, <2>1, <3>2 DEF Steady, Phases, Rolling, Stopping, Coming
    <3>4. Counts'
      BY <2>1, <3>2 DEF Steady, Counts, Rolling
    <3>5. Leaving' \subseteq Leaving
      BY <1>1, <2>1, <3>2 DEF Leaving, Stopping, Coming
    <3>6. Target' = Target
      BY <2>1, <3>2 DEF Target, Rolling
    <3> QED
      BY <1>1, <1>a, <2>1, <3>2, <3>3, <3>4, <3>5, <3>6, CommandMoves DEF Passed
  <2> QED
    BY <2>3, <2>4
<1>3. CASE Drained \/ DrainTimesOut
  <2>1. /\ operator.pc = "drained" /\ config' = config
        /\ operator' = [operator EXCEPT !.pc = "kill"]
    BY <1>3 DEF Drained, DrainTimesOut
  <2>2. /\ operator'.pc = "kill" /\ operator'.old = operator.old /\ operator'.cur = operator.cur
    BY <1>0, <2>1 DEF OpRec
  <2>3. Phases'
    BY <1>1, <2>1, <2>2 DEF Steady, Phases, Rolling, Stopping, Coming
  <2>4. Counts'
    BY <2>1, <2>2 DEF Steady, Counts, Rolling
  <2>5. Leaving' \subseteq Leaving
    BY <1>1, <2>1, <2>2 DEF Leaving, Stopping, Coming
  <2>6. Target' = Target
    BY <2>1, <2>2 DEF Target, Rolling
  <2> QED
    BY <1>1, <1>a, <2>1, <2>2, <2>3, <2>4, <2>5, <2>6, CommandMoves DEF Passed
<1>4. CASE OpFinishes \/ Restore
  <2>1. /\ operator.pc \in {"drain", "rollback"} /\ operator' = NoOp
        /\ operator.pc = "rollback" => operator.new = {}
    BY <1>4, <1>a DEF OpFinishes, Restore
  <2>2. Target' = Target /\ config'.min = Target /\ Target > 0
    BY <1>4, <1>a, <2>1 DEF OpFinishes, Restore, Steady, Counts, Rolling, Target, NoOp
  <2>3. operator'.pc = "idle"
    BY <2>1 DEF NoOp
  <2>4. Phases'
    BY <1>1, <2>1, <2>3 DEF Steady, Phases, Rolling, Stopping, Coming
  <2>5. Counts'
    BY <2>2, <2>3 DEF Steady, Counts, Rolling
  <2>6. Leaving' \subseteq Leaving
    BY <1>1, <2>3 DEF Leaving, Stopping, Coming
  <2> QED
    BY <1>1, <1>a, <2>2, <2>3, <2>4, <2>5, <2>6, CommandMoves DEF Passed
<1> QED
  BY <1>2, <1>3, <1>4

(* An instance is registered under an id nothing refers to, hidden if it   *)
(* is a candidate.                                                         *)
LEMMA AllocateSteady ==
    ASSUME Typed, Steady, OpAllocates
    PROVE  Steady'
<1>0. /\ config.min \in Nat /\ operator \in OpRec /\ inst \in [Ids -> InstRec]
      /\ operator.new \subseteq Ids /\ operator.old \subseteq Ids
      /\ Dead \subseteq Ids /\ suppressed \subseteq Ids
  BY Referred
<1>1. /\ UNCHANGED <<check, routed, config, leaders, healthEvents, handler, evictor>>
      /\ operator.pc = "next" /\ operator.mode \in {"rollout", "scale"} /\ evictor.pc = "idle"
      /\ operator.cur = NULL
  BY DEF OpAllocates, coldVars, events, Steady, Phases, Rolling, Alone
<1>2. PICK i \in Ids :
         /\ Unused(i) /\ inst' = Allocated(i)
         /\ suppressed' = IF operator.mode = "rollout" THEN suppressed \cup {i} ELSE suppressed
         /\ operator' = [operator EXCEPT !.pc = "spawn", !.cur = i]
  BY <1>1 DEF OpAllocates
<1>3. /\ operator'.pc = "spawn" /\ operator'.cur = i /\ operator'.mode = operator.mode
      /\ operator'.new = operator.new /\ operator'.old = operator.old
      /\ operator'.todo = operator.todo /\ operator'.saved = operator.saved
  BY <1>0, <1>1, <1>2 DEF OpRec
<1>4. /\ inst'[i].st = "Starting" /\ inst'[i].reg /\ inst'[i].spawn = "alloc"
      /\ \A j \in Ids : j # i => inst'[j] = inst[j]
  BY <1>0, <1>2 DEF Allocated, NoInst
<1>5. /\ ~inst[i].reg /\ check[i].probe = "none" /\ i \notin Dead
      /\ i \notin operator.old /\ i \notin operator.new /\ i \notin suppressed
  <2>1. i \notin Dead
    BY <1>2 DEF Unused, Dead
  <2>2. ~inst[i].reg
    BY <1>2 DEF Unused
  <2>3. i \notin suppressed
    BY <2>2 DEF Steady, Phases
  <2> QED
    BY <1>2, <2>1, <2>2, <2>3 DEF Unused, NoCheck
<1>6. Dead' = Dead
  BY <1>1 DEF Dead
<1>7. /\ Coming = operator.new /\ Coming' = operator.new \cup {i} /\ Target' = Target
      /\ suppressed = (IF operator.mode = "rollout" THEN Coming ELSE {})
      /\ \A j \in Ids : inst[j].spawn = "none"
  BY <1>1, <1>3 DEF Steady, Phases, Coming, Target, Rolling
<1>8. Phases'
  <2>1. suppressed' = IF operator'.mode = "rollout" THEN Coming' ELSE {}
    BY <1>2, <1>3, <1>7
  <2>2. \A j \in Coming' : inst'[j].reg
    BY <1>0, <1>4, <1>7 DEF Steady, Phases
  <2>3. \A j \in Ids : inst'[j].spawn # "none" => operator'.cur = j
    BY <1>3, <1>4, <1>7
  <2>4. operator'.new \cap operator'.old = {}
    BY <1>1, <1>3 DEF Steady, Phases
  <2> QED
    BY <1>1, <1>3, <1>5, <2>1, <2>2, <2>3, <2>4 DEF Phases, Rolling
<1>9. Counts'
  BY <1>1, <1>3 DEF Steady, Counts, Rolling
<1>10. Alone'
  BY <1>1 DEF Steady, Alone
<1>11. Deaths'
  <2>1. \A j \in Dead' : IF j \in suppressed' THEN inst'[j].proc # "up" ELSE ~inst'[j].reg
    BY <1>0, <1>2, <1>4, <1>5, <1>6 DEF Steady, Deaths
  <2>2. \A j \in Ids : inst'[j].spawn = "alloc" =>
           check'[j].probe = "none" /\ j \notin Dead' /\ inst'[j].st = "Starting"
    BY <1>1, <1>4, <1>5, <1>6, <1>7
  <2>3. \A j \in operator'.new \cap Dead' : HealthLocked(j)'
    BY <1>0, <1>1, <1>3, <1>4, <1>5, <1>6 DEF Steady, Deaths, Passed, HealthLocked
  <2> QED
    BY <1>3, <2>1, <2>2, <2>3 DEF Deaths
<1>12. Serving \subseteq Serving'
  BY <1>1, <1>4, <1>5 DEF Serving
<1>13. Staying \subseteq Staying'
  BY <1>1, <1>3, <1>5, <1>7, <1>12 DEF Staying, Serving, Leaving, Stopping
<1>14. Cardinality(Staying)' >= Target'
  BY <1>7, <1>13, StillEnough, TargetType DEF Steady, Supplied
<1>15. operator'.mode = "scale" /\ operator'.pc \in {"next", "spawn"} =>
          Cardinality(Serving' \ {operator'.cur}) + operator'.todo >= config'.min
  <2>1. operator.mode = "scale" /\ operator.pc \in {"next", "spawn"} =>
           Cardinality(Serving \ {operator.cur}) + operator.todo >= config.min
    BY DEF Steady, Supplied
  <2>2. Serving \ {operator.cur} \subseteq Serving' \ {operator'.cur}
    BY <1>3, <1>5, <1>12 DEF Serving
  <2> QED
    BY <1>1, <1>3, <2>1, <2>2, StillReached, TargetType
<1>16. ASSUME NEW j \in Ids, inst'[j].reg, j \notin suppressed' PROVE Begun(j)'
  <2>1. CASE j = i
    BY <1>4, <2>1 DEF Begun
  <2>2. CASE j # i
    <3>1. Begun(j)
      BY <1>2, <1>4, <1>16, <2>2 DEF Steady, Supplied
    <3> QED
      BY <1>1, <1>4, <1>12, <2>2, <3>1 DEF Begun, HealthLocked
  <2> QED
    BY <2>1, <2>2
<1>17. Supplied'
  BY <1>14, <1>15, <1>16 DEF Supplied
<1> QED
  BY <1>8, <1>9, <1>10, <1>11, <1>17 DEF Steady

(* The candidate runs and its window opens, or it is discarded with the    *)
(* others.                                                                 *)
LEMMA CandidateSteady ==
    ASSUME Typed, Steady, operator.mode = "rollout", OpSpawned \/ OpSpawnFails
    PROVE  Steady'
<1>0. /\ config.min \in Nat /\ operator \in OpRec /\ inst \in [Ids -> InstRec]
      /\ operator.new \subseteq Ids /\ operator.old \subseteq Ids
      /\ Dead \subseteq Ids /\ suppressed \subseteq Ids
  BY Referred
<1> DEFINE i == operator.cur
<1>1. /\ UNCHANGED <<check, suppressed, config, leaders, healthEvents, handler, evictor>>
      /\ operator.pc = "spawn" /\ operator.mode = "rollout" /\ evictor.pc = "idle"
      /\ i \in Ids \ operator.new /\ i \notin operator.old
      /\ operator.new \cap operator.old = {} /\ suppressed = operator.new \cup {i}
      /\ \A j \in Ids : inst[j].spawn # "none" => i = j
  <2>1. /\ UNCHANGED <<check, suppressed, config, leaders, healthEvents, handler, evictor>>
        /\ operator.pc = "spawn"
    BY DEF OpSpawned, OpSpawnFails, coldVars, events
  <2> QED
    BY <2>1 DEF Steady, Phases, Rolling, Alone, Coming
<1>2. /\ routed' = routed /\ inst'[i].reg = inst[i].reg /\ inst'[i].st = inst[i].st
      /\ inst'[i].proc = inst[i].proc /\ inst'[i].spawn = "none"
      /\ \A j \in Ids : j # i => inst'[j] = inst[j]
  <2>1. inst[i] \in InstRec /\ inst[i].reg \in BOOLEAN
    BY <1>0, <1>1 DEF InstRec
  <2>2. CASE OpSpawned
    BY <1>0, <1>1, <2>1, <2>2 DEF OpSpawned, InstRec
  <2>3. CASE OpSpawnFails
    <3>1. /\ routed' = routed
          /\ inst' = [inst EXCEPT ![i] = [inst[i] EXCEPT !.spawn = "none",
                                                         !.reg = inst[i].reg /\ TRUE]]
      BY <1>0, <1>1, <2>3 DEF OpSpawnFails
    <3> QED
      BY <1>0, <1>1, <2>1, <3>1 DEF InstRec
  <2> QED
    BY <2>2, <2>3
<1>3. Dead' = Dead
  BY <1>1 DEF Dead
<1>4. /\ operator'.new = operator.new \cup {i} /\ operator'.mode = "rollout"
      /\ operator'.old = operator.old /\ operator'.todo = operator.todo
      /\ operator'.saved = operator.saved
      /\ \/ operator'.pc = "settle" /\ operator'.cur = i /\ operator'.window = "open"
         \/ operator'.pc = "rollback"
  <2>1. \/ operator' = [operator EXCEPT !.pc = "settle", !.new = operator.new \cup {i},
                                        !.window = "open"]
        \/ operator' = [[operator EXCEPT !.pc = "rollback", !.cur = NULL, !.window = "none"]
                           EXCEPT !.new = operator.new \cup {i}]
    <3>1. CASE OpSpawned
      BY <1>0, <1>1, <3>1 DEF OpSpawned
    <3>2. CASE OpSpawnFails
      <4>1. operator' = [Fail("rollback") EXCEPT !.new = Fail("rollback").new \cup {i}]
        BY <1>1, <3>2 DEF OpSpawnFails
      <4>2. Fail("rollback").new = operator.new
        BY <1>0 DEF Fail, OpRec
      <4> QED
        BY <4>1, <4>2 DEF Fail
    <3> QED
      BY <3>1, <3>2
  <2> QED
    BY <1>0, <1>1, <2>1 DEF OpRec
<1>a. Coming = operator.new \cup {i} /\ Coming' = Coming /\ Target' = Target
  BY <1>1, <1>4 DEF Coming, Target, Rolling
<1>5. Phases'
  <2>1. suppressed' = Coming'
    BY <1>1, <1>4, <1>a
  <2>2. \A j \in Coming' : inst'[j].reg
    BY <1>0, <1>1, <1>2, <1>a DEF Steady, Phases
  <2>3. \A j \in Ids : inst'[j].spawn = "none"
    BY <1>1, <1>2
  <2> QED
    BY <1>1, <1>4, <2>1, <2>2, <2>3 DEF Phases, Rolling
<1>6. Counts'
  <2>1. IsFiniteSet(operator.new) /\ Cardinality(operator.new) \in Nat
    BY <1>0, InstancesAssumption, FS_Subset, FS_CardinalityType
  <2>2. Cardinality(operator.new \cup {i}) = Cardinality(operator.new) + 1
    BY <1>1, <2>1, FS_AddElement
  <2>3. operator.todo + Cardinality(operator.new) = config.min /\ operator.todo \in Nat
    BY <1>0, <1>1 DEF Steady, Counts, OpRec
  <2>4. operator'.todo + Cardinality(operator'.new) = config.min + 1
    BY <1>0, <1>4, <2>1, <2>2, <2>3
  <2> QED
    BY <1>1, <1>4, <2>4 DEF Steady, Counts, Rolling
<1>7. Alone'
  BY <1>1 DEF Steady, Alone
<1>8. Deaths'
  <2>1. \A j \in Dead' : IF j \in suppressed' THEN inst'[j].proc # "up" ELSE ~inst'[j].reg
    BY <1>0, <1>1, <1>2, <1>3 DEF Steady, Deaths
  <2>2. \A j \in Ids : inst'[j].spawn # "alloc"
    BY <1>1, <1>2
  <2>3. ASSUME NEW j \in operator'.new \cap Dead', Passed(j)' PROVE HealthLocked(j)'
    <3>1. j # i /\ j \in operator.new \cap Dead
      BY <1>3, <1>4, <2>3 DEF Passed
    <3> QED
      BY <1>0, <1>1, <1>2, <3>1 DEF Steady, Deaths, Passed, HealthLocked
  <2> QED
    BY <1>4, <2>1, <2>2, <2>3 DEF Deaths
<1>9. Serving' = Serving
  BY <1>1, <1>2 DEF Serving
<1>10. Staying \subseteq Staying'
  BY <1>1, <1>4, <1>9, <1>a DEF Staying, Leaving, Stopping
<1>11. Cardinality(Staying)' >= Target'
  BY <1>10, <1>a, StillEnough, TargetType DEF Steady, Supplied
<1>12. \A j \in Ids : inst'[j].reg /\ j \notin suppressed' => Begun(j)'
  BY <1>1, <1>2, <1>9 DEF Steady, Supplied, Begun, HealthLocked
<1>13. Supplied'
  BY <1>4, <1>11, <1>12 DEF Supplied
<1> QED
  BY <1>5, <1>6, <1>7, <1>8, <1>13 DEF Steady

(* Scaling up: the instance serves and counts, or its start failed; then   *)
(* it is seen to be stopped, or it was noted that it only seems to run.    *)
LEMMA AddedSteady ==
    ASSUME Typed, Steady, Calm', operator.mode = "scale", OpSpawned \/ OpSpawnFails
    PROVE  Steady'
<1>0. /\ config.min \in Nat /\ operator \in OpRec /\ inst \in [Ids -> InstRec]
      /\ operator.new \subseteq Ids /\ operator.old \subseteq Ids /\ NULL \notin Ids
      /\ Dead \subseteq Ids
  BY Referred
<1> DEFINE i == operator.cur
<1>1. /\ UNCHANGED <<check, suppressed, config, leaders, healthEvents, handler, evictor>>
      /\ operator.pc = "spawn" /\ evictor.pc = "idle"
      /\ i \in Ids \ operator.new /\ i \notin operator.old
      /\ operator.new \cap operator.old = {} /\ suppressed = {}
      /\ Coming = operator.new \cup {i}
      /\ \A j \in Ids : inst[j].spawn # "none" => i = j
  <2>1. /\ UNCHANGED <<check, suppressed, config, leaders, healthEvents, handler, evictor>>
        /\ operator.pc = "spawn"
    BY DEF OpSpawned, OpSpawnFails, coldVars, events
  <2> QED
    BY <2>1 DEF Steady, Phases, Rolling, Alone, Coming
<1>2. /\ routed' = routed /\ inst'[i].reg = inst[i].reg /\ inst'[i].st = inst[i].st
      /\ inst'[i].proc = inst[i].proc /\ inst'[i].spawn = "none"
      /\ \A j \in Ids : j # i => inst'[j] = inst[j]
  <2>1. inst[i] \in InstRec /\ inst[i].reg \in BOOLEAN
    BY <1>0, <1>1 DEF InstRec
  <2>2. CASE OpSpawned
    BY <1>0, <1>1, <2>1, <2>2 DEF OpSpawned, InstRec
  <2>3. CASE OpSpawnFails
    <3>1. /\ routed' = routed
          /\ inst' = [inst EXCEPT ![i] = [inst[i] EXCEPT !.spawn = "none",
                                                         !.reg = inst[i].reg /\ TRUE]]
      BY <1>0, <1>1, <2>3 DEF OpSpawnFails
    <3> QED
      BY <1>0, <1>1, <2>1, <3>1 DEF InstRec
  <2> QED
    BY <2>2, <2>3
<1>3. Dead' = Dead /\ Serving' = Serving
  BY <1>1, <1>2 DEF Dead, Serving
<1>4. /\ operator'.mode = "scale" /\ operator'.old = operator.old
      /\ operator'.saved = operator.saved /\ operator'.cur = NULL
      /\ operator'.new = IF OpSpawned THEN operator.new \cup {i} ELSE operator.new
      /\ operator'.pc = IF OpSpawned THEN "next" ELSE "rollback"
      /\ OpSpawned => operator'.todo = operator.todo - 1
  <2>1. CASE OpSpawned
    <3>1. operator' = [operator EXCEPT !.pc = "next", !.new = operator.new \cup {i},
                                       !.cur = NULL, !.todo = operator.todo - 1]
      BY <2>1 DEF OpSpawned
    <3> QED
      BY <1>0, <2>1, <3>1 DEF OpRec
  <2>2. CASE ~OpSpawned
    <3>1. operator' = [operator EXCEPT !.pc = "rollback", !.cur = NULL, !.window = "none"]
      BY <2>2 DEF OpSpawnFails, Fail
    <3> QED
      BY <1>0, <2>2, <3>1 DEF OpRec
  <2> QED
    BY <2>1, <2>2
<1>5. /\ Coming' = operator'.new /\ Coming' \subseteq Coming /\ Coming \subseteq Ids
      /\ Target' = Target
  BY <1>0, <1>1, <1>4 DEF Coming, Target, Rolling
<1>6. Phases'
  <2>1. \A j \in Coming' : inst'[j].reg
    BY <1>1, <1>2, <1>5 DEF Steady, Phases
  <2>2. \A j \in Ids : inst'[j].spawn = "none"
    BY <1>1, <1>2
  <2> QED
    BY <1>1, <1>4, <1>5, <2>1, <2>2 DEF Phases, Rolling
<1>7. Counts'
  BY <1>1, <1>4 DEF Steady, Counts, Rolling
<1>8. Alone'
  BY <1>1 DEF Steady, Alone
<1>9. Deaths'
  <2>1. \A j \in Dead' : ~inst'[j].reg
    BY <1>0, <1>1, <1>2, <1>3 DEF Steady, Deaths
  <2>2. \A j \in operator'.new : inst'[j].reg
    BY <1>5, <1>6 DEF Phases
  <2>3. \A j \in Ids : inst'[j].spawn # "alloc"
    BY <1>1, <1>2
  <2> QED
    BY <1>1, <1>4, <2>1, <2>2, <2>3 DEF Deaths
<1>10. Staying \subseteq Staying'
  BY <1>1, <1>3, <1>4, <1>5 DEF Staying, Leaving, Stopping
<1>11. Cardinality(Staying)' >= Target'
  BY <1>5, <1>10, StillEnough, TargetType DEF Steady, Supplied
<1>12. i \in Serving \/ HealthLocked(i)
  <2>1. Begun(i)
    BY <1>1 DEF Steady, Supplied, Phases
  <2>2. CASE OpSpawned
    BY <2>1, <2>2 DEF OpSpawned, Begun
  <2>3. CASE OpSpawnFails
    <3>1. inst[i].st \notin Running
      <4>1. used' = [used EXCEPT !.stuck = used.stuck \/ inst[i].st \in Running]
        BY <2>3 DEF OpSpawnFails
      <4>2. used \in UsedRec
        BY DEF Typed
      <4> QED
        BY <4>1, <4>2 DEF Calm, UsedRec
    <3> QED
      BY <2>1, <2>3, <3>1 DEF OpSpawnFails, Begun, Running
  <2> QED
    BY <2>2, <2>3
<1>13. ASSUME NEW j \in Ids, inst'[j].reg, j \notin suppressed' PROVE Begun(j)'
  <2>1. CASE j = i
    BY <1>2, <1>3, <1>12, <2>1 DEF Begun, Serving, HealthLocked
  <2>2. CASE j # i
    BY <1>1, <1>2, <1>3, <1>13, <2>2 DEF Steady, Supplied, Begun, HealthLocked
  <2> QED
    BY <2>1, <2>2
<1>14. operator'.pc \in {"next", "spawn"} =>
          Cardinality(Serving' \ {operator'.cur}) + operator'.todo >= config'.min
  <2> SUFFICES ASSUME operator'.pc \in {"next", "spawn"}
               PROVE  Cardinality(Serving) + (operator.todo - 1) >= config.min
    <3>1. Serving' \ {operator'.cur} = Serving
      BY <1>0, <1>3, <1>4 DEF Serving
    <3> QED
      BY <1>1, <1>4, <3>1
  <2>1. OpSpawned
    BY <1>4
  <2>2. i \in Serving
    <3>1. Begun(i)
      BY <1>1 DEF Steady, Supplied, Phases
    <3> QED
      BY <2>1, <3>1 DEF OpSpawned, Begun
  <2>3. IsFiniteSet(Serving) /\ Cardinality(Serving) \in Nat
    BY StayingCounted, FS_CardinalityType
  <2>4. Cardinality(Serving \ {i}) = Cardinality(Serving) - 1
    BY ONLY <2>2, <2>3, FS_RemoveElement
  <2>5. Cardinality(Serving \ {i}) + operator.todo >= config.min
    BY <1>1 DEF Steady, Supplied
  <2> QED
    BY <1>0, <2>3, <2>4, <2>5, TargetType
<1>15. Supplied'
  BY <1>11, <1>13, <1>14 DEF Supplied
<1> QED
  BY <1>6, <1>7, <1>8, <1>9, <1>15 DEF Steady

(* The cutover: all candidates are healthy, so none was reported dead, and *)
(* they are as many as configured; or the rollout fails.  Scaling up, all  *)
(* instances that were missing serve by now.                               *)
LEMMA CutoverSteady ==
    ASSUME Typed, Steady, Cutover
    PROVE  Steady'
<1>0. /\ config.min \in Nat /\ operator \in OpRec /\ NULL \notin Ids
      /\ operator.new \subseteq Ids /\ Dead \subseteq Ids
  BY Referred
<1>1. /\ UNCHANGED <<inst, check, config, leaders, healthEvents, handler, evictor>>
      /\ operator.pc = "next" /\ operator.todo = 0 /\ operator.mode \in {"rollout", "scale"}
      /\ evictor.pc = "idle" /\ evictor.inst = NULL /\ Coming = operator.new
      /\ suppressed = IF operator.mode = "rollout" THEN operator.new ELSE {}
      /\ operator.new \cap operator.old = {} /\ operator.cur = NULL
      /\ \A j \in Ids : inst[j].spawn = "none"
  <2>1. /\ UNCHANGED <<inst, check, config, leaders, healthEvents, handler, evictor>>
        /\ operator.pc = "next" /\ operator.todo = 0
    BY DEF Cutover, coldVars, events
  <2> QED
    BY <2>1 DEF Steady, Phases, Rolling, Alone, Coming
<1>2. CASE operator.mode = "rollout" /\ \A i \in operator.new : inst[i].st = "Healthy"
  <2>1. /\ routed' = routed \cup operator.new /\ suppressed' = {}
        /\ operator' = [operator EXCEPT !.pc = "drain"]
    BY <1>1, <1>2 DEF Cutover
  <2>2. /\ operator'.pc = "drain" /\ operator'.cur = NULL /\ operator'.old = operator.old
        /\ operator'.new = operator.new
    BY <1>0, <1>1, <2>1 DEF OpRec
  <2>3. Dead' = Dead
    BY <1>1 DEF Dead
  <2>4. Phases'
    BY <1>1, <2>1, <2>2 DEF Phases, Rolling, Stopping, Coming
  <2>5. Counts'
    BY <1>1, <2>2 DEF Steady, Counts, Rolling
  <2>6. Alone'
    BY <1>1 DEF Steady, Alone
  <2>7. \A j \in Dead : ~inst[j].reg
    BY <1>0, <1>1, <1>2 DEF Steady, Deaths, Passed, HealthLocked
  <2>8. Deaths'
    BY <1>1, <2>1, <2>2, <2>3, <2>7 DEF Deaths, Passed
  <2>9. Serving \subseteq Serving' /\ operator.new \subseteq Serving'
    <3>1. \A j \in operator.new : inst[j].reg
      BY <1>1 DEF Steady, Phases
    <3> QED
      BY <1>0, <1>1, <1>2, <2>1, <3>1 DEF Serving
  <2>10. operator.new \subseteq Staying'
    BY <1>0, <1>1, <2>2, <2>9 DEF Staying, Leaving, Coming
  <2>11. Cardinality(Staying)' >= config'.min
    <3>1. Cardinality(operator.new) <= Cardinality(Staying')
      BY <2>10, StayingCounted, FS_Subset
    <3>2. IsFiniteSet(operator.new) /\ Cardinality(operator.new) \in Nat
      BY <1>0, InstancesAssumption, FS_Subset, FS_CardinalityType
    <3>3. operator.todo + Cardinality(operator.new) = config.min
      BY <1>1, <1>2 DEF Steady, Counts
    <3>4. Cardinality(operator.new) = config.min
      BY <1>1, <3>2, <3>3
    <3>5. Cardinality(Staying') \in Nat
      BY StayingCounted
    <3> QED
      BY <1>0, <1>1, <3>1, <3>4, <3>5
  <2>12. ASSUME NEW j \in Ids, inst'[j].reg PROVE j \in Serving' \/ HealthLocked(j)'
    BY <1>1, <2>9, <2>12 DEF Steady, Supplied, Begun, HealthLocked
  <2>13. Supplied'
    <3>1. Target' = config'.min
      BY <2>2 DEF Target, Rolling
    <3>2. ASSUME NEW j \in Ids, inst'[j].reg PROVE Begun(j)'
      BY <1>1, <2>12, <3>2 DEF Begun, Serving, HealthLocked
    <3> QED
      BY <2>2, <2>11, <3>1, <3>2 DEF Supplied
  <2> QED
    BY <2>4, <2>5, <2>6, <2>8, <2>13 DEF Steady
<1>3. CASE operator.mode = "rollout" /\ ~ \A i \in operator.new : inst[i].st = "Healthy"
  <2>1. /\ routed' = routed /\ suppressed' = suppressed
        /\ operator' = [operator EXCEPT !.pc = "rollback", !.cur = NULL, !.window = "none"]
    BY <1>1, <1>3 DEF Cutover, Fail
  <2>2. /\ operator'.pc = "rollback" /\ operator'.new = operator.new
        /\ operator'.saved = operator.saved /\ operator'.mode = operator.mode
    BY <1>0, <2>1 DEF OpRec
  <2>3. Phases'
    BY <1>1, <2>1, <2>2 DEF Steady, Phases, Rolling, Stopping, Coming
  <2>4. Counts'
    BY <1>1, <2>2 DEF Steady, Counts, Rolling
  <2>5. Leaving' \subseteq Leaving
    BY <1>1, <2>2 DEF Leaving, Stopping, Coming
  <2>6. Target' = Target
    BY <1>1, <2>2 DEF Target, Rolling
  <2> QED
    BY <1>1, <2>1, <2>2, <2>3, <2>4, <2>5, <2>6, CommandMoves DEF Passed
<1>4. CASE operator.mode = "scale"
  <2>1. /\ routed' = routed /\ suppressed' = {}
        /\ operator' = [operator EXCEPT !.pc = "drain", !.old = {}]
    BY <1>1, <1>4 DEF Cutover
  <2>2. /\ operator'.pc = "drain" /\ operator'.cur = NULL /\ operator'.old = {}
        /\ operator'.new = operator.new
    BY <1>0, <1>1, <2>1 DEF OpRec
  <2>3. Dead' = Dead /\ Serving' = Serving
    BY <1>1, <2>1 DEF Dead, Serving
  <2>4. Phases'
    BY <1>1, <2>1, <2>2 DEF Phases, Rolling, Stopping, Coming
  <2>5. Counts'
    BY <1>1, <2>2 DEF Steady, Counts, Rolling
  <2>6. Alone'
    BY <1>1 DEF Steady, Alone
  <2>7. Deaths'
    BY <1>1, <1>4, <2>1, <2>2, <2>3 DEF Steady, Deaths, Passed
  <2>8. Staying' = Serving /\ Serving = Serving \ {operator.cur}
    <3>1. Leaving' = {NULL}
      BY <1>1, <2>2 DEF Leaving, Coming, Stopping
    <3>2. NULL \notin Serving
      BY <1>0 DEF Serving
    <3> QED
      BY <1>1, <2>3, <3>1, <3>2 DEF Staying
  <2>9. Cardinality(Staying)' >= Target'
    <3>1. Cardinality(Serving \ {operator.cur}) + 0 >= config.min
      BY <1>1, <1>4 DEF Steady, Supplied
    <3>2. Cardinality(Staying') \in Nat /\ Cardinality(Staying') = Cardinality(Serving \ {operator.cur})
      BY <2>8, StayingCounted
    <3>3. Target' = config.min
      BY <1>1, <2>2 DEF Target, Rolling
    <3> QED
      BY <1>0, <3>1, <3>2, <3>3
  <2>10. \A j \in Ids : inst'[j].reg => Begun(j)'
    BY <1>1, <1>4, <2>1, <2>3 DEF Steady, Supplied, Begun, HealthLocked
  <2>11. Supplied'
    BY <2>2, <2>9, <2>10 DEF Supplied
  <2> QED
    BY <2>4, <2>5, <2>6, <2>7, <2>11 DEF Steady
<1> QED
  BY <1>1, <1>2, <1>3, <1>4

(* Scaling: under the locks every instance that counts as running serves,  *)
(* so stopping the surplus, or starting what is missing, leaves the number *)
(* asked for.                                                              *)
LEMMA ScaleSteady ==
    ASSUME Typed, Steady, NEW n \in ScaleTargets, n # 0, Scale(n)
    PROVE  Steady'
<1>0. /\ config \in Config /\ config.min \in Nat /\ NULL \notin Ids /\ Dead \subseteq Ids
  BY Referred
<1>1. /\ UNCHANGED <<inst, check, routed, suppressed, leaders, healthEvents, handler, evictor>>
      /\ operator.pc = "idle" /\ evictor.pc = "idle" /\ evictor.inst = NULL
      /\ suppressed = {} /\ \A j \in Ids : inst[j].spawn = "none"
  <2>1. /\ UNCHANGED <<inst, check, routed, suppressed, leaders, healthEvents, handler, evictor>>
        /\ operator.pc = "idle" /\ evictor.pc = "idle"
    BY DEF Scale, Locked, coldVars, events
  <2> QED
    BY <2>1 DEF Steady, Phases, Rolling, Alone, Coming
<1>3. config' = [config EXCEPT !.min = n]
  BY DEF Scale
<1>4. config'.min = n
  BY <1>0, <1>3 DEF Config
<1>2. n \in Nat /\ n > 0
  BY InstancesAssumption
<1>5. {i \in Registered : inst[i].st \in Running} = Serving
  <2>1. \A i \in Ids : inst[i].reg => i \in Serving \/ HealthLocked(i)
    BY <1>1 DEF Steady, Supplied, Begun
  <2> QED
    BY <2>1 DEF Registered, Running, Serving, HealthLocked
<1>6. Staying = Serving
  BY <1>0, <1>1 DEF Staying, Serving, Leaving, Stopping, Coming
<1>7. /\ IsFiniteSet(Serving) /\ Cardinality(Serving) \in Nat
      /\ Cardinality(Serving) >= config.min /\ config.min > 0
  <2>1. IsFiniteSet(Serving) /\ Cardinality(Serving) \in Nat
    BY StayingCounted, FS_CardinalityType
  <2>2. Cardinality(Serving) >= config.min
    BY <1>1, <1>6 DEF Steady, Supplied, Target, Rolling
  <2> QED
    BY <2>1, <2>2 DEF Steady, Counts
<1>8. PICK old \in SUBSET Serving :
         /\ Cardinality(old) = IF Cardinality(Serving) > n THEN Cardinality(Serving) - n ELSE 0
         /\ operator' = [NoOp EXCEPT !.mode = "scale", !.saved = config, !.old = old,
                                     !.pc = IF n > Cardinality(Serving) THEN "next" ELSE "drain",
                                     !.todo = IF n > Cardinality(Serving)
                                              THEN n - Cardinality(Serving) ELSE 0]
  BY <1>5 DEF Scale
<1>9. /\ operator'.mode = "scale" /\ operator'.saved = config /\ operator'.old = old
      /\ operator'.new = {} /\ operator'.cur = NULL
      /\ operator'.pc = (IF n > Cardinality(Serving) THEN "next" ELSE "drain")
      /\ operator'.todo = (IF n > Cardinality(Serving) THEN n - Cardinality(Serving) ELSE 0)
  BY <1>8 DEF NoOp
<1>10. Dead' = Dead /\ Serving' = Serving /\ Coming' = {}
  BY <1>1, <1>9 DEF Dead, Serving, Coming
<1>11. Phases'
  BY <1>1, <1>9, <1>10 DEF Phases, Rolling, Stopping
<1>12. Counts'
  BY <1>2, <1>4, <1>7, <1>9 DEF Counts, Rolling
<1>13. Alone'
  BY <1>1 DEF Steady, Alone
<1>14. Deaths'
  BY <1>1, <1>0, <1>9, <1>10 DEF Steady, Deaths, Passed
<1>15. \A j \in Ids : inst'[j].reg => Begun(j)'
  BY <1>1, <1>10 DEF Steady, Supplied, Begun, HealthLocked
<1>16. NULL \notin Serving
  BY <1>0 DEF Serving
<1>17. CASE n > Cardinality(Serving)
  <2>1. operator'.pc = "next" /\ operator'.todo = n - Cardinality(Serving)
    BY <1>9, <1>17
  <2>2. Staying' = Serving
    BY <1>1, <1>9, <1>10, <1>16, <2>1 DEF Staying, Leaving, Stopping
  <2>3. Cardinality(Staying)' >= Target'
    <3>1. Target' = config.min
      BY <1>9, <2>1 DEF Target, Rolling
    <3> QED
      BY <1>7, <2>2, <3>1
  <2>4. Cardinality(Serving' \ {operator'.cur}) + operator'.todo >= config'.min
    <3>1. Serving' \ {operator'.cur} = Serving
      BY <1>9, <1>10, <1>16
    <3> QED
      BY <1>2, <1>4, <1>7, <2>1, <3>1
  <2>5. Supplied'
    BY <1>15, <2>3, <2>4 DEF Supplied
  <2> QED
    BY <1>11, <1>12, <1>13, <1>14, <2>5 DEF Steady
<1>18. CASE ~(n > Cardinality(Serving))
  <2>1. operator'.pc = "drain" /\ Cardinality(old) = Cardinality(Serving) - n
    BY <1>2, <1>7, <1>8, <1>9, <1>18
  <2>2. Staying' = Serving \ old
    <3>1. Leaving' = {NULL} \cup old
      BY <1>1, <1>9, <1>10, <2>1 DEF Leaving, Stopping
    <3> QED
      BY <1>10, <1>16, <3>1 DEF Staying
  <2>3. Cardinality(Serving \ old) = n
    <3>1. Serving \cap old = old
      BY <1>8
    <3>2. Cardinality(Serving \ old) = Cardinality(Serving) - Cardinality(old)
      BY <1>7, <3>1, FS_Difference
    <3> QED
      BY <1>2, <1>7, <2>1, <3>2
  <2>4. Cardinality(Staying)' >= Target'
    <3>1. Target' = n
      BY <1>4, <2>1 DEF Target, Rolling
    <3> QED
      BY <1>2, <2>2, <2>3, <3>1
  <2>5. Supplied'
    BY <1>15, <2>1, <2>4 DEF Supplied
  <2> QED
    BY <1>11, <1>12, <1>13, <1>14, <2>5 DEF Steady
<1> QED
  BY <1>17, <1>18

(* Instances that a command or a rollback stops do not serve, or do not    *)
(* stay.                                                                   *)
LEMMA StopsSteady ==
    ASSUME Typed, SuppressedHidden, Steady,
           DrainOne \/ OpKills \/ OpRemoves \/ RollbackKills \/ RollbackRemoves
    PROVE  Steady'
<1>0. /\ config.min \in Nat /\ operator \in OpRec /\ inst \in [Ids -> InstRec]
      /\ operator.new \subseteq Ids /\ operator.old \subseteq Ids /\ NULL \notin Ids
      /\ Dead \subseteq Ids /\ suppressed \subseteq Ids /\ operator.cur \in Ids \cup {NULL}
  BY Referred
<1>1. /\ UNCHANGED <<check, config, leaders, healthEvents, handler, evictor>>
      /\ operator.pc \in {"drain", "kill", "remove", "rollback", "discard"}
      /\ evictor.pc = "idle" /\ \A j \in Ids : inst[j].spawn = "none"
  <2>1. /\ UNCHANGED <<check, config, leaders, healthEvents, handler, evictor>>
        /\ operator.pc \in {"drain", "kill", "remove", "rollback", "discard"}
    BY DEF DrainOne, OpKills, OpRemoves, RollbackKills, RollbackRemoves, coldVars, events
  <2> QED
    BY <2>1 DEF Steady, Phases, Alone
<1>2. Dead' = Dead
  BY <1>1 DEF Dead
<1>3. ASSUME Phases', operator'.pc \in {"idle", "rollback", "discard"} \cup Stopping,
             operator'.pc \in Rolling <=> operator.pc \in Rolling,
             operator'.pc \in Rolling => /\ operator'.saved = operator.saved
                                         /\ operator'.mode = operator.mode,
             \A j \in Ids : /\ inst'[j].spawn = inst[j].spawn
                            /\ inst'[j].reg => inst[j].reg
                            /\ inst'[j].proc = "up" => inst[j].proc = "up",
             \A j \in Dead : j \in suppressed /\ j \notin suppressed' => ~inst'[j].reg,
             suppressed' \subseteq suppressed,
             \A j \in Ids : inst'[j].reg /\ j \notin suppressed' =>
                               j \in Serving' \/ HealthLocked(j)',
             Staying \subseteq Staying'
      PROVE  Steady'
  <2>1. Counts'
    BY <1>1, <1>3 DEF Steady, Counts, Rolling, Stopping
  <2>2. Alone'
    BY <1>1 DEF Steady, Alone
  <2>3. \A j \in Dead' : IF j \in suppressed' THEN inst'[j].proc # "up" ELSE ~inst'[j].reg
    BY <1>0, <1>2, <1>3 DEF Steady, Deaths
  <2>4. Deaths'
    BY <1>1, <1>3, <2>3 DEF Deaths, Passed, Stopping
  <2>5. Cardinality(Staying)' >= Target'
    <3>1. Target' = Target
      BY <1>1, <1>3 DEF Target
    <3> QED
      BY <1>3, <3>1, StillEnough, TargetType DEF Steady, Supplied
  <2>6. \A j \in Ids : inst'[j].reg /\ j \notin suppressed' => Begun(j)'
    BY <1>1, <1>3 DEF Begun, Serving, HealthLocked
  <2> QED
    BY <1>3, <2>1, <2>2, <2>4, <2>5, <2>6 DEF Steady, Supplied, Stopping
<1>a. \A j \in Ids : inst[j].reg /\ j \notin suppressed => j \in Serving \/ HealthLocked(j)
  BY <1>1 DEF Steady, Supplied, Begun
<1>4. CASE DrainOne
  <2>1. PICK i \in operator.old :
           /\ inst' = [inst EXCEPT ![i].st = "Draining"]
           /\ routed' = Routing(i, "Draining")
           /\ operator' = [operator EXCEPT !.pc = IF operator.mode = "stop" THEN "kill"
                                                  ELSE "drained",
                                           !.cur = i, !.old = operator.old \ {i}]
    BY <1>4 DEF DrainOne
  <2>2. /\ operator.pc = "drain" /\ suppressed' = suppressed /\ suppressed = {}
    BY <1>4 DEF DrainOne, Steady, Phases, Coming
  <2>3. /\ operator'.pc \in {"kill", "drained"} /\ operator'.cur = i
        /\ operator'.old = operator.old \ {i}
    BY <1>0, <2>1 DEF OpRec
  <2>4. i \in Ids /\ inst[i] \in InstRec
    BY <1>0, <2>1
  <2>5. /\ inst'[i].st = "Draining" /\ inst'[i].reg = inst[i].reg
        /\ inst'[i].spawn = inst[i].spawn /\ inst'[i].proc = inst[i].proc
        /\ \A j \in Ids : j # i => inst'[j] = inst[j]
    BY <1>0, <2>1, <2>4 DEF InstRec
  <2>6. \A j \in Ids : j # i => (j \in routed' <=> j \in routed)
    BY <2>1 DEF Routing
  <2>7. Phases'
    BY <1>1, <2>2, <2>3, <2>5 DEF Phases, Rolling, Stopping, Coming
  <2>8. Staying \subseteq Staying'
    BY <1>1, <2>1, <2>2, <2>3, <2>5, <2>6 DEF Staying, Serving, Leaving, Stopping, Coming
  <2>9. ASSUME NEW j \in Ids, inst'[j].reg PROVE j \in Serving' \/ HealthLocked(j)'
    <3>1. CASE j = i
      BY <2>5, <3>1 DEF HealthLocked
    <3>2. CASE j # i
      BY <1>a, <2>2, <2>5, <2>6, <2>9, <3>2 DEF Serving, HealthLocked
    <3> QED
      BY <3>1, <3>2
  <2> QED
    BY <1>3, <2>2, <2>3, <2>5, <2>7, <2>8, <2>9 DEF Rolling, Stopping
<1>5. CASE OpKills
  <2> DEFINE i == operator.cur
  <2>1. /\ inst' = Killed(i) /\ routed' = routed /\ suppressed' = suppressed
        /\ operator.pc = "kill" /\ suppressed = {}
        /\ operator' = NoOp \/ operator' = [operator EXCEPT !.pc = "remove"]
    BY <1>5 DEF OpKills, Steady, Phases, Coming
  <2>2. \/ operator'.pc = "idle"
        \/ /\ operator'.pc = "remove" /\ operator'.cur = i /\ operator'.old = operator.old
    BY <1>0, <2>1 DEF OpRec, NoOp
  <2>3. \A j \in Ids : /\ inst'[j].reg = inst[j].reg /\ inst'[j].spawn = inst[j].spawn
                       /\ inst'[j].proc = "up" => inst[j].proc = "up"
                       /\ inst'[j].st \in {inst[j].st, "Stopped"}
                       /\ j # i => inst'[j] = inst[j]
    BY <1>0, <2>1, KilledFields
  <2>4. Phases'
    BY <1>1, <2>1, <2>2, <2>3 DEF Phases, Rolling, Stopping, Coming
  <2>5. Staying \subseteq Staying'
    BY <1>1, <2>1, <2>2, <2>3 DEF Staying, Serving, Leaving, Stopping, Coming
  <2>6. ASSUME NEW j \in Ids, inst'[j].reg PROVE j \in Serving' \/ HealthLocked(j)'
    <3>1. j \in Serving \/ HealthLocked(j)
      BY <1>a, <2>1, <2>3, <2>6
    <3> QED
      BY <2>1, <2>3, <3>1 DEF Serving, HealthLocked
  <2> QED
    BY <1>3, <2>1, <2>2, <2>3, <2>4, <2>5, <2>6 DEF Rolling, Stopping
<1>6. CASE OpRemoves
  <2> DEFINE i == operator.cur
  <2>1. /\ inst' = Removed(i) /\ routed' = RoutedWithout(i) /\ operator.pc = "remove"
        /\ suppressed = {} /\ suppressed' = {}
        /\ operator' = [operator EXCEPT !.pc = "drain", !.cur = NULL]
    <3>1. operator.pc = "remove" /\ suppressed' = SuppressedWithout(i)
      BY <1>6 DEF OpRemoves
    <3>2. suppressed = {}
      BY <3>1 DEF Steady, Phases, Coming
    <3> QED
      BY <1>6, <3>1, <3>2 DEF OpRemoves, SuppressedWithout
  <2>2. operator'.pc = "drain" /\ operator'.cur = NULL /\ operator'.old = operator.old
    BY <1>0, <2>1 DEF OpRec
  <2>3. \A j \in Ids : /\ inst'[j].spawn = inst[j].spawn /\ inst'[j].proc = inst[j].proc
                       /\ inst'[j].reg => inst[j].reg /\ j # i
                       /\ j # i => inst'[j] = inst[j]
    BY <1>0, <2>1, RemovedFields
  <2>4. \A j \in Ids : j # i => (j \in routed' <=> j \in routed)
    BY <2>1 DEF RoutedWithout
  <2>5. Phases'
    BY <1>1, <2>1, <2>2, <2>3 DEF Phases, Rolling, Stopping, Coming
  <2>6. Staying \subseteq Staying'
    BY <1>0, <1>1, <2>1, <2>2, <2>3, <2>4 DEF Staying, Serving, Leaving, Stopping, Coming
  <2>7. ASSUME NEW j \in Ids, inst'[j].reg PROVE j \in Serving' \/ HealthLocked(j)'
    <3>1. j # i /\ inst'[j] = inst[j]
      BY <2>3, <2>7
    <3>2. j \in Serving \/ HealthLocked(j)
      BY <1>a, <2>1, <2>7, <3>1
    <3> QED
      BY <2>4, <2>7, <3>1, <3>2 DEF Serving, HealthLocked
  <2> QED
    BY <1>3, <2>1, <2>2, <2>3, <2>5, <2>6, <2>7 DEF Rolling, Stopping
<1>7. CASE RollbackKills
  <2>1. PICK i \in operator.new :
           /\ inst' = Killed(i)
           /\ operator' = [operator EXCEPT !.pc = "discard", !.cur = i,
                                           !.new = operator.new \ {i}]
    BY <1>7 DEF RollbackKills
  <2>2. /\ operator.pc = "rollback" /\ routed' = routed /\ suppressed' = suppressed
        /\ operator.mode \in {"rollout", "scale"} /\ Coming = operator.new
        /\ suppressed = IF operator.mode = "rollout" THEN Coming ELSE {}
    BY <1>7 DEF RollbackKills, Steady, Phases, Rolling, Coming
  <2>3. /\ operator'.pc = "discard" /\ operator'.cur = i /\ operator'.new = operator.new \ {i}
        /\ operator'.mode = operator.mode /\ operator'.saved = operator.saved
    BY <1>0, <2>1 DEF OpRec
  <2>4. i \in Ids
    BY <1>0, <2>1
  <2>5. \A j \in Ids : /\ inst'[j].reg = inst[j].reg /\ inst'[j].spawn = inst[j].spawn
                       /\ inst'[j].proc = "up" => inst[j].proc = "up"
                       /\ inst'[j].st \in {inst[j].st, "Stopped"}
                       /\ j # i => inst'[j] = inst[j]
    BY <2>1, <2>4, KilledFields
  <2>6. Coming' = Coming
    BY <2>1, <2>2, <2>3 DEF Coming
  <2>7. \A j \in Coming' : inst'[j].reg
    BY <1>0, <2>2, <2>5, <2>6 DEF Steady, Phases
  <2>8. Phases'
    BY <1>1, <2>2, <2>3, <2>4, <2>5, <2>6, <2>7 DEF Phases, Rolling
  <2>9. Staying \subseteq Staying'
    <3>1. Leaving' = Leaving /\ i \in Leaving
      BY <1>1, <2>1, <2>2, <2>3, <2>6 DEF Leaving, Stopping
    <3> QED
      BY <2>2, <2>5, <3>1 DEF Staying, Serving
  <2>10. ASSUME NEW j \in Ids, inst'[j].reg, j \notin suppressed'
         PROVE  j \in Serving' \/ HealthLocked(j)'
    <3>1. j \in Serving \/ HealthLocked(j)
      BY <1>a, <2>2, <2>5, <2>10
    <3> QED
      BY <2>2, <2>5, <2>10, <3>1 DEF Serving, HealthLocked
  <2> QED
    BY <1>3, <2>2, <2>3, <2>5, <2>8, <2>9, <2>10 DEF Rolling, Stopping
<1>8. CASE RollbackRemoves
  <2> DEFINE i == operator.cur
  <2>1. /\ inst' = Removed(i) /\ routed' = RoutedWithout(i) /\ operator.pc = "discard"
        /\ suppressed' = SuppressedWithout(i)
        /\ operator' = [operator EXCEPT !.pc = "rollback", !.cur = NULL, !.window = "none"]
    BY <1>8 DEF RollbackRemoves, Fail
  <2>2. /\ Coming = operator.new \cup {i} /\ i \in Ids \ operator.new
        /\ suppressed = IF operator.mode = "rollout" THEN Coming ELSE {}
        /\ operator.mode \in {"rollout", "scale"} /\ inst[i].reg
    BY <2>1 DEF Steady, Phases, Rolling, Coming
  <2>4. /\ operator'.pc = "rollback" /\ operator'.new = operator.new
        /\ operator'.mode = operator.mode /\ operator'.saved = operator.saved
    BY <1>0, <2>1 DEF OpRec
  <2>3. Coming' = operator.new /\ suppressed' = suppressed \ {i}
        /\ suppressed' = IF operator'.mode = "rollout" THEN Coming' ELSE {}
    BY <2>1, <2>2, <2>4 DEF SuppressedWithout, Coming
  <2>5. \A j \in Ids : /\ inst'[j].spawn = inst[j].spawn /\ inst'[j].proc = inst[j].proc
                       /\ inst'[j].reg => inst[j].reg /\ j # i
                       /\ j # i => inst'[j] = inst[j]
    BY <2>1, <2>2, RemovedFields
  <2>6. \A j \in Ids : j # i => (j \in routed' <=> j \in routed)
    BY <2>1 DEF RoutedWithout
  <2>7. \A j \in Coming' : inst'[j].reg
    BY <1>0, <2>2, <2>3, <2>5 DEF Steady, Phases
  <2>8. Phases'
    BY <1>1, <2>2, <2>3, <2>4, <2>5, <2>7 DEF Phases, Rolling
  <2>9. Staying \subseteq Staying'
    <3>1. Leaving' \subseteq Leaving /\ i \in Leaving
      BY <1>1, <2>1, <2>2, <2>3, <2>4 DEF Leaving, Stopping
    <3> QED
      BY <2>5, <2>6, <3>1 DEF Staying, Serving
  <2>10. ASSUME NEW j \in Ids, inst'[j].reg, j \notin suppressed'
         PROVE  j \in Serving' \/ HealthLocked(j)'
    <3>1. j # i /\ inst'[j] = inst[j]
      BY <2>5, <2>10
    <3>2. j \in Serving \/ HealthLocked(j)
      BY <1>a, <2>3, <2>10, <3>1
    <3> QED
      BY <2>6, <2>10, <3>1, <3>2 DEF Serving, HealthLocked
  <2>11. \A j \in Dead : j \in suppressed /\ j \notin suppressed' => ~inst'[j].reg
    BY <1>0, <2>3, <2>5
  <2> QED
    BY <1>3, <2>1, <2>3, <2>4, <2>5, <2>8, <2>9, <2>10, <2>11 DEF Rolling, Stopping
<1> QED
  BY <1>4, <1>5, <1>6, <1>7, <1>8

(* Nothing else happens: no request finds the app without instances, no    *)
(* death is replaced, and every spawn is a candidate's.                    *)
LEMMA OthersIdle ==
    ASSUME Typed, Steady
    PROVE  /\ ~ColdAllocate /\ \A i \in Ids : ~ColdStep(i)
           /\ ~HandlerKills /\ ~HandlerRemoves /\ ~HandlerAllocates /\ ~HandlerSpawned
<1>1. leaders = 0 /\ handler.pc = "idle"
  BY DEF Steady, Alone
<1>2. \A i \in Ids : inst[i].spawn # "none" => operator.cur = i
  BY DEF Steady, Phases
<1>3. ~ColdAllocate
  BY <1>1 DEF ColdAllocate
<1>4. \A i \in Ids : ~ColdStep(i)
  BY <1>2 DEF ColdStep, ColdFinished, ColdFailed, ColdOwned
<1> QED
  BY <1>1, <1>3, <1>4 DEF HandlerKills, HandlerRemoves, HandlerAllocates, HandlerSpawned

(* An app that starts with instances starts steady.                        *)
LEMMA SteadyInit ==
    ASSUME MinInstances > 0, Init
    PROVE  Steady
<1>1. /\ check = [i \in Ids |-> NoCheck] /\ suppressed = {}
      /\ config = [version |-> 1, min |-> MinInstances] /\ leaders = 0
      /\ healthEvents = <<>> /\ handler = Resting /\ evictor = Resting /\ operator = NoOp
  BY DEF Init
<1>2. PICK S \in SUBSET Ids :
         /\ Cardinality(S) = MinInstances
         /\ inst = [i \in Ids |-> IF i \in S
                       THEN [NoInst EXCEPT !.st = "Healthy", !.reg = TRUE, !.proc = "up",
                                           !.build = 1]
                       ELSE NoInst]
         /\ routed = S
  BY DEF Init
<1>3. \A i \in Ids : /\ inst[i].spawn = "none" /\ (inst[i].reg <=> i \in S)
                     /\ i \in S => inst[i].st = "Healthy"
  BY <1>2 DEF NoInst
<1>4. /\ operator.pc = "idle" /\ operator.new = {} /\ config.min = MinInstances
      /\ evictor.pc = "idle" /\ evictor.inst = NULL /\ handler.pc = "idle"
  BY <1>1 DEF NoOp, Resting
<1>5. Dead = {}
  BY <1>1 DEF Dead
<1>6. Phases
  BY <1>1, <1>3, <1>4 DEF Phases, Rolling, Stopping, Coming
<1>7. Counts
  BY <1>4, InstancesAssumption DEF Counts, Rolling
<1>8. Alone
  BY <1>1, <1>4 DEF Alone
<1>9. Deaths
  BY <1>3, <1>4, <1>5 DEF Deaths
<1>10. Serving = S
  BY <1>2, <1>3 DEF Serving
<1>11. Staying = S
  BY <1>2, <1>4, <1>10, InstancesAssumption DEF Staying, Leaving, Stopping, Coming
<1>12. Supplied
  <2>1. Cardinality(Staying) >= Target
    BY <1>2, <1>4, <1>11, InstancesAssumption DEF Target, Rolling
  <2>2. \A i \in Ids : inst[i].reg => Begun(i)
    BY <1>2, <1>3, <1>10 DEF Begun
  <2> QED
    BY <1>4, <2>1, <2>2 DEF Supplied
<1> QED
  BY <1>6, <1>7, <1>8, <1>9, <1>12 DEF Steady

(* As long as everything is calm, the instances stay supplied.             *)
LEMMA SteadyStep ==
    ASSUME 0 \notin ScaleTargets, Typed, Typed', SuppressedHidden, Covered, [Next]_vars
    PROVE  Covered'
<1> SUFFICES ASSUME Calm' PROVE Steady'
  BY DEF Covered
<1>1. Calm /\ Steady
  BY CalmBefore DEF Covered
<1>2. CASE \/ \E r \in Requests : RequestStep(r) \/ WaitTimesOut(r)
           \/ \E i \in Ids : HandleReady(i)
           \/ AppIdle \/ HandleHealthy \/ HandleDead \/ UNCHANGED vars
  BY <1>1, <1>2, QuietSteps
<1>3. CASE \E i \in Ids : SpawnStep(i) \/ SpawnError(i) \/ Crash(i)
  BY <1>1, <1>3, SpawnSteady
<1>4. CASE \E i \in Ids : CheckStep(i)
  BY <1>1, <1>4, CheckSteady
<1>5. CASE EvictorStep \/ \E i \in Ids : Evict(i)
  BY <1>1, <1>5, EvictorSteady
<1>6. CASE OperatorStep
  <2>1. CASE OpSpawned \/ OpSpawnFails
    <3>1. operator.mode \in {"rollout", "scale"}
      BY <1>1, <2>1 DEF Steady, Phases, Rolling, OpSpawned, OpSpawnFails
    <3> QED
      BY <1>1, <2>1, <3>1, CandidateSteady, AddedSteady
  <2>2. CASE ~(OpSpawned \/ OpSpawnFails)
    BY <1>1, <1>6, <2>2, DeploySteady, ProgressSteady, AllocateSteady, CutoverSteady,
       StopsSteady DEF OperatorStep
  <2> QED
    BY <2>1, <2>2
<1>7. CASE Deploy \/ DrainTimesOut
  BY <1>1, <1>7, DeploySteady, ProgressSteady
<1>8. CASE \E n \in ScaleTargets : Scale(n)
  BY <1>1, <1>8, ScaleSteady
<1>9. ~Stop
  <2>1. used \in UsedRec
    BY DEF Typed
  <2>2. Stop => used' = [used EXCEPT !.commands = used.commands + 1, !.stopped = TRUE]
    BY DEF Stop
  <2> QED
    BY <2>1, <2>2 DEF Calm, UsedRec
<1>10. CASE ColdAllocate \/ HandlerStep \/ \E i \in Ids : ColdStep(i)
  BY <1>1, <1>2, <1>10, OthersIdle DEF HandlerStep
<1> QED
  BY <1>2, <1>3, <1>4, <1>5, <1>6, <1>7, <1>8, <1>9, <1>10 DEF Next

(* Zero downtime.  Unless the app was stopped, a probe took a serving      *)
(* instance away or reported one dead, or a failed scale-up left an        *)
(* instance that only seems to run, requests always find an instance:      *)
(* through rollouts and their rollbacks, whatever crashes or fails to      *)
(* start before the cutover, through scaling up and down and through idle  *)
(* eviction.                                                               *)
THEOREM ServesThroughRollouts == Spec => []NoGap
<1>1. CASE MinInstances > 0 /\ 0 \notin ScaleTargets
  <2>1. Init => Covered
    BY <1>1, SteadyInit DEF Covered
  <2>2. Typed /\ Typed' /\ SuppressedHidden /\ Covered /\ [Next]_vars => Covered'
    BY <1>1, SteadyStep
  <2>3. Typed /\ Covered => NoGap
    BY SomebodyServes DEF Covered, Calm, NoGap, Staying, Serving
  <2> QED
    BY <2>1, <2>2, <2>3, TypeCorrect, HiddenUntilCutover, PTL DEF Spec
<1>2. CASE ~(MinInstances > 0 /\ 0 \notin ScaleTargets)
  <2>1. NoGap
    BY <1>2 DEF NoGap
  <2> QED
    BY <2>1, PTL
<1> QED
  BY <1>1, <1>2
=============================================================================
