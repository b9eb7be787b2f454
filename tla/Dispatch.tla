------------------------------ MODULE Dispatch ------------------------------
(***************************************************************************)
(* From "work exists in the database" to "a worker process polls for it":  *)
(* the dispatcher (tako-workflows/src/dispatcher.rs), the supervisor of    *)
(* the worker processes (supervisor.rs), the enqueue handler's health      *)
(* check (enqueue_socket.rs), the reclaiming cron ticker (cron.rs) and the *)
(* polling loop of the worker (sdk/javascript/src/workflows/worker.ts).    *)
(* Workers has the state they share and what they promise about it.        *)
(*                                                                         *)
(* A run is a token that moves between the queue of its lane, a worker and *)
(* the leases of workers that died.  Time is abstracted: the idle timeout, *)
(* the cool-down, the debounce and the scan interval may elapse whenever   *)
(* the code waits for them.                                                *)
(***************************************************************************)
EXTENDS Workers

CONSTANTS
    MaxEnqueues,  \* bound: runs ever enqueued
    MaxParks,     \* bound: times a run is parked or retried
    MaxFaults,    \* bound: process crashes and failed spawns
    NULL

ConstantsOK ==
    /\ IsFiniteSet(Lanes) /\ IsFiniteSet(Procs) /\ NULL \notin Lanes
    /\ LaneWorkers \in [Lanes -> Nat]
    /\ MaxEnqueues \in Nat /\ MaxParks \in Nat /\ MaxFaults \in Nat

ASSUME DispatchAssumption == ConstantsOK

VARIABLES
    queue,           \* runs that are pending and due, per lane
    delayed,         \* runs that are pending and not yet due
    lost,            \* runs that are running under a worker that died
    unhealthy,       \* unhealthy_until lies in the future
    shutting_down,   \* State.shutting_down
    accepting,       \* accepting_new_work; cleared together with the stop request
    noted,           \* claims whose on_claimed has yet to be called
    enqueued, parks, faults   \* how much of each bound was used

vars == <<queue, delayed, lost, pending_signal, permit, sender, dispatcher, child,
          unhealthy, shutting_down, accepting, noted, enqueued, parks, faults>>

runVars    == <<queue, delayed, lost>>
signalVars == <<pending_signal, permit, sender>>
childVars  == <<child, unhealthy, shutting_down, noted>>
bounds     == <<enqueued, parks, faults>>
-----------------------------------------------------------------------------
NoChild == [pc |-> "none", lane |-> NULL, holding |-> 0,
            claimed |-> FALSE, advanced |-> FALSE]

IdleSender == [pc |-> "idle", lane |-> NULL]

Init ==
    /\ queue = [l \in Lanes |-> 0] /\ delayed = [l \in Lanes |-> 0]
    /\ lost = [l \in Lanes |-> 0]
    /\ pending_signal = FALSE /\ permit = FALSE
    /\ sender = [s \in Senders |-> IdleSender]
    /\ dispatcher = "select"
    /\ child = [p \in Procs |-> NoChild]
    /\ unhealthy = FALSE /\ shutting_down = FALSE /\ accepting = TRUE
    /\ noted = {}
    /\ enqueued = 0 /\ parks = 0 /\ faults = 0
-----------------------------------------------------------------------------
(* process_exits: children that are gone are dropped; one that crashed      *)
(* although no claim was counted since it was spawned starts the cool-down. *)
Reaped == [p \in Procs |-> IF child[p].pc \in Gone THEN NoChild ELSE child[p]]

ColdCrash ==
    /\ ~shutting_down
    /\ \E p \in Procs : child[p].pc = "crashed" /\ ~child[p].advanced

(* Variant: the reaper ends as soon as the drain begins. *)
Reap_NotDraining ==
    /\ ~shutting_down
    /\ \E p \in Procs : child[p].pc \in Gone
    /\ child' = Reaped
    /\ unhealthy' = (unhealthy \/ ColdCrash)
    /\ UNCHANGED <<runVars, signalVars, dispatcher, shutting_down, accepting, noted, bounds>>

(* The reaper task, once per second; remaining_children while draining.     *)
Reap ==
    /\ \E p \in Procs : child[p].pc \in Gone
    /\ child' = Reaped
    /\ unhealthy' = (unhealthy \/ ColdCrash)
    /\ UNCHANGED <<runVars, signalVars, dispatcher, shutting_down, accepting, noted, bounds>>

(* unhealthy_until passes. *)
CoolDown ==
    /\ unhealthy
    /\ unhealthy' = FALSE
    /\ UNCHANGED <<runVars, signalVars, dispatcher, child, shutting_down, accepting, noted,
                   bounds>>
-----------------------------------------------------------------------------
(* EnqueueRun: accepting_new_work, then check_startup_health, which reaps.  *)
HealthCheck(s, l) ==
    /\ sender[s].pc = "idle" /\ accepting
    /\ enqueued < MaxEnqueues
    /\ child' = Reaped
    /\ unhealthy' = (unhealthy \/ ColdCrash)
    /\ sender' = IF unhealthy' THEN sender
                 ELSE [sender EXCEPT ![s] = [pc |-> "healthy", lane |-> l]]
    /\ UNCHANGED <<runVars, pending_signal, permit, dispatcher, shutting_down, accepting,
                   noted, bounds>>

(* ... then db.enqueue: the run is durable before anyone is signalled.      *)
EnqueueWrite(s) ==
    /\ sender[s].pc = "healthy" /\ enqueued < MaxEnqueues
    /\ queue' = [queue EXCEPT ![sender[s].lane] = @ + 1]
    /\ sender' = [sender EXCEPT ![s] = [pc |-> "wrote", lane |-> NULL]]
    /\ enqueued' = enqueued + 1
    /\ UNCHANGED <<delayed, lost, pending_signal, permit, dispatcher, childVars, accepting,
                   parks, faults>>

(* tick_and_reclaim: expired leases go back to the queue, then on_enqueue.  *)
Reclaim(s, l) ==
    /\ sender[s].pc = "idle" /\ accepting
    /\ lost[l] > 0
    /\ queue' = [queue EXCEPT ![l] = @ + lost[l]]
    /\ lost' = [lost EXCEPT ![l] = 0]
    /\ sender' = [sender EXCEPT ![s] = [pc |-> "wrote", lane |-> NULL]]
    /\ UNCHANGED <<delayed, pending_signal, permit, dispatcher, childVars, accepting, bounds>>

(* run_at passes: nobody is signalled. *)
Due(l) ==
    /\ delayed[l] > 0
    /\ queue' = [queue EXCEPT ![l] = @ + delayed[l]]
    /\ delayed' = [delayed EXCEPT ![l] = 0]
    /\ UNCHANGED <<lost, signalVars, dispatcher, childVars, accepting, bounds>>

(* signal(): if !pending_signal.swap(true) ... *)
SignalSwap(s) ==
    /\ sender[s].pc = "wrote"
    /\ pending_signal' = TRUE
    /\ sender' = [sender EXCEPT ![s] =
                    IF pending_signal THEN IdleSender ELSE [pc |-> "swapped", lane |-> NULL]]
    /\ UNCHANGED <<runVars, permit, dispatcher, childVars, accepting, bounds>>

(* ... { notify.notify_one() } *)
SignalNotify(s) ==
    /\ sender[s].pc = "swapped"
    /\ permit' = TRUE
    /\ sender' = [sender EXCEPT ![s] = IdleSender]
    /\ UNCHANGED <<runVars, pending_signal, dispatcher, childVars, accepting, bounds>>
-----------------------------------------------------------------------------
(* run_dispatcher *)
Notified ==
    /\ dispatcher = "select" /\ permit
    /\ permit' = FALSE
    /\ dispatcher' = "debounce"
    /\ UNCHANGED <<runVars, pending_signal, sender, childVars, accepting, bounds>>

(* Variant: the flag is never cleared. *)
Debounced_KeepsFlag ==
    /\ dispatcher = "debounce"
    /\ dispatcher' = "check"
    /\ UNCHANGED <<runVars, signalVars, childVars, accepting, bounds>>

(* The flag is cleared before the database is read: a signal that comes     *)
(* after the read finds it cleared and notifies again.                      *)
Debounced ==
    /\ dispatcher = "debounce"
    /\ pending_signal' = FALSE
    /\ dispatcher' = "check"
    /\ UNCHANGED <<runVars, permit, sender, childVars, accepting, bounds>>

(* Variant: no periodic scan. *)
ScanTick_Never ==
    /\ FALSE
    /\ UNCHANGED vars

ScanTick ==
    /\ dispatcher = "select"
    /\ dispatcher' = "check"
    /\ UNCHANGED <<runVars, signalVars, childVars, accepting, bounds>>

(* has_runnable_work looks at the runs of all lanes. *)
Check ==
    /\ dispatcher = "check"
    /\ dispatcher' = IF \E l \in Lanes : queue[l] > 0 THEN "wake" ELSE "select"
    /\ UNCHANGED <<runVars, signalVars, childVars, accepting, bounds>>

LiveIn(l) == {p \in Procs : Reaped[p].pc \in Live /\ child[p].lane = l}

(* Variant: only workers that have finished bootstrapping are counted. *)
Target_Ready(l) ==
    LET live == Cardinality({p \in LiveIn(l) : child[p].pc # "starting"})
    IN  IF LaneWorkers[l] = 0 THEN IF live = 0 THEN 1 ELSE 0
        ELSE IF live < LaneWorkers[l] THEN LaneWorkers[l] - live ELSE 0

(* How many workers wake() spawns in a lane. *)
Target(l) ==
    LET live == Cardinality(LiveIn(l))
    IN  IF LaneWorkers[l] = 0 THEN IF live = 0 THEN 1 ELSE 0
        ELSE IF live < LaneWorkers[l] THEN LaneWorkers[l] - live ELSE 0

NewChild(l) == [NoChild EXCEPT !.pc = "starting", !.lane = l]

(* spawn_one_locked for every process in DOMAIN f. *)
Spawned(f) == [p \in Procs |-> IF p \in DOMAIN f THEN NewChild(f[p]) ELSE Reaped[p]]

Assignments == UNION {[S -> Lanes] : S \in SUBSET {p \in Procs : Reaped[p].pc = "none"}}

CountIn(f, l) == Cardinality({p \in DOMAIN f : f[p] = l})

(* WorkerSupervisor::wake, without effect while shutting down. *)
WakeIgnored ==
    /\ dispatcher = "wake" /\ shutting_down
    /\ dispatcher' = "select"
    /\ UNCHANGED <<runVars, signalVars, childVars, accepting, bounds>>

(* In the cool-down, a cold crash found just now included, nothing is       *)
(* spawned.                                                                 *)
WakeUnhealthy ==
    /\ dispatcher = "wake" /\ ~shutting_down
    /\ unhealthy \/ ColdCrash
    /\ child' = Reaped
    /\ unhealthy' = TRUE
    /\ dispatcher' = "select"
    /\ UNCHANGED <<runVars, signalVars, shutting_down, accepting, noted, bounds>>

WakeSpawns ==
    /\ dispatcher = "wake" /\ ~shutting_down
    /\ ~unhealthy /\ ~ColdCrash
    /\ \E f \in Assignments :
          /\ \A l \in Lanes : CountIn(f, l) = Target(l)
          /\ child' = Spawned(f)
    /\ dispatcher' = "select"
    /\ UNCHANGED <<runVars, signalVars, unhealthy, shutting_down, accepting, noted, bounds>>

(* A spawn fails: the ones before it stay, the cool-down starts.            *)
WakeFails ==
    /\ dispatcher = "wake" /\ ~shutting_down
    /\ ~unhealthy /\ ~ColdCrash
    /\ faults < MaxFaults
    /\ \E f \in Assignments :
          /\ \A l \in Lanes : CountIn(f, l) <= Target(l)
          /\ \E l \in Lanes : CountIn(f, l) < Target(l)
          /\ child' = Spawned(f)
    /\ unhealthy' = TRUE
    /\ dispatcher' = "select"
    /\ faults' = faults + 1
    /\ UNCHANGED <<runVars, signalVars, shutting_down, accepting, noted, enqueued, parks>>

(* The dispatcher takes its shutdown signal at either of its waits.         *)
DispatcherStops ==
    /\ ~accepting /\ dispatcher \in {"select", "debounce"}
    /\ dispatcher' = "stopped"
    /\ UNCHANGED <<runVars, signalVars, childVars, accepting, bounds>>
-----------------------------------------------------------------------------
(* The worker process. *)
Bootstrapped(p) ==
    /\ child[p].pc = "starting"
    /\ child' = [child EXCEPT ![p].pc = "polling"]
    /\ UNCHANGED <<runVars, signalVars, dispatcher, unhealthy, shutting_down, accepting,
                   noted, bounds>>

MayClaim(p) == child[p].pc \in {"polling", "empty"} /\ p \notin noted /\ ~shutting_down

(* The claim commits; the handler goes on to call on_claimed.               *)
Claim(p) ==
    /\ MayClaim(p) /\ accepting
    /\ queue[child[p].lane] > 0
    /\ queue' = [queue EXCEPT ![child[p].lane] = @ - 1]
    /\ child' = [child EXCEPT ![p] = [child[p] EXCEPT !.holding = @ + 1,
                                              !.claimed = TRUE, !.pc = "polling"]]
    /\ noted' = noted \cup {p}
    /\ UNCHANGED <<delayed, lost, signalVars, dispatcher, unhealthy, shutting_down, accepting,
                   bounds>>

(* notify_claimed: the counter is shared by all children, and any claim     *)
(* ends the cool-down.                                                      *)
NotifyClaimed(p) ==
    /\ p \in noted
    /\ noted' = noted \ {p}
    /\ unhealthy' = FALSE
    /\ child' = [q \in Procs |-> IF child[q].pc = "none" THEN child[q]
                                 ELSE [child[q] EXCEPT !.advanced = TRUE]]
    /\ UNCHANGED <<runVars, signalVars, dispatcher, shutting_down, accepting, bounds>>

(* Null: the queue of its lane is empty, or the runtime is draining.        *)
ClaimEmpty(p) ==
    /\ MayClaim(p) /\ child[p].pc = "polling"
    /\ queue[child[p].lane] = 0 \/ ~accepting
    /\ child' = [child EXCEPT ![p].pc = "empty"]
    /\ UNCHANGED <<runVars, signalVars, dispatcher, unhealthy, shutting_down, accepting,
                   noted, bounds>>

(* The idle timeout is over when Null arrives: the loop is left for good,   *)
(* whatever was enqueued meanwhile.                                         *)
IdleOut(p) ==
    /\ child[p].pc = "empty" /\ child[p].holding = 0 /\ p \notin noted
    /\ LaneWorkers[child[p].lane] = 0
    /\ child' = [child EXCEPT ![p].pc = "exiting"]
    /\ UNCHANGED <<runVars, signalVars, dispatcher, unhealthy, shutting_down, accepting,
                   noted, bounds>>

(* The process ends, after idling out or on SIGTERM once its runs are done. *)
Exit(p) ==
    /\ \/ child[p].pc = "exiting"
       \/ child[p].pc \in Live /\ shutting_down /\ child[p].holding = 0
    /\ child' = [child EXCEPT ![p].pc = "exited"]
    /\ UNCHANGED <<runVars, signalVars, dispatcher, unhealthy, shutting_down, accepting,
                   noted, bounds>>

FinishRun(p) ==
    /\ child[p].pc \in Live /\ child[p].holding > 0
    /\ child' = [child EXCEPT ![p].holding = @ - 1]
    /\ UNCHANGED <<runVars, signalVars, dispatcher, unhealthy, shutting_down, accepting,
                   noted, bounds>>

(* defer, wait_for_event with a timeout, fail with a retry *)
ParkRun(p) ==
    /\ child[p].pc \in Live /\ child[p].holding > 0
    /\ parks < MaxParks
    /\ child' = [child EXCEPT ![p].holding = @ - 1]
    /\ delayed' = [delayed EXCEPT ![child[p].lane] = @ + 1]
    /\ parks' = parks + 1
    /\ UNCHANGED <<queue, lost, signalVars, dispatcher, unhealthy, shutting_down, accepting,
                   noted, enqueued, faults>>

Crash(p) ==
    /\ child[p].pc \in Live /\ faults < MaxFaults
    /\ child' = [child EXCEPT ![p].pc = "crashed", ![p].holding = 0]
    /\ lost' = [lost EXCEPT ![child[p].lane] = @ + child[p].holding]
    /\ faults' = faults + 1
    /\ UNCHANGED <<queue, delayed, signalVars, dispatcher, unhealthy, shutting_down,
                   accepting, noted, enqueued, parks>>
-----------------------------------------------------------------------------
(* retire, stop, replacement and server drain: no new work, cron and        *)
(* dispatcher are told to stop.                                             *)
StopRequested ==
    /\ accepting
    /\ accepting' = FALSE
    /\ UNCHANGED <<runVars, signalVars, dispatcher, childVars, bounds>>

(* begin_drain: at once in a server drain, else after the dispatcher ended. *)
BeginDrain ==
    /\ ~accepting /\ ~shutting_down
    /\ shutting_down' = TRUE
    /\ UNCHANGED <<runVars, signalVars, dispatcher, child, unhealthy, accepting, noted, bounds>>
-----------------------------------------------------------------------------
SenderStep(s) == EnqueueWrite(s) \/ SignalSwap(s) \/ SignalNotify(s)

DispatcherStep ==
    \/ Notified \/ Debounced \/ ScanTick \/ Check
    \/ WakeIgnored \/ WakeUnhealthy \/ WakeSpawns

ClaimStep(p) == Claim(p) \/ NotifyClaimed(p)

HandlerStep(p) == FinishRun(p) \/ ParkRun(p)

Next ==
    \/ Reap \/ CoolDown
    \/ \E s \in Senders, l \in Lanes : HealthCheck(s, l) \/ Reclaim(s, l)
    \/ \E s \in Senders : SenderStep(s)
    \/ \E l \in Lanes : Due(l)
    \/ DispatcherStep \/ WakeFails \/ DispatcherStops
    \/ \E p \in Procs : \/ Bootstrapped(p) \/ ClaimStep(p) \/ ClaimEmpty(p) \/ IdleOut(p)
                        \/ Exit(p) \/ HandlerStep(p) \/ Crash(p)
    \/ StopRequested \/ BeginDrain

Spec == Init /\ [][Next]_vars

(* Tokio runs every task that is ready, timers fire, processes and handlers *)
(* make progress.  Nothing is assumed of callers, crashes or idle timeouts. *)
Fairness ==
    /\ WF_vars(Reap) /\ WF_vars(CoolDown)
    /\ \A s \in Senders : WF_vars(SenderStep(s))
    /\ \A s \in Senders, l \in Lanes : WF_vars(Reclaim(s, l))
    /\ \A l \in Lanes : WF_vars(Due(l))
    /\ WF_vars(DispatcherStep) /\ WF_vars(DispatcherStops) /\ WF_vars(BeginDrain)
    /\ \A p \in Procs : /\ WF_vars(Bootstrapped(p)) /\ WF_vars(ClaimStep(p))
                        /\ WF_vars(Exit(p)) /\ WF_vars(HandlerStep(p))

FairSpec == Spec /\ Fairness
-----------------------------------------------------------------------------
TypeOK ==
    /\ queue \in [Lanes -> Nat] /\ delayed \in [Lanes -> Nat] /\ lost \in [Lanes -> Nat]
    /\ pending_signal \in BOOLEAN /\ permit \in BOOLEAN
    /\ sender \in [Senders -> [pc : {"idle", "healthy", "wrote", "swapped"},
                               lane : Lanes \cup {NULL}]]
    /\ dispatcher \in {"select", "debounce", "check", "wake", "stopped"}
    /\ child \in [Procs -> [pc : {"none"} \cup Live \cup Gone, lane : Lanes \cup {NULL},
                            holding : Nat, claimed : BOOLEAN, advanced : BOOLEAN]]
    /\ unhealthy \in BOOLEAN /\ shutting_down \in BOOLEAN /\ accepting \in BOOLEAN
    /\ noted \subseteq Procs
    /\ enqueued \in 0..MaxEnqueues /\ parks \in 0..MaxParks /\ faults \in 0..MaxFaults

(* Scale to zero loses nothing: a run that is due is claimed, also when it  *)
(* was enqueued while the only worker of its lane was idling out, was       *)
(* crashing or was in the cool-down, unless the runtime is stopped.         *)
Served == \A l \in Lanes : queue[l] > 0 ~> queue[l] = 0 \/ ~accepting

(* A graceful shutdown ends: every worker finishes what it has and exits.   *)
Drained == ~accepting ~> (\A p \in Procs : child[p].pc = "none")

(* "If a worker exits with an error before it can claim any work, Tako      *)
(* stops the immediate respawn loop": when such a worker is reaped the      *)
(* cool-down is on.                                                         *)
(* Does not hold (see the README).                                         *)
ColdCrashNoticed ==
    [][\A p \in Procs :
          /\ child[p].pc = "crashed" /\ child'[p].pc # "crashed"
          /\ ~child[p].claimed /\ ~shutting_down
          => unhealthy']_vars
=============================================================================
