----------------------------- MODULE Instances -----------------------------
(***************************************************************************)
(* The native instances of one app and everything in tako-server that      *)
(* starts, probes, routes to and stops them: the registry and its routing  *)
(* list (instances/app.rs), the spawner, the health checker, the handler   *)
(* of dead instances (runtime_events.rs), idle eviction, cold starts       *)
(* (scaling/), rolling deploys (instances/rolling.rs, operations/deploy.rs *)
(* ), scaling (operations/lifecycle.rs) and the requests of the proxy.     *)
(*                                                                         *)
(* Deploys, scaling and idle eviction exclude each other (management and   *)
(* deploy locks); probes, dead instances, cold starts and requests run     *)
(* beside them.  Time is abstracted: timeouts may pass whenever the code   *)
(* waits.  Instance ids are random and never reused; an id of the model is *)
(* taken again once nothing refers to it.                                  *)
(***************************************************************************)
EXTENDS Integers, FiniteSets, Sequences

CONSTANTS
    Ids,            \* instance ids
    Requests,       \* proxy requests; each may be repeated by its client
    MinInstances,   \* desired instances at the start, 0: on demand
    ScaleTargets,   \* counts the operator may scale to
    MaxCommands,    \* bound: deploys of a new build and scale commands
    MaxFaults,      \* bound: crashes, failed starts, failed probes
    MaxEvictions,   \* bound: idle evictions
    Stops,          \* whether one of the commands may be a stop
    MaxLeaders,     \* bound: cold starts begun that have yet to allocate
    MaxQueued,      \* ColdStartConfig.max_queued_requests
    NULL

ASSUME InstancesAssumption ==
    /\ IsFiniteSet(Ids) /\ IsFiniteSet(Requests) /\ NULL \notin Ids
    /\ MinInstances \in Nat /\ ScaleTargets \subseteq Nat
    /\ {MaxCommands, MaxFaults, MaxEvictions, MaxLeaders,
        MaxQueued} \subseteq Nat
    /\ Stops \in BOOLEAN

VARIABLES
    inst,          \* Instance: state, registration, process, build, spawn task
    check,         \* HealthChecker::check_instance in progress, per instance
    routed,        \* App.healthy_instances
    suppressed,    \* App.routing_suppressed_instances
    config,        \* AppConfig: version and min_instances
    cold,          \* ColdStartManager: AppColdStart.state, "none" without entry
    leaders,       \* cold start tasks that have yet to allocate
    req,           \* proxy requests
    readyEvents,   \* InstanceEvent::Ready in the channel
    healthEvents,  \* HealthEvent channel, one consumer
    handler,       \* that consumer: replace_instance_if_needed
    evictor,       \* handle_idle_event
    operator,      \* the deploy, scale or stop command that holds the locks
    used           \* how much of each bound was used; sick: a probe took an
                   \* instance out of routing or reported it dead; stuck: a command left an
                   \* instance without process that counts as running

vars == <<inst, check, routed, suppressed, config, cold, leaders, req, readyEvents,
          healthEvents, handler, evictor, operator, used>>

coldVars == <<cold, leaders, req>>
events   == <<readyEvents, healthEvents>>
actors   == <<handler, evictor, operator>>
-----------------------------------------------------------------------------
Running == {"Starting", "Ready", "Healthy"}
States  == Running \cup {"Unhealthy", "Draining", "Stopped"}

NoInst == [st |-> "Stopped", reg |-> FALSE, proc |-> "none", build |-> 0, spawn |-> "none"]
NoCheck == [st |-> "none", probe |-> "none"]
NoRequest == [pc |-> "idle", inst |-> NULL]
Resting == [pc |-> "idle", inst |-> NULL, replace |-> FALSE]
NoOp == [pc |-> "idle", mode |-> "none", todo |-> 0, old |-> {}, new |-> {}, cur |-> NULL,
         window |-> "none", saved |-> [version |-> 1, min |-> MinInstances]]

Registered == {i \in Ids : inst[i].reg}
OfBuild(b) == {i \in Registered : inst[i].build = b}
Count(S)   == Cardinality({i \in Registered : inst[i].st \in S})
InFlight(i) == {r \in Requests : req[r].pc = "active" /\ req[r].inst = i}

(* An id nothing refers to. *)
Unused(i) ==
    /\ ~inst[i].reg /\ inst[i].spawn = "none" /\ inst[i].proc # "up"
    /\ check[i] = NoCheck /\ i \notin routed \cup readyEvents
    /\ \A k \in 1..Len(healthEvents) : healthEvents[k].inst # i
    /\ \A r \in Requests : req[r].inst # i
    /\ i \notin operator.old \cup operator.new
    /\ i \notin {operator.cur, handler.inst, evictor.inst}

(* Deployed with MinInstances healthy instances of build 1, or idle.        *)
Init ==
    /\ \E S \in SUBSET Ids :
          /\ Cardinality(S) = MinInstances
          /\ inst = [i \in Ids |-> IF i \in S
                        THEN [NoInst EXCEPT !.st = "Healthy", !.reg = TRUE, !.proc = "up",
                                            !.build = 1]
                        ELSE NoInst]
          /\ routed = S
    /\ check = [i \in Ids |-> NoCheck] /\ suppressed = {}
    /\ config = [version |-> 1, min |-> MinInstances]
    /\ cold = "none" /\ leaders = 0
    /\ req = [r \in Requests |-> NoRequest]
    /\ readyEvents = {} /\ healthEvents = <<>>
    /\ handler = Resting /\ evictor = Resting /\ operator = NoOp
    /\ used = [commands |-> 0, faults |-> 0, evictions |-> 0,
               stopped |-> FALSE, sick |-> FALSE, stuck |-> FALSE]
-----------------------------------------------------------------------------
(* Variant: suppression is not looked at. *)
Routing_Unsuppressed(i, s) ==
    IF s = "Healthy" THEN routed \cup {i}
    ELSE IF inst[i].st = "Healthy" THEN routed \ {i} ELSE routed

(* App: set_instance_state, also called by set_instance_health_state unless *)
(* the instance is draining or stopped; routing follows the transition.     *)
Routing(i, s) ==
    IF s = "Healthy"
    THEN IF inst[i].st # "Healthy" /\ i \notin suppressed THEN routed \cup {i} ELSE routed
    ELSE IF inst[i].st = "Healthy" THEN routed \ {i} ELSE routed

HealthLocked(i) == inst[i].st \in {"Draining", "Stopped"}

Allocated(i) == [inst EXCEPT ![i] = [NoInst EXCEPT !.st = "Starting", !.reg = TRUE,
                                                   !.build = config.version,
                                                   !.spawn = "alloc"]]

(* Instance::kill: killing a child whose exit was already observed is an    *)
(* error and changes nothing.  Otherwise the raw state becomes Stopped; the *)
(* routing list is left to remove_instance.                                 *)
KillFails(i) == inst[i].proc = "reaped"
Killed(i) == IF KillFails(i) THEN inst
             ELSE [inst EXCEPT ![i].proc = "none", ![i].st = "Stopped"]

(* remove_instance, of an instance that is registered. *)
Removed(i) == [inst EXCEPT ![i].reg = FALSE]
RoutedWithout(i) == IF inst[i].reg THEN routed \ {i} ELSE routed
SuppressedWithout(i) == IF inst[i].reg THEN suppressed \ {i} ELSE suppressed

(* wait_for_ready makes the state Ready and returns, the spawn task makes it *)
(* Healthy: adjacent statements, no await between.  A probe may look there; *)
(* an idle timeout or a trip through the event channel takes longer.        *)
Settling(i) == inst[i].spawn = "ready"

Fault == /\ used.faults < MaxFaults
         /\ used' = [used EXCEPT !.faults = @ + 1]
-----------------------------------------------------------------------------
(* ColdStartManager.  Requests only wait while the state is Starting, and   *)
(* all of them on the broadcast channel of that attempt.                    *)
Answered(pc) == [r \in Requests |-> IF req[r].pc = "waiting" THEN [req[r] EXCEPT !.pc = pc]
                                    ELSE req[r]]

MarkReady ==
    /\ cold' = IF cold = "none" THEN "none" ELSE "Ready"
    /\ req' = Answered("ready")
    /\ UNCHANGED leaders

MarkFailed ==
    /\ cold' = IF cold = "none" THEN "none" ELSE "Failed"
    /\ req' = Answered("idle")
    /\ UNCHANGED leaders

Reset ==
    /\ cold' = "none"
    /\ req' = Answered("idle")
    /\ UNCHANGED leaders
-----------------------------------------------------------------------------
(* Requests: resolve_backend.  Without a backend and with min_instances     *)
(* above 0 the request is refused and nothing changes.                      *)
Pick(r) ==
    /\ req[r].pc = "idle"
    /\ \E i \in routed : req' = [req EXCEPT ![r] = [pc |-> "picked", inst |-> i]]
    /\ UNCHANGED <<inst, check, routed, suppressed, config, cold, leaders, events, actors, used>>

Begin(r) ==
    /\ req[r].pc = "idle" /\ routed = {} /\ config.min = 0 /\ leaders < MaxLeaders
    /\ req' = [req EXCEPT ![r].pc = "begun"]
    /\ cold' = IF cold \in {"none", "Failed"} THEN "Starting" ELSE cold
    /\ leaders' = IF cold \in {"none", "Failed"} THEN leaders + 1 ELSE leaders
    /\ UNCHANGED <<inst, check, routed, suppressed, config, events, actors, used>>

(* wait_for_ready_outcome, a second acquisition of the lock. *)
Wait(r) ==
    LET queued == Cardinality({q \in Requests : req[q].pc = "waiting"})
        next == IF cold = "Ready" THEN "ready"
                ELSE IF cold = "Starting" /\ queued < MaxQueued THEN "waiting"
                ELSE "idle"
    IN  /\ req[r].pc = "begun"
        /\ req' = [req EXCEPT ![r].pc = next]
        /\ UNCHANGED <<inst, check, routed, suppressed, config, cold, leaders, events, actors,
                       used>>

WaitTimesOut(r) ==
    /\ req[r].pc = "waiting"
    /\ req' = [req EXCEPT ![r].pc = "idle"]
    /\ UNCHANGED <<inst, check, routed, suppressed, config, cold, leaders, events, actors, used>>

(* Told that an instance is ready, the request looks for it. *)
Resume(r) ==
    /\ req[r].pc = "ready"
    /\ \/ \E i \in routed : req' = [req EXCEPT ![r] = [pc |-> "picked", inst |-> i]]
       \/ routed = {} /\ req' = [req EXCEPT ![r].pc = "idle"]
    /\ UNCHANGED <<inst, check, routed, suppressed, config, cold, leaders, events, actors, used>>

(* upstream_request_filter: the connection is there, the request counts.    *)
Start(r) ==
    /\ req[r].pc = "picked" /\ inst[req[r].inst].proc = "up"
    /\ req' = [req EXCEPT ![r].pc = "active"]
    /\ UNCHANGED <<inst, check, routed, suppressed, config, cold, leaders, events, actors, used>>

Finish(r) ==
    /\ req[r].pc = "active" /\ inst[req[r].inst].proc = "up"
    /\ req' = [req EXCEPT ![r] = [pc |-> "served", inst |-> NULL]]
    /\ UNCHANGED <<inst, check, routed, suppressed, config, cold, leaders, events, actors, used>>

(* The process is gone: the connection fails or breaks. *)
Broken(r) ==
    /\ req[r].pc \in {"picked", "active"} /\ inst[req[r].inst].proc # "up"
    /\ req' = [req EXCEPT ![r] = NoRequest]
    /\ UNCHANGED <<inst, check, routed, suppressed, config, cold, leaders, events, actors, used>>
-----------------------------------------------------------------------------
(* Spawner::spawn, run by whoever allocated the instance. *)
SpawnProcess(i) ==
    /\ inst[i].spawn = "alloc"
    /\ inst' = [inst EXCEPT ![i].proc = "up", ![i].st = "Starting", ![i].spawn = "started"]
    /\ routed' = Routing(i, "Starting")
    /\ UNCHANGED <<check, suppressed, config, coldVars, events, actors, used>>

SpawnError(i) ==
    /\ inst[i].spawn = "alloc" /\ Fault
    /\ inst' = [inst EXCEPT ![i].spawn = "failed"]
    /\ UNCHANGED <<check, routed, suppressed, config, coldVars, events, actors>>

(* wait_for_ready reads the port from fd 4 and sets the raw state. *)
SpawnReady(i) ==
    /\ inst[i].spawn = "started" /\ inst[i].proc = "up"
    /\ inst' = [inst EXCEPT ![i].st = "Ready", ![i].spawn = "ready"]
    /\ UNCHANGED <<check, routed, suppressed, config, coldVars, events, actors, used>>

SpawnHealthy(i) ==
    /\ inst[i].spawn = "ready"
    /\ inst' = [inst EXCEPT ![i].st = "Healthy", ![i].spawn = "ok"]
    /\ routed' = Routing(i, "Healthy")
    /\ readyEvents' = readyEvents \cup {i}
    /\ UNCHANGED <<check, suppressed, config, coldVars, healthEvents, actors, used>>

(* The process exited or the startup timeout passed: the child is taken and *)
(* waited for, the instance is unhealthy, then killed.                      *)
SpawnAborts(i) ==
    /\ inst[i].spawn = "started"
    /\ \/ inst[i].proc # "up" /\ UNCHANGED used
       \/ inst[i].proc = "up" /\ Fault
    /\ inst' = [inst EXCEPT ![i].st = "Unhealthy", ![i].proc = "none", ![i].spawn = "abort"]
    /\ routed' = Routing(i, "Unhealthy")
    /\ UNCHANGED <<check, suppressed, config, coldVars, events, actors>>

SpawnKills(i) ==
    /\ inst[i].spawn = "abort"
    /\ inst' = [inst EXCEPT ![i].st = "Stopped", ![i].spawn = "failed"]
    /\ UNCHANGED <<check, routed, suppressed, config, coldVars, events, actors, used>>

(* The task of the cold start's leader. *)
ColdAllocate ==
    /\ leaders > 0
    /\ leaders' = leaders - 1
    /\ \E i \in Ids : Unused(i) /\ inst' = Allocated(i)
    /\ UNCHANGED <<check, routed, suppressed, config, cold, req, events, actors, used>>

Done(i) == inst[i].spawn \in {"ok", "failed"}

ColdOwned(i) == i \notin {handler.inst, operator.cur}

ColdFinished(i) ==
    /\ ColdOwned(i) /\ inst[i].spawn = "ok"
    /\ inst' = [inst EXCEPT ![i].spawn = "none"]
    /\ UNCHANGED <<check, routed, suppressed, config, coldVars, events, actors, used>>

ColdFailed(i) ==
    /\ ColdOwned(i) /\ inst[i].spawn = "failed"
    /\ inst' = [inst EXCEPT ![i].spawn = "none", ![i].reg = FALSE]
    /\ routed' = RoutedWithout(i) /\ suppressed' = SuppressedWithout(i)
    /\ MarkFailed
    /\ UNCHANGED <<check, config, events, actors, used>>

Crash(i) ==
    /\ inst[i].proc = "up" /\ Fault
    /\ inst' = [inst EXCEPT ![i].proc = "exited"]
    /\ UNCHANGED <<check, routed, suppressed, config, coldVars, events, actors>>
-----------------------------------------------------------------------------
(* The stability window of a candidate is longer than a round of probes:    *)
(* one that begins in it also ends in it.                                   *)
Window(i, before, after) ==
    IF operator.pc = "settle" /\ operator.cur = i /\ operator.window = before
    THEN [operator EXCEPT !.window = after] ELSE operator

(* HealthChecker::check_instance: the state is read, the process and the    *)
(* endpoint are probed, the result is applied.  The failure thresholds are  *)
(* abstracted: a failed probe may or may not be the one that reaches them.  *)
CheckBegin(i) ==
    /\ inst[i].reg /\ check[i] = NoCheck
    /\ inst[i].st \in {"Ready", "Healthy", "Unhealthy"}
    /\ check' = [check EXCEPT ![i] = [st |-> inst[i].st, probe |-> "pending"]]
    /\ operator' = Window(i, "open", "probing")
    /\ UNCHANGED <<inst, routed, suppressed, config, coldVars, events, handler, evictor, used>>

ProbeOk(i) ==
    /\ check[i].probe = "pending" /\ inst[i].proc = "up"
    /\ check' = [check EXCEPT ![i].probe = "ok"]
    /\ UNCHANGED <<inst, routed, suppressed, config, coldVars, events, actors, used>>

ProbeFails(i) ==
    /\ check[i].probe = "pending" /\ inst[i].proc = "up" /\ Fault
    /\ check' = [check EXCEPT ![i].probe = "failed"]
    /\ UNCHANGED <<inst, routed, suppressed, config, coldVars, events, actors>>

(* For the properties: the probe took an instance out of routing, or        *)
(* reported one dead that is registered and no candidate of a rollout.      *)
Noted(i) ==
    LET dead == /\ inst[i].reg /\ i \notin suppressed
                /\ healthEvents' # healthEvents /\ inst'[i].st = "Stopped"
    IN  used' = [used EXCEPT !.sick = @ \/ dead \/ ~(routed \subseteq routed')]

(* set_instance_health_state and the event that goes with it. *)
Applied(i, s, event) ==
    IF HealthLocked(i) THEN UNCHANGED <<inst, routed, healthEvents>>
    ELSE /\ inst' = [inst EXCEPT ![i].st = s]
         /\ routed' = Routing(i, s)
         /\ healthEvents' = IF event = "none" THEN healthEvents
                            ELSE Append(healthEvents, [kind |-> event, inst |-> i])

(* is_alive is false: a child that exited is reaped by this look. *)
CheckExited(i) ==
    /\ check[i].probe = "pending" /\ inst[i].proc # "up"
    /\ LET reaped == [inst[i] EXCEPT !.proc = IF @ = "exited" THEN "reaped" ELSE @]
       IN  IF HealthLocked(i)
           THEN /\ inst' = [inst EXCEPT ![i] = reaped]
                /\ UNCHANGED <<routed, healthEvents>>
           ELSE /\ inst' = [inst EXCEPT ![i] = [reaped EXCEPT !.st = "Stopped"]]
                /\ routed' = Routing(i, "Stopped")
                /\ healthEvents' = Append(healthEvents, [kind |-> "Dead", inst |-> i])
    /\ check' = [check EXCEPT ![i] = NoCheck]
    /\ operator' = Window(i, "probing", "probed")
    /\ Noted(i)
    /\ UNCHANGED <<suppressed, config, coldVars, readyEvents, handler, evictor>>

CheckOk(i) ==
    /\ check[i].probe = "ok"
    /\ IF check[i].st = "Healthy" THEN UNCHANGED <<inst, routed, healthEvents>>
       ELSE Applied(i, "Healthy", IF check[i].st = "Ready" THEN "Healthy" ELSE "none")
    /\ check' = [check EXCEPT ![i] = NoCheck]
    /\ operator' = Window(i, "probing", "probed")
    /\ Noted(i)
    /\ UNCHANGED <<suppressed, config, coldVars, readyEvents, handler, evictor>>

CheckFailed(i) ==
    /\ check[i].probe = "failed"
    /\ \E s \in IF i \in suppressed THEN {"Unhealthy"}
                ELSE {check[i].st, "Unhealthy", "Stopped"} :
          IF s = check[i].st THEN UNCHANGED <<inst, routed, healthEvents>>
          ELSE Applied(i, s, IF s = "Stopped" THEN "Dead" ELSE "none")
    /\ check' = [check EXCEPT ![i] = NoCheck]
    /\ operator' = Window(i, "probing", "probed")
    /\ Noted(i)
    /\ UNCHANGED <<suppressed, config, coldVars, readyEvents, handler, evictor>>
-----------------------------------------------------------------------------
(* handle_instance_event *)
HandleReady(i) ==
    /\ i \in readyEvents
    /\ readyEvents' = readyEvents \ {i}
    /\ MarkReady
    /\ UNCHANGED <<inst, check, routed, suppressed, config, healthEvents, actors, used>>

(* handle_health_event, one event at a time. *)
NextEvent(kind) ==
    /\ handler.pc = "idle" /\ healthEvents # <<>> /\ Head(healthEvents).kind = kind
    /\ healthEvents' = Tail(healthEvents)

HandleHealthy ==
    /\ NextEvent("Healthy")
    /\ MarkReady
    /\ UNCHANGED <<inst, check, routed, suppressed, config, readyEvents, actors, used>>

(* A candidate of a rollout, or an instance removed meanwhile, is left      *)
(* alone.  Otherwise it is replaced if its build would fall below the       *)
(* minimum, and only the current build has one.                             *)
HandleDead ==
    LET i == Head(healthEvents).inst
        atLeast == IF inst[i].build = config.version THEN config.min ELSE 0
    IN  /\ NextEvent("Dead") /\ ~Settling(i)
        /\ IF i \in suppressed \/ ~inst[i].reg
           THEN UNCHANGED <<handler, coldVars>>
           ELSE /\ MarkFailed
                /\ handler' = [pc |-> "kill", inst |-> i,
                               replace |-> Cardinality(OfBuild(inst[i].build)) <= atLeast]
        /\ UNCHANGED <<inst, check, routed, suppressed, config, readyEvents, evictor, operator,
                       used>>

HandlerKills ==
    /\ handler.pc = "kill"
    /\ inst' = Killed(handler.inst)
    /\ handler' = [handler EXCEPT !.pc = "remove"]
    /\ UNCHANGED <<check, routed, suppressed, config, coldVars, events, evictor, operator, used>>

HandlerRemoves ==
    /\ handler.pc = "remove"
    /\ inst' = Removed(handler.inst)
    /\ routed' = RoutedWithout(handler.inst)
    /\ suppressed' = SuppressedWithout(handler.inst)
    /\ handler' = IF handler.replace THEN [handler EXCEPT !.pc = "alloc", !.inst = NULL]
                  ELSE Resting
    /\ UNCHANGED <<check, config, coldVars, events, evictor, operator, used>>

(* The replacement is of the build configured now. *)
HandlerAllocates ==
    /\ handler.pc = "alloc"
    /\ \E i \in Ids : /\ Unused(i)
                      /\ inst' = Allocated(i)
                      /\ handler' = [handler EXCEPT !.pc = "spawn", !.inst = i]
    /\ UNCHANGED <<check, routed, suppressed, config, coldVars, events, evictor, operator, used>>

HandlerSpawned ==
    LET i == handler.inst
    IN  /\ handler.pc = "spawn" /\ Done(i)
        /\ IF inst[i].spawn = "ok"
           THEN /\ inst' = [inst EXCEPT ![i].spawn = "none"]
                /\ UNCHANGED <<routed, suppressed>>
           ELSE /\ inst' = [inst EXCEPT ![i].spawn = "none", ![i].reg = FALSE]
                /\ routed' = RoutedWithout(i)
                /\ suppressed' = SuppressedWithout(i)
        /\ handler' = Resting
        /\ UNCHANGED <<check, config, coldVars, events, evictor, operator, used>>
-----------------------------------------------------------------------------
(* handle_idle_event.  The monitor's own findings are all looked at again   *)
(* under the locks, so its events carry nothing but the wish.               *)
Evict(i) ==
    /\ evictor.pc = "idle" /\ operator.pc = "idle" /\ used.evictions < MaxEvictions
    /\ inst[i].reg /\ inst[i].st = "Healthy" /\ ~Settling(i)
    /\ Count({"Healthy"}) > config.min /\ InFlight(i) = {}
    /\ evictor' = [evictor EXCEPT !.pc = "kill", !.inst = i]
    /\ used' = [used EXCEPT !.evictions = @ + 1]
    /\ UNCHANGED <<inst, check, routed, suppressed, config, coldVars, events, handler, operator>>

EvictKills ==
    /\ evictor.pc = "kill"
    /\ inst' = Killed(evictor.inst)
    /\ evictor' = [evictor EXCEPT !.pc = "remove"]
    /\ UNCHANGED <<check, routed, suppressed, config, coldVars, events, handler, operator, used>>

EvictRemoves ==
    LET i == evictor.inst
        left == {j \in Registered \ {i} : inst[j].st \in Running}
    IN  /\ evictor.pc = "remove"
        /\ inst' = Removed(i)
        /\ routed' = RoutedWithout(i) /\ suppressed' = SuppressedWithout(i)
        /\ IF left = {} /\ config.min = 0 THEN Reset ELSE UNCHANGED coldVars
        /\ evictor' = Resting
        /\ UNCHANGED <<check, config, events, handler, operator, used>>

(* Variant: the app is never found idle. *)
AppIdle_Never ==
    /\ FALSE
    /\ UNCHANGED vars

AppIdle ==
    /\ evictor.pc = "idle" /\ operator.pc = "idle"
    /\ config.min = 0 /\ Count(Running) = 0
    /\ Reset
    /\ UNCHANGED <<inst, check, routed, suppressed, config, events, actors, used>>
-----------------------------------------------------------------------------
(* Deploys and scaling, under the management and deploy locks. *)
Locked == operator.pc # "idle" \/ evictor.pc # "idle"

AtLeastOne == IF config.min = 0 THEN 1 ELSE config.min

Fail(pc) == [operator EXCEPT !.pc = pc, !.cur = NULL, !.window = "none"]

(* deploy: the new configuration takes effect before anything is started.   *)
Deploy ==
    /\ ~Locked /\ used.commands < MaxCommands
    /\ operator' = [NoOp EXCEPT !.pc = "prepare", !.saved = config]
    /\ config' = [config EXCEPT !.version = @ + 1]
    /\ used' = [used EXCEPT !.commands = @ + 1]
    /\ UNCHANGED <<inst, check, routed, suppressed, coldVars, events, handler, evictor>>

(* After certificates and workflows: without instances the app is started   *)
(* (one warm instance if it is on demand), else RollingUpdater::update.     *)
Prepared ==
    /\ operator.pc = "prepare"
    /\ operator' = [operator EXCEPT !.pc = "next", !.todo = AtLeastOne, !.old = Registered,
                                    !.mode = IF Registered = {} THEN "fresh" ELSE "rollout"]
    /\ UNCHANGED <<inst, check, routed, suppressed, config, coldVars, events, handler, evictor,
                   used>>

(* scale_app *)
Scale(n) ==
    LET candidates == {i \in Registered : inst[i].st \in Running}
        running == Cardinality(candidates)
    IN  /\ ~Locked /\ used.commands < MaxCommands
        /\ config' = [config EXCEPT !.min = n]
        /\ \E old \in SUBSET candidates :
              /\ Cardinality(old) = IF running > n THEN running - n ELSE 0
              /\ operator' = [NoOp EXCEPT !.mode = "scale", !.saved = config, !.old = old,
                                          !.pc = IF n > running THEN "next" ELSE "drain",
                                          !.todo = IF n > running THEN n - running ELSE 0]
        /\ used' = [used EXCEPT !.commands = @ + 1]
        /\ UNCHANGED <<inst, check, routed, suppressed, coldVars, events, handler, evictor>>

(* stop_app: every instance goes at once, whatever it is doing.  The cold   *)
(* start is left as it is.                                                  *)
Stop ==
    /\ ~Locked /\ Stops /\ used.commands < MaxCommands
    /\ operator' = [NoOp EXCEPT !.mode = "stop", !.pc = "drain", !.saved = config,
                                !.old = Registered]
    /\ used' = [used EXCEPT !.commands = @ + 1, !.stopped = TRUE]
    /\ UNCHANGED <<inst, check, routed, suppressed, config, coldVars, events, handler, evictor>>

(* A rollout hides its candidates from routing. *)
OpAllocates ==
    /\ operator.pc = "next" /\ operator.todo > 0
    /\ \E i \in Ids :
          /\ Unused(i)
          /\ inst' = Allocated(i)
          /\ suppressed' = IF operator.mode = "rollout" THEN suppressed \cup {i} ELSE suppressed
          /\ operator' = [operator EXCEPT !.pc = "spawn", !.cur = i]
    /\ UNCHANGED <<check, routed, config, coldVars, events, handler, evictor, used>>

OpSpawned ==
    LET i == operator.cur
    IN  /\ operator.pc = "spawn" /\ inst[i].spawn = "ok"
        /\ inst' = [inst EXCEPT ![i].spawn = "none"]
        /\ operator' = IF operator.mode = "rollout"
                       THEN [operator EXCEPT !.pc = "settle", !.new = @ \cup {i},
                                             !.window = "open"]
                       ELSE [operator EXCEPT !.pc = "next", !.new = @ \cup {i}, !.cur = NULL,
                                             !.todo = @ - 1]
        /\ UNCHANGED <<check, routed, suppressed, config, coldVars, events, handler, evictor, used>>

(* A rollout kills all its candidates, scaling those it had started; an     *)
(* instance that failed to start under start_app or scale_app stays         *)
(* registered.                                                              *)
OpSpawnFails ==
    LET i == operator.cur
        forget == operator.mode = "fresh" /\ config.min = 0
    IN  /\ operator.pc = "spawn" /\ inst[i].spawn = "failed"
        /\ inst' = [inst EXCEPT ![i].spawn = "none", ![i].reg = @ /\ ~forget]
        /\ routed' = IF forget THEN RoutedWithout(i) ELSE routed
        /\ operator' = CASE operator.mode = "rollout" -> [Fail("rollback") EXCEPT !.new = @ \cup {i}]
                         [] operator.mode = "scale" -> Fail("rollback")
                         [] operator.mode = "fresh" -> Fail("restore")
        /\ used' = [used EXCEPT !.stuck = @ \/ (/\ operator.mode # "rollout" /\ ~forget
                                                /\ inst[i].st \in Running)]
        /\ UNCHANGED <<check, suppressed, config, coldVars, events, handler, evictor>>

(* wait_for_healthy and the stability window of one candidate.              *)
Settled ==
    /\ operator.pc = "settle"
    /\ inst[operator.cur].st = "Healthy" => operator.window = "probed"
    /\ operator' = IF inst[operator.cur].st = "Healthy"
                   THEN [operator EXCEPT !.pc = "next", !.cur = NULL, !.todo = @ - 1,
                                              !.window = "none"]
                   ELSE Fail("rollback")
    /\ UNCHANGED <<inst, check, routed, suppressed, config, coldVars, events, handler, evictor,
                   used>>

(* Variant: candidates are not looked at once more. *)
Cutover_Blind ==
    /\ operator.pc = "next" /\ operator.todo = 0
    /\ IF operator.mode # "rollout"
       THEN operator' = [operator EXCEPT !.pc = "drain", !.old = {}] /\ UNCHANGED <<routed, suppressed>>
       ELSE /\ routed' = routed \cup {i \in operator.new : inst[i].st = "Healthy"}
            /\ suppressed' = suppressed \ operator.new
            /\ operator' = [operator EXCEPT !.pc = "drain"]
    /\ UNCHANGED <<inst, check, config, coldVars, events, handler, evictor, used>>

(* enable_rollout_routing: all candidates or none, in one critical section. *)
Cutover ==
    /\ operator.pc = "next" /\ operator.todo = 0
    /\ IF operator.mode # "rollout"
       THEN operator' = [operator EXCEPT !.pc = "drain", !.old = {}] /\ UNCHANGED <<routed, suppressed>>
       ELSE IF \A i \in operator.new : inst[i].st = "Healthy"
       THEN /\ routed' = routed \cup operator.new
            /\ suppressed' = suppressed \ operator.new
            /\ operator' = [operator EXCEPT !.pc = "drain"]
       ELSE operator' = Fail("rollback") /\ UNCHANGED <<routed, suppressed>>
    /\ UNCHANGED <<inst, check, config, coldVars, events, handler, evictor, used>>

(* drain_and_stop, drain_and_stop_instance; stop_app does not wait. *)
DrainOne ==
    /\ operator.pc = "drain"
    /\ \E i \in operator.old :
          /\ inst' = [inst EXCEPT ![i].st = "Draining"]
          /\ routed' = Routing(i, "Draining")
          /\ operator' = [operator EXCEPT !.pc = IF operator.mode = "stop" THEN "kill" ELSE "drained",
                                           !.cur = i, !.old = @ \ {i}]
    /\ UNCHANGED <<check, suppressed, config, coldVars, events, handler, evictor, used>>

Drained ==
    /\ operator.pc = "drained" /\ InFlight(operator.cur) = {}
    /\ operator' = [operator EXCEPT !.pc = "kill"]
    /\ UNCHANGED <<inst, check, routed, suppressed, config, coldVars, events, handler, evictor,
                   used>>

DrainTimesOut ==
    /\ operator.pc = "drained" /\ InFlight(operator.cur) # {}
    /\ operator' = [operator EXCEPT !.pc = "kill"]
    /\ UNCHANGED <<inst, check, routed, suppressed, config, coldVars, events, handler, evictor,
                   used>>

(* A kill that fails is debt for a rollout, the end of a scale or stop      *)
(* command.                                                                 *)
OpKills ==
    /\ operator.pc = "kill"
    /\ inst' = Killed(operator.cur)
    /\ operator' = IF operator.mode \in {"scale", "stop"} /\ KillFails(operator.cur) THEN NoOp
                   ELSE [operator EXCEPT !.pc = "remove"]
    /\ UNCHANGED <<check, routed, suppressed, config, coldVars, events, handler, evictor, used>>

OpRemoves ==
    LET i == operator.cur
    IN  /\ operator.pc = "remove"
        /\ inst' = Removed(i)
        /\ routed' = RoutedWithout(i) /\ suppressed' = SuppressedWithout(i)
        /\ operator' = [operator EXCEPT !.pc = "drain", !.cur = NULL]
        /\ UNCHANGED <<check, config, coldVars, events, handler, evictor, used>>

OpFinishes ==
    /\ operator.pc = "drain" /\ operator.old = {}
    /\ IF config.min = 0 /\ operator.mode # "stop" /\ (operator.mode = "scale" => Registered = {})
       THEN Reset ELSE UNCHANGED coldVars
    /\ operator' = NoOp
    /\ UNCHANGED <<inst, check, routed, suppressed, config, events, handler, evictor, used>>

RollbackKills ==
    /\ operator.pc = "rollback"
    /\ \E i \in operator.new :
          /\ inst' = Killed(i)
          /\ operator' = [operator EXCEPT !.pc = "discard", !.cur = i, !.new = @ \ {i}]
    /\ UNCHANGED <<check, routed, suppressed, config, coldVars, events, handler, evictor, used>>

RollbackRemoves ==
    LET i == operator.cur
    IN  /\ operator.pc = "discard"
        /\ inst' = Removed(i)
        /\ routed' = RoutedWithout(i) /\ suppressed' = SuppressedWithout(i)
        /\ operator' = Fail("rollback")
        /\ UNCHANGED <<check, config, coldVars, events, handler, evictor, used>>

(* restore_failed_rollout_snapshot, update_config(previous_config)          *)
Restore ==
    /\ operator.pc \in {"restore", "rollback"}
    /\ operator.pc = "rollback" => operator.new = {}
    /\ config' = operator.saved
    /\ operator' = NoOp
    /\ UNCHANGED <<inst, check, routed, suppressed, coldVars, events, handler, evictor, used>>
-----------------------------------------------------------------------------
RequestStep(r) ==
    \/ Pick(r) \/ Begin(r) \/ Wait(r) \/ Resume(r) \/ Start(r) \/ Finish(r) \/ Broken(r)

SpawnStep(i) ==
    SpawnProcess(i) \/ SpawnReady(i) \/ SpawnHealthy(i) \/ SpawnAborts(i) \/ SpawnKills(i)

ColdStep(i) == ColdFinished(i) \/ ColdFailed(i)

CheckStep(i) ==
    CheckBegin(i) \/ ProbeOk(i) \/ ProbeFails(i) \/ CheckExited(i) \/ CheckOk(i) \/ CheckFailed(i)

HandlerStep ==
    \/ HandleHealthy \/ HandleDead
    \/ HandlerKills \/ HandlerRemoves \/ HandlerAllocates \/ HandlerSpawned

EvictorStep == EvictKills \/ EvictRemoves

OperatorStep ==
    \/ Prepared \/ OpAllocates \/ OpSpawned \/ OpSpawnFails \/ Settled \/ Cutover
    \/ DrainOne \/ Drained \/ OpKills \/ OpRemoves \/ OpFinishes
    \/ RollbackKills \/ RollbackRemoves \/ Restore

Next ==
    \/ \E r \in Requests : RequestStep(r) \/ WaitTimesOut(r)
    \/ \E i \in Ids : \/ SpawnStep(i) \/ SpawnError(i) \/ ColdStep(i) \/ CheckStep(i)
                      \/ Crash(i) \/ HandleReady(i) \/ Evict(i)
    \/ ColdAllocate \/ HandlerStep \/ EvictorStep \/ AppIdle
    \/ OperatorStep \/ DrainTimesOut \/ Deploy \/ Stop
    \/ \E n \in ScaleTargets : Scale(n)

Spec == Init /\ [][Next]_vars

(* Tasks that are ready run, processes that live answer, timeouts pass,     *)
(* clients retry, the idle monitor ticks.                                   *)
Fairness ==
    /\ \A r \in Requests : WF_vars(RequestStep(r)) /\ WF_vars(WaitTimesOut(r))
    /\ \A i \in Ids : /\ WF_vars(SpawnStep(i)) /\ WF_vars(ColdStep(i))
                      /\ WF_vars(CheckStep(i)) /\ WF_vars(HandleReady(i))
    /\ WF_vars(ColdAllocate) /\ WF_vars(HandlerStep) /\ WF_vars(EvictorStep)
    /\ WF_vars(OperatorStep) /\ WF_vars(AppIdle)

FairSpec == Spec /\ Fairness
-----------------------------------------------------------------------------
TypeOK ==
    /\ inst \in [Ids -> [st : States, reg : BOOLEAN, proc : {"none", "up", "exited", "reaped"},
                         build : Nat,
                         spawn : {"none", "alloc", "started", "ready", "abort", "ok", "failed"}]]
    /\ check \in [Ids -> [st : {"none", "Ready", "Healthy", "Unhealthy"},
                          probe : {"none", "pending", "ok", "failed"}]]
    /\ routed \subseteq Ids /\ suppressed \subseteq Ids
    /\ config \in [version : Nat, min : Nat]
    /\ cold \in {"none", "Starting", "Ready", "Failed"} /\ leaders \in Nat
    /\ req \in [Requests -> [pc : {"idle", "begun", "waiting", "ready", "picked", "active",
                                   "served"},
                             inst : Ids \cup {NULL}]]
    /\ readyEvents \subseteq Ids
    /\ healthEvents \in Seq([kind : {"Healthy", "Dead"}, inst : Ids])
    /\ handler \in [pc : {"idle", "kill", "remove", "alloc", "spawn"}, inst : Ids \cup {NULL},
                    replace : BOOLEAN]
    /\ evictor \in [pc : {"idle", "kill", "remove"}, inst : Ids \cup {NULL}, replace : {FALSE}]
    /\ operator.old \subseteq Ids /\ operator.new \subseteq Ids /\ operator.todo \in Nat
    /\ operator.cur \in Ids \cup {NULL}

(* Candidates of a rollout stay hidden from requests until the cutover,     *)
(* whatever the spawner and the prober find out about them meanwhile.       *)
SuppressedHidden == suppressed \cap routed = {}

(* Zero downtime: a rollout - also one whose candidates crash, fail to      *)
(* start or fall ill at any point before the cutover -, scale commands to   *)
(* one or more instances, failed ones too, and idle eviction leave requests *)
(* somewhere to go, unless the app was stopped, a probe took an instance    *)
(* out of routing or reported one dead, or a scale-up whose process could   *)
(* not be spawned left its instance registered as Starting: scale_app       *)
(* counts that one, and the replacement of a dead one, as running.          *)
NoGap == MinInstances > 0 /\ 0 \notin ScaleTargets
         /\ ~used.stopped /\ ~used.sick /\ ~used.stuck => routed # {}

(* An on-demand app can always be reached again: a client that retries is   *)
(* served, whatever crashed, was evicted or was reported late before.       *)
Reachable == \A r \in Requests : <>(req[r].pc = "served")

(* "Mark as draining (load balancer should stop sending new requests)": an  *)
(* instance that is draining does not come back into routing.               *)
DrainingUnrouted ==
    [][\A i \in Ids : inst[i].st = "Draining" /\ i \notin routed => i \notin routed']_vars

(* "deploy rolls back and keeps the previous release serving": when a       *)
(* rollout has been rolled back, no instance of the rejected build is       *)
(* routed to.                                                               *)
(* Does not hold (see the README).                                         *)
KeepsPreviousRelease ==
    [][operator.pc = "rollback" /\ operator.mode = "rollout" /\ operator'.pc = "idle"
       => \A i \in routed' : inst'[i].build <= config'.version]_vars
=============================================================================
