----------------------------- MODULE ServerDrain -----------------------------
(***************************************************************************)
(* Draining and resuming one server whose proxy may run as several         *)
(* processes (an upgrade starts a new one beside the old one).             *)
(*                                                                         *)
(* The processes share three things: the persisted intent `requested`,     *)
(* the operation lock `op` that a drain or a resume holds, and the         *)
(* activity lease: every process with application work holds the lease     *)
(* shared, and a process that finds it free exclusively knows that nobody  *)
(* works.  Inside a process the request registry, the spawn gate, the      *)
(* in-memory flag and the management lock are shared by the proxy, the     *)
(* spawn tasks, the commands and the drain observer.                       *)
(*                                                                         *)
(* Deadlines are not counted: a wait that has a deadline may end by it at  *)
(* any time.  An app is reduced to one instance slot per process and the   *)
(* workflow runtime to one state.  The test for the exclusive lease is     *)
(* instantaneous.                                                          *)
(***************************************************************************)
EXTENDS Naturals, FiniteSets

CONSTANTS
    Procs,          \* processes of the server
    Requests,       \* the proxy requests each process may get
    Deployers,      \* processes that may get deploy, scale and stop commands
    None,           \* nobody holds the operation lock
    MaxCommands,    \* bound: drain, resume and deploy commands
    MaxFaults       \* bound: crashes, failed kills and failed restores

ASSUME NoneAssumption == None \notin Procs
ASSUME BoundAssumption == MaxCommands \in Nat /\ MaxFaults \in Nat

VARIABLES
    requested,   \* server_drain.requested
    op,          \* holder of drain-operation.lock
    activity,    \* processes holding drain-activity.lock shared
    up,          \* processes that run
    flag,        \* ServerState::drain_requested
    http,        \* RequestDrain: admission, active requests, classification
    inst,        \* the instance slot and the spawn task that works on it
    wf,          \* workflow runtime
    task,        \* holder of the management lock and where it is
    obs,         \* drain observer: idle, about to raise the flag, to close
                 \* admission, to read the flag again, waiting for the
                 \* management lock, holding it
    waiting,     \* processes whose prepared drain waits for that lock
    quiet,       \* history: a completed drain was reported and not resumed
    commands, faults

shared == <<requested, op, activity>>
proxy == <<http, inst, wf>>
control == <<task, obs, waiting>>
bounds == <<commands, faults>>
vars == <<requested, op, activity, up, flag, http, inst, wf, task, obs,
          waiting, quiet, commands, faults>>

Kinds == {"none", "startup", "deploy", "drain", "resume", "observer", "reopen",
          "undo"}
Places == {"idle", "read", "check", "work", "gate", "wait", "report",
           "exclusive", "restore", "open", "lower"}
Free == [kind |-> "none", pc |-> "idle", settled |-> FALSE, failed |-> FALSE,
         intent |-> FALSE]
NoHttp == [open |-> TRUE, active |-> {}, long |-> {}, shut |-> {}]
(* The instance slot: registered, with a process, and the spawn task at it;  *)
(* orphan says that a process runs which no registered instance owns, and   *)
(* cut is a history: a command removed the instance of a spawn under way.   *)
NoInst == [reg |-> FALSE, live |-> FALSE, spawn |-> "none", orphan |-> FALSE,
           cut |-> FALSE]
Spawns == {"none", "cold", "replace", "late", "attach", "lost"}

AllRequests == UNION {Requests[p] : p \in Procs}

TypeOK ==
    /\ requested \in BOOLEAN
    /\ op \in Procs \cup {None}
    /\ activity \subseteq up
    /\ up \subseteq Procs
    /\ flag \in [Procs -> BOOLEAN]
    /\ http \in [Procs -> [open : BOOLEAN, active : SUBSET AllRequests,
                           long : SUBSET AllRequests, shut : SUBSET AllRequests]]
    /\ inst \in [Procs -> [reg : BOOLEAN, live : BOOLEAN, spawn : Spawns,
                           orphan : BOOLEAN, cut : BOOLEAN]]
    /\ wf \in [Procs -> {"on", "draining", "gone"}]
    /\ task \in [Procs -> [kind : Kinds, pc : Places, settled : BOOLEAN,
                           failed : BOOLEAN, intent : BOOLEAN]]
    /\ obs \in [Procs -> {"idle", "raise", "close", "check", "lock", "hold"}]
    /\ waiting \subseteq up
    /\ quiet \in BOOLEAN
    /\ commands \in 0..MaxCommands
    /\ faults \in 0..MaxFaults

Init ==
    /\ requested = FALSE
    /\ op = None
    /\ activity = {}
    /\ up = {}
    /\ flag = [p \in Procs |-> FALSE]
    /\ http = [p \in Procs |-> NoHttp]
    /\ inst = [p \in Procs |-> NoInst]
    /\ wf = [p \in Procs |-> "gone"]
    /\ task = [p \in Procs |-> Free]
    /\ obs = [p \in Procs |-> "idle"]
    /\ waiting = {}
    /\ quiet = FALSE
    /\ commands = 0
    /\ faults = 0

-----------------------------------------------------------------------------
(* Request admission: every operation is one critical section of the       *)
(* registry's mutex.                                                       *)

(* The listeners open after startup has restored the apps. *)
Serving(p) == p \in up /\ task[p].kind # "startup"

ShutLong(h) == [h EXCEPT !.open = FALSE, !.shut = @ \cup h.long]
ForceDrain(h) == [h EXCEPT !.open = FALSE, !.shut = @ \cup h.active]

Register(p, r) ==
    /\ Serving(p) /\ ~flag[p]
    /\ http[p].open /\ r \notin http[p].active
    /\ http' = [http EXCEPT ![p].active = @ \cup {r}]
    /\ UNCHANGED <<shared, up, flag, inst, wf, control, quiet, bounds>>

(* Variant: a stream that is recognised during a drain is not shut down. *)
MarkLongLived_Late(p, r) ==
    /\ r \in http[p].active \ http[p].long
    /\ http' = [http EXCEPT ![p].long = @ \cup {r}]
    /\ UNCHANGED <<shared, up, flag, inst, wf, control, quiet, bounds>>

MarkLongLived(p, r) ==
    /\ r \in http[p].active \ http[p].long
    /\ http' = [http EXCEPT ![p].long = @ \cup {r},
                            ![p].shut = IF http[p].open THEN @ ELSE @ \cup {r}]
    /\ UNCHANGED <<shared, up, flag, inst, wf, control, quiet, bounds>>

EndRequest(p, r) ==
    /\ r \in http[p].active
    /\ http' = [http EXCEPT ![p].active = @ \ {r}, ![p].long = @ \ {r},
                            ![p].shut = @ \ {r}]
    /\ UNCHANGED <<shared, up, flag, inst, wf, control, quiet, bounds>>

-----------------------------------------------------------------------------
(* Spawn tasks: a cold start and a replacement hold the read side of the   *)
(* spawn gate from before the drain check to the end of the spawn.         *)

(* try_read fails while a writer holds the gate or waits for it. *)
Writer(p) ==
    \/ task[p].pc = "gate"
    \/ (task[p].pc \in {"wait", "report"} /\ task[p].settled)

TryRead(p) == p \in up /\ inst[p].spawn = "none" /\ ~Writer(p)

ColdStart(p) ==
    /\ TryRead(p) /\ http[p].active # {} /\ ~inst[p].reg
    /\ inst' = [inst EXCEPT ![p].spawn = "cold"]
    /\ UNCHANGED <<shared, up, flag, http, wf, control, quiet, bounds>>

ColdAllocates(p) ==
    /\ inst[p].spawn = "cold"
    /\ inst' = [inst EXCEPT ![p] = IF flag[p] \/ @.reg
                                   THEN [@ EXCEPT !.spawn = "none"]
                                   ELSE [@ EXCEPT !.spawn = "attach", !.reg = TRUE]]
    /\ UNCHANGED <<shared, up, flag, http, wf, control, quiet, bounds>>

(* is_draining(): a persisted intent raises the flag. *)
IsDraining(p) == flag[p] \/ requested

(* An instance was found dead. *)
Replace(p) ==
    /\ TryRead(p) /\ inst[p].reg /\ faults < MaxFaults
    /\ faults' = faults + 1
    /\ inst' = [inst EXCEPT ![p].spawn = "replace", ![p].live = FALSE]
    /\ UNCHANGED <<shared, up, flag, http, wf, control, quiet, commands>>

Replaces(p) ==
    /\ inst[p].spawn \in {"replace", "late"}
    /\ flag' = [flag EXCEPT ![p] = IsDraining(p)]
    /\ inst' = [inst EXCEPT ![p].spawn =
                  IF IsDraining(p) \/ inst[p].spawn = "late" THEN "none" ELSE "attach"]
    /\ UNCHANGED <<shared, up, http, wf, control, quiet, bounds>>

(* kill and remove_instance.  An instance whose spawn has allocated it but  *)
(* not recorded its process has nothing to kill: its spawn goes on without  *)
(* it.  A replacement finds that what it was to replace is gone.            *)
Astray(spawn) ==
    IF spawn = "attach" THEN "lost" ELSE IF spawn = "replace" THEN "late" ELSE spawn

Remove(i) == [i EXCEPT !.reg = FALSE, !.live = FALSE, !.spawn = Astray(i.spawn)]

(* The process is attached to the instance and becomes ready, or the spawn *)
(* fails and its instance is removed.  The spawner does not ask whether the *)
(* instance is still registered, so one that was removed lives on as an     *)
(* orphan, unless its process was recorded in time to be killed.            *)
SpawnEnds(p) ==
    /\ \/ /\ inst[p].spawn = "attach"
          /\ \E on \in BOOLEAN :
                inst' = [inst EXCEPT ![p].spawn = "none", ![p].live = on, ![p].reg = on]
       \/ /\ inst[p].spawn = "lost"
          /\ \E on \in BOOLEAN :
                inst' = [inst EXCEPT ![p].spawn = "none", ![p].orphan = on \/ inst[p].orphan]
    /\ UNCHANGED <<shared, up, flag, http, wf, control, quiet, bounds>>

WorkersGone(p) ==
    /\ wf[p] = "draining"
    /\ wf' = [wf EXCEPT ![p] = "gone"]
    /\ UNCHANGED <<shared, up, flag, http, inst, control, quiet, bounds>>

-----------------------------------------------------------------------------
(* The management lock. *)

Goto(p, place) == task' = [task EXCEPT ![p].pc = place]
Leave(p, place) == task' = [task EXCEPT ![p].pc = place, ![p].settled = FALSE]
Begin(p, k, place) == task' = [task EXCEPT ![p] = [Free EXCEPT !.kind = k, !.pc = place]]
Unlock(p) == task' = [task EXCEPT ![p] = Free]
Finish(p) ==
    /\ Unlock(p)
    /\ obs' = [obs EXCEPT ![p] = IF @ = "hold" THEN "idle" ELSE @]
At(p, k, place) == task[p].kind = k /\ task[p].pc = place
Unlocked(p) == p \in up /\ task[p] = Free

(* Closing a file descriptor releases only a lock this process holds. *)
ReleaseOp(p) == op' = IF op = p THEN None ELSE op

(* restore_apps_from_state_store: an on-demand app is restored without an   *)
(* instance, any other with one; the workflow runtime starts.               *)
RestoreApps(p) ==
    /\ wf' = [wf EXCEPT ![p] = "on"]
    /\ \E on \in BOOLEAN :
          inst' = [inst EXCEPT ![p] = [@ EXCEPT !.reg = on, !.live = on]]

(* Nobody holds the activity lease shared, so it can be had exclusively. *)
Exclusive == activity = {}

(* Startup takes the shared lease before it reads the intent. *)
StartLeases(p) ==
    /\ p \notin up
    /\ up' = up \cup {p}
    /\ activity' = activity \cup {p}
    /\ Begin(p, "startup", "read")
    /\ UNCHANGED <<requested, op, flag, proxy, obs, waiting, quiet, bounds>>

StartReads(p) ==
    /\ At(p, "startup", "read")
    /\ flag' = [flag EXCEPT ![p] = requested]
    /\ activity' = IF requested THEN activity \ {p} ELSE activity
    /\ http' = [http EXCEPT ![p].open = ~requested]
    /\ Goto(p, "check")
    /\ UNCHANGED <<requested, op, up, inst, wf, obs, waiting, quiet, bounds>>

StartRestores(p) ==
    /\ At(p, "startup", "check")
    /\ flag' = [flag EXCEPT ![p] = IsDraining(p)]
    /\ \/ IsDraining(p) /\ UNCHANGED <<inst, wf>>
       \/ ~IsDraining(p) /\ RestoreApps(p)
    /\ Unlock(p)
    /\ UNCHANGED <<shared, up, http, obs, waiting, quiet, bounds>>

(* Any command that starts application work; handle_command checks first. *)
Deploy(p) ==
    /\ p \in Deployers /\ Unlocked(p) /\ commands < MaxCommands
    /\ commands' = commands + 1
    /\ flag' = [flag EXCEPT ![p] = IsDraining(p)]
    /\ IF IsDraining(p) THEN UNCHANGED task ELSE Begin(p, "deploy", "work")
    /\ UNCHANGED <<shared, up, proxy, obs, waiting, quiet, faults>>

(* What a command does under the management lock, without the spawn gate:   *)
(* nothing that lasts, a rolling update (the workflow runtime and a new     *)
(* instance, then drain_and_stop of the old one), or the stop of a scale to *)
(* zero.                                                                    *)
DeployWorks(p) ==
    /\ At(p, "deploy", "work")
    /\ \/ UNCHANGED <<inst, wf>>
       \/ \E on \in BOOLEAN :
             /\ inst' = [inst EXCEPT ![p] =
                           [Remove(inst[p]) EXCEPT !.reg = on, !.live = on,
                               !.cut = inst[p].cut \/ inst[p].spawn = "attach"]]
             /\ wf' = [wf EXCEPT ![p] = IF on THEN "on" ELSE wf[p]]
    /\ Unlock(p)
    /\ UNCHANGED <<shared, up, flag, http, obs, waiting, quiet, bounds>>

-----------------------------------------------------------------------------
(* drain_runtime_with_cleanup_until: stop the work of this process. *)

Cleanup(p) == task[p].kind \in {"drain", "resume", "observer", "reopen", "undo"}

(* It begins by closing admission, whoever calls it. *)
EnterCleanup(p, k, intent) ==
    /\ task' = [task EXCEPT ![p] = [Free EXCEPT !.kind = k, !.pc = "gate", !.intent = intent]]
    /\ flag' = [flag EXCEPT ![p] = TRUE]
    /\ http' = [http EXCEPT ![p] = ShutLong(@)]

(* The gate is taken for writing, or a spawn outlives the deadline. *)
GatePassed(p) ==
    /\ Cleanup(p) /\ task[p].pc = "gate"
    /\ task' = [task EXCEPT ![p].pc = "wait",
                            ![p].settled = (inst[p].spawn = "none")]
    /\ wf' = [wf EXCEPT ![p] = IF @ = "on" THEN "draining" ELSE @]
    /\ UNCHANGED <<shared, up, flag, http, inst, obs, waiting, quiet, bounds>>

(* Variant: the placeholder of a spawn in progress is killed and removed. *)
Stop_Placeholder(p) ==
    /\ Cleanup(p) /\ task[p].pc = "wait"
    /\ http' = [http EXCEPT ![p] = IF @.active = {} THEN @ ELSE ForceDrain(@)]
    /\ inst' = [inst EXCEPT ![p] = Remove(inst[p])]
    /\ task' = [task EXCEPT ![p].pc = "report", ![p].failed = ~task[p].settled]
    /\ UNCHANGED <<shared, up, flag, wf, obs, waiting, quiet, bounds>>

(* All work ended by itself, or the deadline passed and the rest is forced. *)
(* Instances are killed and removed only under the gate; a kill may fail.   *)
Stop(p) ==
    /\ Cleanup(p) /\ task[p].pc = "wait"
    /\ http' = [http EXCEPT ![p] = IF @.active = {} THEN @ ELSE ForceDrain(@)]
    /\ \/ /\ inst' = IF task[p].settled THEN [inst EXCEPT ![p] = Remove(inst[p])] ELSE inst
          /\ task' = [task EXCEPT ![p].pc = "report", ![p].failed = ~task[p].settled]
          /\ UNCHANGED faults
       \/ /\ task[p].settled /\ inst[p].reg /\ faults < MaxFaults
          /\ faults' = faults + 1
          /\ task' = [task EXCEPT ![p].pc = "report", ![p].failed = TRUE]
          /\ UNCHANGED inst
    /\ UNCHANGED <<shared, up, flag, wf, obs, waiting, quiet, commands>>

Clean(p) ==
    /\ ~task[p].failed /\ ~inst[p].reg
    /\ http[p].active = {} /\ wf[p] = "gone"

(* A complete report gives the lease back; then by the caller. *)
Report(p) ==
    /\ Cleanup(p) /\ task[p].pc = "report"
    /\ activity' = IF Clean(p) THEN activity \ {p} ELSE activity
    /\ \/ /\ Clean(p) /\ task[p].kind = "drain"
          /\ Leave(p, "exclusive")
          /\ UNCHANGED <<op, obs>>
       \/ /\ Clean(p) /\ task[p].kind \in {"resume", "reopen"}
          /\ Leave(p, "restore")
          /\ UNCHANGED <<op, obs>>
       \/ /\ ~Clean(p) \/ task[p].kind \in {"observer", "undo"}
          /\ Finish(p)
          /\ IF task[p].kind = "observer" THEN UNCHANGED op ELSE ReleaseOp(p)
    /\ UNCHANGED <<requested, up, flag, proxy, waiting, quiet, bounds>>

-----------------------------------------------------------------------------
(* The drain command. *)

(* prepare_server_drain: the intent is persisted under the operation lock,  *)
(* before the management lock is asked for.                                 *)
PrepareServerDrain(p) ==
    /\ Serving(p) /\ op = None /\ commands < MaxCommands
    /\ commands' = commands + 1
    /\ op' = p
    /\ requested' = TRUE
    /\ flag' = [flag EXCEPT ![p] = TRUE]
    /\ http' = [http EXCEPT ![p] = ShutLong(@)]
    /\ waiting' = waiting \cup {p}
    /\ UNCHANGED <<activity, up, inst, wf, task, obs, quiet, faults>>

DrainLocks(p) ==
    /\ p \in waiting /\ Unlocked(p)
    /\ waiting' = waiting \ {p}
    /\ EnterCleanup(p, "drain", FALSE)
    /\ UNCHANGED <<shared, up, inst, wf, obs, quiet, bounds>>

(* The deadline passes under another management operation. *)
DrainGivesUp(p) ==
    /\ p \in waiting /\ task[p] # Free
    /\ waiting' = waiting \ {p}
    /\ http' = [http EXCEPT ![p] = ForceDrain(@)]
    /\ ReleaseOp(p)
    /\ UNCHANGED <<requested, activity, up, flag, inst, wf, task, obs, quiet, bounds>>

(* Variant: the processes beside this one are not asked. *)
DrainReports_Local(p) ==
    /\ At(p, "drain", "exclusive")
    /\ quiet' = TRUE
    /\ Unlock(p)
    /\ ReleaseOp(p)
    /\ UNCHANGED <<requested, activity, up, flag, proxy, obs, waiting, bounds>>

(* finish_server_drain: completed only if nobody holds the lease. *)
DrainReports(p) ==
    /\ At(p, "drain", "exclusive")
    /\ \/ Exclusive /\ quiet' = TRUE
       \/ ~Exclusive /\ UNCHANGED quiet
    /\ Unlock(p)
    /\ ReleaseOp(p)
    /\ UNCHANGED <<requested, activity, up, flag, proxy, obs, waiting, bounds>>

-----------------------------------------------------------------------------
(* The resume command and the restore it shares with the observer. *)

ResumeServer(p) ==
    /\ Unlocked(p) /\ op = None /\ commands < MaxCommands
    /\ commands' = commands + 1
    /\ \/ ~IsDraining(p) /\ UNCHANGED <<op, task, flag, http>>
       \/ /\ IsDraining(p)
          /\ op' = p
          /\ EnterCleanup(p, "resume", requested)
    /\ UNCHANGED <<requested, activity, up, inst, wf, obs, waiting, quiet, faults>>

(* Variant: the restored runtime is not announced to the other processes. *)
Restore_NoLease(p) ==
    /\ task[p].pc = "restore"
    /\ task[p].intent => activity = {}
    /\ quiet' = (quiet /\ ~task[p].intent)
    /\ wf' = [wf EXCEPT ![p] = "on"]
    /\ inst' = [inst EXCEPT ![p] = [@ EXCEPT !.reg = TRUE, !.live = TRUE]]
    /\ Goto(p, "open")
    /\ UNCHANGED <<shared, up, flag, http, obs, waiting, bounds>>

(* Both reach here with the operation lock; a persisted intent needs the    *)
(* exclusive lease first.  The restore takes the shared lease.              *)
Restore(p) ==
    /\ task[p].pc = "restore"
    /\ \/ /\ task[p].intent /\ ~Exclusive
          /\ Finish(p) /\ ReleaseOp(p)
          /\ UNCHANGED <<activity, inst, wf, quiet, faults, flag, http>>
       \/ /\ task[p].intent => Exclusive
          /\ activity' = activity \cup {p}
          /\ quiet' = (quiet /\ ~task[p].intent)
          /\ RestoreApps(p)
          /\ \/ Goto(p, "open") /\ UNCHANGED <<faults, flag, http>>
             \/ /\ faults < MaxFaults
                /\ faults' = faults + 1
                /\ EnterCleanup(p, "undo", FALSE)
          /\ UNCHANGED <<op, obs>>
    /\ UNCHANGED <<requested, up, waiting, commands>>

(* Admission reopens only without active requests; then the intent is       *)
(* cleared, and last the flag, which until then still refuses requests.     *)
(* With requests, or when the intent cannot be written, the restored        *)
(* runtime is stopped again.                                                *)
Reopen(p) ==
    /\ task[p].pc = "open"
    /\ \/ /\ http[p].active = {}
          /\ http' = [http EXCEPT ![p].open = TRUE]
          /\ requested' = (requested /\ ~task[p].intent)
          /\ Goto(p, "lower")
          /\ UNCHANGED <<flag, faults>>
       \/ /\ http[p].active # {} \/ (task[p].intent /\ faults < MaxFaults)
          /\ faults' = IF http[p].active # {} THEN faults ELSE faults + 1
          /\ EnterCleanup(p, "undo", FALSE)
          /\ UNCHANGED requested
    /\ UNCHANGED <<op, activity, up, inst, wf, obs, waiting, quiet, commands>>

LowerFlag(p) ==
    /\ task[p].pc = "lower"
    /\ flag' = [flag EXCEPT ![p] = FALSE]
    /\ Finish(p)
    /\ ReleaseOp(p)
    /\ UNCHANGED <<requested, activity, up, proxy, waiting, quiet, bounds>>

-----------------------------------------------------------------------------
(* The observer: reconciles a process with the shared intent. *)

(* Variant: an intent of another process is not noticed. *)
Observe_LocalOnly(p) ==
    /\ p \in up /\ obs[p] = "idle" /\ ~At(p, "startup", "read") /\ flag[p]
    /\ obs' = [obs EXCEPT ![p] = IF requested THEN "raise" ELSE "lock"]
    /\ UNCHANGED <<shared, up, flag, proxy, task, waiting, quiet, bounds>>

(* Startup spawns it while it holds the management lock, after the reads. *)
Observe(p) ==
    /\ p \in up /\ obs[p] = "idle" /\ ~At(p, "startup", "read")
    /\ obs' = [obs EXCEPT ![p] = IF requested THEN "raise"
                                 ELSE IF flag[p] THEN "lock" ELSE "idle"]
    /\ obs'[p] # "idle"
    /\ UNCHANGED <<shared, up, flag, proxy, task, waiting, quiet, bounds>>

(* An intent raises the flag, then closes admission; then the flag is read  *)
(* again, and the observer returns if a resume has lowered it meanwhile.    *)
ObserverRaises(p) ==
    /\ obs[p] = "raise"
    /\ obs' = [obs EXCEPT ![p] = "close"]
    /\ flag' = [flag EXCEPT ![p] = TRUE]
    /\ UNCHANGED <<shared, up, proxy, task, waiting, quiet, bounds>>

ObserverCloses(p) ==
    /\ obs[p] = "close"
    /\ obs' = [obs EXCEPT ![p] = "check"]
    /\ http' = [http EXCEPT ![p] = ShutLong(@)]
    /\ UNCHANGED <<shared, up, flag, inst, wf, task, waiting, quiet, bounds>>

ObserverChecks(p) ==
    /\ obs[p] = "check"
    /\ obs' = [obs EXCEPT ![p] = IF flag[p] THEN "lock" ELSE "idle"]
    /\ UNCHANGED <<shared, up, flag, proxy, task, waiting, quiet, bounds>>

(* Variant: a gated process without a persisted intent only lowers its flag. *)
ObserverLocks_Lowers(p) ==
    /\ obs[p] = "lock" /\ Unlocked(p)
    /\ IF requested /\ p \in activity
       THEN EnterCleanup(p, "observer", FALSE) /\ obs' = [obs EXCEPT ![p] = "hold"]
       ELSE /\ obs' = [obs EXCEPT ![p] = "idle"]
            /\ flag' = [flag EXCEPT ![p] = requested]
            /\ UNCHANGED <<task, http>>
    /\ UNCHANGED <<shared, up, inst, wf, waiting, quiet, bounds>>

(* Variant: a gated process without a persisted intent is left alone. *)
ObserverLocks_DrainsOnly(p) ==
    /\ obs[p] = "lock" /\ Unlocked(p)
    /\ IF requested /\ p \in activity
       THEN EnterCleanup(p, "observer", FALSE) /\ obs' = [obs EXCEPT ![p] = "hold"]
       ELSE obs' = [obs EXCEPT ![p] = "idle"] /\ UNCHANGED <<task, flag, http>>
    /\ UNCHANGED <<shared, up, inst, wf, waiting, quiet, bounds>>

(* Under the lock the intent decides: clean up while the lease is held, or  *)
(* restore when it is gone and no drain or resume is under way.             *)
ObserverLocks(p) ==
    /\ obs[p] = "lock" /\ Unlocked(p)
    /\ \/ /\ requested /\ p \in activity
          /\ EnterCleanup(p, "observer", FALSE)
          /\ obs' = [obs EXCEPT ![p] = "hold"]
          /\ UNCHANGED op
       \/ /\ ~requested /\ op = None
          /\ EnterCleanup(p, "reopen", FALSE)
          /\ obs' = [obs EXCEPT ![p] = "hold"]
          /\ op' = p
       \/ /\ obs' = [obs EXCEPT ![p] = "idle"]
          /\ IF requested THEN p \notin activity ELSE op # None
          /\ UNCHANGED <<task, op, flag, http>>
    /\ UNCHANGED <<requested, activity, up, inst, wf, waiting, quiet, bounds>>

-----------------------------------------------------------------------------
(* The kernel drops the locks of a dead process; systemd ends its children. *)
Crash(p) ==
    /\ p \in up /\ faults < MaxFaults
    /\ faults' = faults + 1
    /\ up' = up \ {p}
    /\ activity' = activity \ {p}
    /\ ReleaseOp(p)
    /\ flag' = [flag EXCEPT ![p] = FALSE]
    /\ http' = [http EXCEPT ![p] = NoHttp]
    /\ inst' = [inst EXCEPT ![p] = NoInst]
    /\ wf' = [wf EXCEPT ![p] = "gone"]
    /\ task' = [task EXCEPT ![p] = Free]
    /\ obs' = [obs EXCEPT ![p] = "idle"]
    /\ waiting' = waiting \ {p}
    /\ UNCHANGED <<requested, quiet, commands>>

RequestStep(p) ==
    \E r \in Requests[p] : Register(p, r) \/ MarkLongLived(p, r) \/ EndRequest(p, r)

SpawnStep(p) ==
    ColdAllocates(p) \/ Replaces(p) \/ SpawnEnds(p)

StartStep(p) == StartReads(p) \/ StartRestores(p)

CleanupStep(p) ==
    GatePassed(p) \/ Stop(p) \/ Report(p)

RestoreStep(p) == Restore(p) \/ Reopen(p) \/ LowerFlag(p)

ObserverStep(p) ==
    Observe(p) \/ ObserverRaises(p) \/ ObserverCloses(p) \/ ObserverChecks(p) \/ ObserverLocks(p)

Next ==
    \E p \in Procs :
        \/ RequestStep(p) \/ ColdStart(p) \/ Replace(p) \/ SpawnStep(p)
        \/ WorkersGone(p)
        \/ StartLeases(p) \/ StartStep(p)
        \/ Deploy(p) \/ DeployWorks(p)
        \/ CleanupStep(p)
        \/ PrepareServerDrain(p) \/ DrainLocks(p) \/ DrainGivesUp(p) \/ DrainReports(p)
        \/ ResumeServer(p) \/ RestoreStep(p)
        \/ ObserverStep(p)
        \/ Crash(p)

Spec == Init /\ [][Next]_vars

(* What holds the management lock is one task. *)
LockHolderStep(p) ==
    StartStep(p) \/ DeployWorks(p) \/ CleanupStep(p) \/ DrainReports(p) \/ RestoreStep(p)

(* Tasks and timers go on; tokio's mutex is fair, so a waiting observer gets *)
(* its turn; a shut transport ends its request; a spawn is bounded by its   *)
(* readiness timeout; a stopped worker leaves or is killed.                 *)
Fairness ==
    \A p \in Procs :
        /\ WF_vars(LockHolderStep(p))
        /\ SF_vars(ObserverStep(p))
        /\ WF_vars(DrainLocks(p) \/ DrainGivesUp(p))
        /\ WF_vars(SpawnStep(p))
        /\ WF_vars(WorkersGone(p))
        /\ \A r \in Requests[p] : WF_vars(r \in http[p].shut /\ EndRequest(p, r))

FairSpec == Spec /\ Fairness
-----------------------------------------------------------------------------
(* A drain that is told "completed" is complete: from the report until an   *)
(* operator resumes, no process of the server has a request, a workflow     *)
(* worker, an instance or a spawn under way, whatever starts, crashes or    *)
(* was under way in the other processes when the intent was written.  The   *)
(* one thing that may be left is an orphan that a command had made, by      *)
(* removing the instance of a spawn under way, before the drain began.      *)
Quiescent ==
    quiet => \A p \in Procs :
                /\ http[p].active = {} /\ wf[p] = "gone"
                /\ ~inst[p].reg /\ ~inst[p].live /\ inst[p].spawn = "none"
                /\ inst[p].orphan => inst[p].cut

(* A process with application work of its own, be it one that a command or  *)
(* a spawn is only about to start, holds the shared activity lease, so the  *)
(* exclusive test of another process cannot miss it.  Only an orphan of a   *)
(* command is work that nobody answers for.                                 *)
LeaseCovers ==
    \A p \in Procs :
        (\/ http[p].active # {} \/ wf[p] # "gone" \/ inst[p].reg \/ inst[p].live
         \/ inst[p].spawn \in {"attach", "lost"} \/ (inst[p].orphan /\ ~inst[p].cut))
        => p \in activity

(* No cleanup makes an orphan: one that gave up waiting for a spawn does    *)
(* not remove the placeholder the spawn will fill.  An instance process     *)
(* that is not registered comes from a deploy, scale or stop command that   *)
(* removed the instance before its spawn had recorded the process.          *)
NoOrphan ==
    \A p \in Procs : /\ inst[p].live => inst[p].reg
                     /\ inst[p].orphan \/ inst[p].spawn = "lost" => inst[p].cut

(* While admission is closed every long-lived connection has been shut      *)
(* down, however its classification and the beginning of the drain meet.    *)
LongLivedShut ==
    \A p \in Procs : ~http[p].open => http[p].long \subseteq http[p].shut

(* A gate that opens opens on a restored runtime: the flag falls only in a  *)
(* process that has its lease and its workflow runtime, and admits requests *)
(* unless its observer, which had read the intent before the resume cleared *)
(* it, has closed admission since.  An observer that then finds the flag    *)
(* down returns, and leaves admission closed.                               *)
ReopensRestored ==
    [][\A p \in up \cap up' : flag[p] /\ ~flag'[p] =>
          p \in activity /\ wf[p] = "on" /\ (http[p].open \/ obs[p] \in {"check", "lock"})]_vars

(* The observer stops and restores the apps of a gated process only: one    *)
(* that an operator has just resumed has nothing to restore (the comment in *)
(* observe_drain_once names "stop and restore every application" as what    *)
(* must not happen without cause, and its early return tests the flag).     *)
(* Does not hold (see the README).                                         *)
RestoresGated ==
    [][\A p \in Procs : task[p].kind # "reopen" /\ task'[p].kind = "reopen" => flag[p]]_vars

(* Nothing of a drained server is left running (networks.md: a completed     *)
(* drain "requires every proxy process on that server to be quiescent").     *)
(* Does not hold: an orphan of an earlier command is (see the README).       *)
NothingLeft ==
    quiet => \A p \in Procs : ~inst[p].orphan

(* A process that no drain concerns and that has nothing under way admits    *)
(* requests.  Does not hold: an observer that had read the intent may close  *)
(* admission after a resume has opened it and return (see the README).       *)
AdmitsAgain ==
    \A p \in up : ~flag[p] /\ ~requested /\ task[p] = Free /\ obs[p] = "idle" => http[p].open

(* Every process carries out a drain that was requested in any of them.     *)
Drains ==
    \A p \in Procs : requested ~> (p \notin activity \/ ~requested)

(* A process that is gated without an intent goes back to work.             *)
Reopens ==
    \A p \in Procs : (flag[p] /\ ~requested) ~> (~flag[p] \/ requested)
=============================================================================
