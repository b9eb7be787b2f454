------------------------------- MODULE Upgrade -------------------------------
(***************************************************************************)
(* The upgrade and the reload of one tako-server host.                     *)
(*                                                                         *)
(*   - Controllers are runs of `tako servers upgrade': they take the       *)
(*     upgrade lock, replace the binary, reload the service, wait for the  *)
(*     new process, give the lock back, and undo all that on a failure.    *)
(*   - Processes of tako-server come and go under systemd: a SIGHUP makes  *)
(*     the main process spawn a child that takes over its sockets, restores*)
(*     the state and then signals its parent to stop.                      *)
(*   - They share the state database (server_mode, upgrade_lock), the      *)
(*     reload marker, the installed binary and its saved predecessor, the  *)
(*     symlink of the management socket, and the activity lock with the    *)
(*     generation file that decides which process may execute management   *)
(*     operations of the native listener.                                  *)
(*                                                                         *)
(* Every database transaction, command over SSH and file write is a step   *)
(* of its own.  The content of operations is left out; one operation at a  *)
(* time per process is enough, since those that are not read-only exclude  *)
(* each other by the process's management lock.                            *)
(***************************************************************************)
EXTENDS Naturals, FiniteSets

CONSTANTS
    Controllers,
    NoOne,        \* no owner, no process
    MaxProcs,     \* process ids, each used once
    Kinds,        \* the disturbances that may happen: a failed command ("ssh"), five
                  \* failed attempts to give the lock back ("exit"), a lost answer,
                  \* a crash, a kill, a reload, a delay ("slow")
    MaxEvents     \* how many of them happen

ASSUME UpgradeAssumption ==
    /\ NoOne \notin Controllers /\ NoOne \notin Nat
    /\ MaxProcs \in Nat \ {0} /\ MaxEvents \in Nat
    /\ Kinds \subseteq {"ssh", "exit", "answer", "crash", "kill", "reload", "slow"}

Procs == 1..MaxProcs

VARIABLES
    proc,         \* the processes
    spawned,      \* process ids used
    main,         \* the main process of the unit, as systemd knows it
    symlink,      \* the process tako.sock leads to
    generation,   \* the process named by the generation file
    server_mode, upgrade_lock, stale,   \* the database; stale: older than 600 s
    marker,       \* the reload marker file
    binary, prev, \* the installed version and the saved one
    ctl,          \* the controllers
    events, kinds \* how many disturbances so far, and which

files == <<marker, binary, prev>>
db == <<server_mode, upgrade_lock, stale>>
unit == <<spawned, main, symlink, generation>>
budget == <<events, kinds>>
vars == <<proc, unit, db, files, ctl, budget>>

(* What a process knows: its stage and its mode in memory; while it starts  *)
(* the owner the marker announces and the one it read; whether it is the    *)
(* child of a reload and whose; whether it has had its SIGHUP.              *)
Fresh == [stage |-> "none", mode |-> "normal", expected |-> NoOne, owner |-> NoOne,
          child |-> FALSE, by |-> NoOne, hup |-> FALSE, version |-> "old", op |-> "none"]

(* A process holds the activity lock exclusively from its claim until its   *)
(* listener is published, accepts commands from then on, and is gone last.  *)
Claiming  == {"claimed", "marked", "reading", "clearing", "unlocking", "restoring"}
Booting   == {"spawned", "bound"} \cup Claiming
Accepting == {"serving", "ready", "stopping"}

MainReady == main # NoOne /\ proc[main].stage = "ready"

(* One more disturbance. *)
Disturbed(kind) ==
    /\ kind \in Kinds
    /\ events < MaxEvents /\ events' = events + 1
    /\ kinds' = kinds \cup {kind}

Alive(p) == proc[p].stage \in Booting \cup Accepting

(* The server is seen in normal operation under the old binary. *)
Init ==
    /\ proc = [p \in Procs |-> IF p = 1 THEN [Fresh EXCEPT !.stage = "ready"] ELSE Fresh]
    /\ spawned = 1 /\ main = 1 /\ symlink = 1 /\ generation = 1
    /\ server_mode = "normal" /\ upgrade_lock = NoOne /\ stale = FALSE
    /\ marker = NoOne /\ binary = "old" /\ prev = "none"
    /\ ctl = [c \in Controllers |->
                [pc |-> "start", via |-> NoOne, pid |-> NoOne, entered |-> FALSE, direct |-> FALSE,
                 replaced |-> FALSE, handoff |-> FALSE, outcome |-> "none"]]
    /\ events = 0 /\ kinds = {}
-----------------------------------------------------------------------------
(* Processes. *)

(* A new process runs the binary that is installed then. *)
Spawn ==
    /\ spawned < MaxProcs
    /\ spawned' = spawned + 1

Born(f, child, by) ==
    [f EXCEPT ![spawned + 1] =
        [Fresh EXCEPT !.stage = "spawned", !.child = child, !.by = by,
               !.version = binary]]

(* The end of a process frees its leases and drops its operation.  systemd  *)
(* kills what is left of the unit when the main process ends.               *)
Ends(f, p) ==
    [q \in Procs |-> IF q = p \/ (p = main /\ f[q].stage # "none")
                     THEN [Fresh EXCEPT !.stage = "gone"] ELSE f[q]]

Gone(p) ==
    /\ proc' = Ends(proc, p)
    /\ main' = IF p = main THEN NoOne ELSE main
    /\ UNCHANGED <<spawned, symlink, generation>>

(* The unit is started again (Restart=always, or the second half of a       *)
(* restart).                                                                *)
Boot ==
    /\ main = NoOne
    /\ Spawn
    /\ proc' = Born(proc, FALSE, NoOne)
    /\ main' = spawned + 1
    /\ UNCHANGED <<symlink, generation, db, files, ctl, budget>>

(* SocketServer::bind: the process takes the management socket over.        *)
Bind(p) ==
    /\ proc[p].stage = "spawned"
    /\ proc' = [proc EXCEPT ![p].stage = "bound"]
    /\ symlink' = p
    /\ UNCHANGED <<spawned, main, generation, db, files, ctl, budget>>

(* Variant: the handoff does not wait for the work the old process admitted.*)
Claim_NoWait(p) ==
    /\ proc[p].stage = "bound"
    /\ \A q \in Procs : proc[q].stage \notin Claiming
    /\ proc' = [proc EXCEPT ![p].stage = "claimed"]
    /\ generation' = p
    /\ UNCHANGED <<spawned, main, symlink, db, files, ctl, budget>>

(* PrimaryHandoff::claim: wait for the operations that were admitted, take  *)
(* the exclusive lease and name a new generation.                           *)
Claim(p) ==
    /\ proc[p].stage = "bound"
    /\ \A q \in Procs : proc[q].op = "none" /\ proc[q].stage \notin Claiming
    /\ proc' = [proc EXCEPT ![p].stage = "claimed"]
    /\ generation' = p
    /\ UNCHANGED <<spawned, main, symlink, db, files, ctl, budget>>

(* ... or time out and fail to start: another process restores, or its      *)
(* operations or readers hold the lease.                                    *)
ClaimTimesOut(p) ==
    /\ proc[p].stage = "bound"
    /\ \E q \in Procs \ {p} : proc[q].stage \in Claiming \cup Accepting
    /\ Gone(p)
    /\ UNCHANGED <<db, files, ctl, budget>>

(* take_upgrade_reload_owner: read and remove the marker; only the child of *)
(* a reload honours it.                                                     *)
TakeMarker(p) ==
    /\ proc[p].stage = "claimed"
    /\ proc' = [proc EXCEPT ![p].stage = "marked",
                            ![p].expected = IF proc[p].child THEN marker ELSE NoOne]
    /\ marker' = NoOne
    /\ UNCHANGED <<unit, db, binary, prev, ctl, budget>>

(* release_upgrade_lock: only the owner's row is deleted. *)
Release(owner) ==
    /\ upgrade_lock' = IF upgrade_lock = owner THEN NoOne ELSE upgrade_lock
    /\ stale' = (stale /\ upgrade_lock # owner)

(* The mode and the owner that the last process left are read, one after    *)
(* the other.                                                               *)
ReadMode(p) ==
    /\ proc[p].stage = "marked"
    /\ proc' = [proc EXCEPT ![p].stage = "reading", ![p].mode = server_mode]
    /\ UNCHANGED <<unit, db, files, ctl, budget>>

(* The start of an announced reload keeps the upgrade it was announced for; *)
(* one announced by a controller that has lost the lock fails; any other    *)
(* start goes on to end the upgrade.                                        *)
ReadOwner(p) ==
    /\ proc[p].stage = "reading"
    /\ LET announced == proc[p].expected # NoOne
           current   == proc[p].mode = "upgrading" /\ upgrade_lock = proc[p].expected
       IN  \/ announced /\ ~current /\ Gone(p)
           \/ /\ announced => current
              /\ proc' = [proc EXCEPT ![p].stage = IF announced THEN "restoring" ELSE "clearing",
                                      ![p].owner = upgrade_lock]
              /\ UNCHANGED unit
    /\ UNCHANGED <<db, files, ctl, budget>>

(* Variant: the mode that was found is kept. *)
ClearMode_Keeps(p) ==
    /\ proc[p].stage = "clearing"
    /\ proc' = [proc EXCEPT ![p].stage = "unlocking"]
    /\ UNCHANGED <<unit, db, files, ctl, budget>>

(* An upgrade that was found ends: the mode first, then the lock if it is   *)
(* still the owner's that was read.                                         *)
ClearMode(p) ==
    /\ proc[p].stage = "clearing"
    /\ server_mode' = IF proc[p].mode = "upgrading" THEN "normal" ELSE server_mode
    /\ proc' = [proc EXCEPT ![p].stage = "unlocking", ![p].mode = "normal"]
    /\ UNCHANGED <<unit, upgrade_lock, stale, files, ctl, budget>>

ClearLock(p) ==
    /\ proc[p].stage = "unlocking"
    /\ IF proc[p].owner = NoOne THEN UNCHANGED <<upgrade_lock, stale>> ELSE Release(proc[p].owner)
    /\ proc' = [proc EXCEPT ![p].stage = "restoring"]
    /\ UNCHANGED <<unit, server_mode, files, ctl, budget>>

(* The state is restored: the management socket is served and the native    *)
(* listener is published, then the exclusive lease ends.  A command that    *)
(* tako.sock answers in between reads and writes nothing the end of the     *)
(* lease does, and no operation is admitted before: one step stands for     *)
(* both.                                                                    *)
Publish(p) ==
    /\ proc[p].stage = "restoring"
    /\ proc' = [proc EXCEPT ![p].stage = "serving", ![p].owner = NoOne, ![p].expected = NoOne,
                            ![p].by = NoOne]
    /\ UNCHANGED <<unit, db, files, ctl, budget>>

(* sd_notify_ready: the process becomes the main one and a reload's child   *)
(* tells its parent to stop.  A main process that systemd is stopping stays *)
(* the one whose end completes the restart.                                 *)
Ready(p) ==
    /\ proc[p].stage = "serving"
    /\ proc' = [q \in Procs |->
                  IF q = p THEN [proc[q] EXCEPT !.stage = "ready"]
                  ELSE IF proc[p].child /\ q = main
                       THEN [proc[q] EXCEPT !.stage = "stopping"] ELSE proc[q]]
    /\ main' = IF main # p /\ proc[main].stage = "stopping" THEN main ELSE p
    /\ UNCHANGED <<spawned, symlink, generation, db, files, ctl, budget>>

(* The graceful shutdown of a process comes to its end. *)
Stopped(p) ==
    /\ proc[p].stage = "stopping"
    /\ Gone(p)
    /\ UNCHANGED <<db, files, ctl, budget>>

(* A crash, or an error during startup. *)
Crash(p) ==
    /\ Alive(p) /\ Disturbed("crash")
    /\ Gone(p)
    /\ UNCHANGED <<db, files, ctl>>
-----------------------------------------------------------------------------
(* Management operations through the native listener. *)

(* The management lock of p is free: no operation runs in it, and no        *)
(* command of a controller is between its two statements.                   *)
Unlocked(p) ==
    /\ proc[p].op = "none"
    /\ \A c \in Controllers : ctl[c].via = p => ctl[c].pc \notin {"locked", "released", "undone"}

(* PrimaryGeneration::admit takes a shared lease and finds the generation   *)
(* still this process's; then the operation takes the management lock.  One *)
(* that waits or is refused only holds the lease.                           *)
Admitted(p) ==
    /\ proc[p].stage \in Accepting
    /\ generation = p /\ \A q \in Procs : proc[q].stage \notin Claiming
    /\ Unlocked(p)

(* The operations of reject_mutating_when_upgrading: deploys and their      *)
(* preparation, rollback, scale, stop, delete, secrets and backups.         *)
Execute(p) ==
    /\ Admitted(p) /\ proc[p].mode = "normal"
    /\ proc' = [proc EXCEPT ![p].op = "running"]
    /\ UNCHANGED <<unit, db, files, ctl, budget>>

(* The others write too, and nothing asks for the mode: preparing, running  *)
(* and cleaning up a release, the resume of a drain, the upload of an       *)
(* artifact.                                                                *)
ExecuteUnlisted(p) ==
    /\ Admitted(p)
    /\ proc' = [proc EXCEPT ![p].op = "unlisted"]
    /\ UNCHANGED <<unit, db, files, ctl, budget>>

Finish(p) ==
    /\ proc[p].op # "none"
    /\ proc' = [proc EXCEPT ![p].op = "none"]
    /\ UNCHANGED <<unit, db, files, ctl, budget>>
-----------------------------------------------------------------------------
(* Controllers: run_server_upgrade. *)

Goto(c, pc) == ctl' = [ctl EXCEPT ![c].pc = pc]

(* Where a controller goes when a step fails: it undoes a replaced binary,  *)
(* otherwise gives the lock back, and removes its marker last.              *)
Failed(r) == IF r.replaced THEN "restore" ELSE IF r.entered THEN "undo" ELSE "unmark"

Fails(c) == ctl' = [ctl EXCEPT ![c].pc = Failed(ctl[c]), ![c].via = NoOne]

(* upgrade_one_server: the installed version is compared with the latest.   *)
CheckVersion(c) ==
    /\ ctl[c].pc = "start"
    /\ ctl' = [ctl EXCEPT ![c].pc = IF binary = "new" THEN "done" ELSE "enter",
                          ![c].outcome = IF binary = "new" THEN "already" ELSE @]
    /\ UNCHANGED <<proc, unit, db, files, budget>>

(* A command is written to the process tako.sock leads to now; it waits     *)
(* there until the process accepts commands.                                *)
Send(c) ==
    /\ ctl[c].pc \in {"enter", "exit", "unchanged", "undo"} /\ ctl[c].via = NoOne
    /\ Alive(symlink)
    /\ ctl' = [ctl EXCEPT ![c].via = symlink]
    /\ UNCHANGED <<proc, unit, db, files, budget>>

(* The process ended before it answered, or nobody listens. *)
NoAnswer(c) ==
    /\ IF ctl[c].via = NoOne THEN ~Alive(symlink) ELSE ~Alive(ctl[c].via)
    /\ \/ /\ ctl[c].pc \in {"enter", "locked", "exit", "released", "unchanged"}
          /\ Fails(c)
       \/ /\ ctl[c].pc \in {"undo", "undone"}
          /\ ctl' = [ctl EXCEPT ![c].pc = "unmark", ![c].via = NoOne]
    /\ UNCHANGED <<proc, unit, db, files, budget>>

Handles(c, pcs) ==
    /\ ctl[c].pc \in pcs /\ ctl[c].via # NoOne
    /\ proc[ctl[c].via].stage \in Accepting

(* try_acquire_upgrade_lock: the lock is free, one's own, or stale. *)
TryAcquire(c) == upgrade_lock \in {NoOne, c} \/ stale

(* Variant: the command does not wait for running operations. *)
EnterLock_Unlocked(c) ==
    /\ Handles(c, {"enter"})
    /\ TryAcquire(c)
    /\ upgrade_lock' = c /\ stale' = (stale /\ upgrade_lock = c)
    /\ Goto(c, "locked")
    /\ UNCHANGED <<proc, unit, server_mode, files, budget>>

EnterLock(c) ==
    /\ Handles(c, {"enter"}) /\ Unlocked(ctl[c].via)
    /\ TryAcquire(c)
    /\ upgrade_lock' = c /\ stale' = (stale /\ upgrade_lock = c)
    /\ Goto(c, "locked")
    /\ UNCHANGED <<proc, unit, server_mode, files, budget>>

EnterRefused(c) ==
    /\ Handles(c, {"enter"}) /\ Unlocked(ctl[c].via)
    /\ ~TryAcquire(c)
    /\ Fails(c)
    /\ UNCHANGED <<proc, unit, db, files, budget>>

EnterMode(c) ==
    /\ Handles(c, {"locked"})
    /\ server_mode' = "upgrading"
    /\ proc' = [proc EXCEPT ![ctl[c].via].mode = "upgrading"]
    /\ ctl' = [ctl EXCEPT ![c].pc = "info", ![c].via = NoOne, ![c].entered = TRUE,
                          ![c].direct = (ctl[c].via = symlink)]
    /\ UNCHANGED <<unit, upgrade_lock, stale, files, budget>>

(* server_info: the process to be replaced. *)
Info(c) ==
    /\ ctl[c].pc = "info" /\ proc[symlink].stage \in Accepting
    /\ ctl' = [ctl EXCEPT ![c].pc = "install", ![c].pid = symlink]
    /\ UNCHANGED <<proc, unit, db, files, budget>>

(* tako-server-install-refresh saves the installed binary and replaces it.  *)
Install(c) ==
    /\ ctl[c].pc = "install"
    /\ prev' = binary /\ binary' = "new"
    /\ ctl' = [ctl EXCEPT ![c].pc = "compare", ![c].replaced = TRUE]
    /\ UNCHANGED <<proc, unit, db, marker, budget>>

(* The installed version is read again: if it is still the one of the       *)
(* beginning there is nothing to reload.  Otherwise the candidate checks    *)
(* its compatibility, which may abort, and the marker is written.           *)
Compare(c) ==
    /\ ctl[c].pc = "compare"
    /\ \/ binary = "old" /\ Goto(c, "unchanged") /\ UNCHANGED marker
       \/ binary = "new" /\ Fails(c) /\ UNCHANGED marker
       \/ /\ binary = "new"
          /\ marker' = c
          /\ ctl' = [ctl EXCEPT ![c].pc = "reload", ![c].handoff = TRUE]
    /\ UNCHANGED <<proc, unit, db, binary, prev, budget>>

(* SIGHUP to the main process.  The handler runs once per process.          *)
Hup(by) ==
    /\ MainReady
    /\ IF proc[main].hup
       THEN UNCHANGED <<proc, unit>>
       ELSE /\ Spawn
            /\ proc' = Born([proc EXCEPT ![main].hup = TRUE], TRUE, by)
            /\ UNCHANGED <<main, symlink, generation>>

Reload(c) ==
    /\ ctl[c].pc = "reload"
    /\ \/ Hup(c) /\ Goto(c, "wait")
       \/ ~MainReady /\ Fails(c) /\ UNCHANGED <<proc, unit>>
    /\ UNCHANGED <<db, files, budget>>

(* Variant: whoever answers is taken for the new process. *)
Answers_Any(c) == proc[symlink].stage \in Accepting

(* wait_for_primary_ready: another process answers than the one before.     *)
Answers(c) == proc[symlink].stage \in Accepting /\ symlink # ctl[c].pid

WaitReady(c) ==
    /\ ctl[c].pc = "wait" /\ Answers(c)
    /\ ctl' = [ctl EXCEPT ![c].pc = "recheck", ![c].pid = symlink]
    /\ UNCHANGED <<proc, unit, db, files, budget>>

WaitTimesOut(c) ==
    /\ ctl[c].pc = "wait" /\ ~Answers(c)
    /\ Fails(c)
    /\ UNCHANGED <<proc, unit, db, files, budget>>

(* The second compatibility check. *)
Recheck(c) ==
    /\ ctl[c].pc = "recheck"
    /\ Goto(c, "exit") \/ Fails(c)
    /\ UNCHANGED <<proc, unit, db, files, budget>>

ExitLock(c) ==
    /\ Handles(c, {"exit", "unchanged"}) /\ Unlocked(ctl[c].via)
    /\ upgrade_lock = c /\ Release(c)
    /\ Goto(c, "released")
    /\ UNCHANGED <<proc, unit, server_mode, files, budget>>

ExitRefused(c) ==
    /\ Handles(c, {"exit", "unchanged"}) /\ Unlocked(ctl[c].via)
    /\ upgrade_lock # c
    /\ Fails(c)
    /\ UNCHANGED <<proc, unit, db, files, budget>>

(* set_server_mode(Normal): the database, then the process that handles it. *)
Normal(c) ==
    /\ server_mode' = "normal"
    /\ proc' = [proc EXCEPT ![ctl[c].via].mode = "normal"]

ExitMode(c) ==
    /\ Handles(c, {"released"})
    /\ Normal(c)
    /\ ctl' = [ctl EXCEPT ![c].pc = "cleanup", ![c].via = NoOne, ![c].entered = FALSE,
                          ![c].outcome = IF ctl[c].handoff THEN "upgraded" ELSE "already"]
    /\ UNCHANGED <<unit, upgrade_lock, stale, files, budget>>

(* The saved binary is removed after the lock was given back. *)
Cleanup(c) ==
    /\ ctl[c].pc = "cleanup"
    /\ prev' = "none"
    /\ Goto(c, "unmark")
    /\ UNCHANGED <<proc, unit, db, marker, binary, budget>>

(* After a failure the saved binary is installed again and the unit is      *)
(* restarted.  When that fails too the user is told so, and the lock is     *)
(* given back if it can be.                                                 *)
RollbackFails(c) ==
    ctl' = [ctl EXCEPT ![c].pc = IF ctl[c].entered THEN "undo" ELSE "unmark",
                       ![c].outcome = "rollback failed"]

Restore(c) ==
    /\ ctl[c].pc = "restore"
    /\ IF prev = "none"
       THEN RollbackFails(c) /\ UNCHANGED binary
       ELSE Goto(c, "restart") /\ binary' = prev
    /\ UNCHANGED <<proc, unit, db, marker, prev, budget>>

(* systemctl restart: systemd stops the main process. *)
RestartUnit ==
    \/ main = NoOne /\ UNCHANGED <<proc, unit>>
    \/ /\ main # NoOne /\ proc[main].stage \in Booting
       /\ Gone(main)
    \/ /\ main # NoOne /\ proc[main].stage \in Accepting
       /\ proc' = [proc EXCEPT ![main].stage = "stopping"]
       /\ UNCHANGED unit

Restart(c) ==
    /\ ctl[c].pc = "restart"
    /\ RestartUnit
    /\ Goto(c, "restarting")
    /\ UNCHANGED <<db, files, budget>>

(* `systemctl restart' returns when the new main process is ready; then the *)
(* previous binary has cleared the upgrade and the lock need not be freed.  *)
Restarted(c) ==
    /\ ctl[c].pc = "restarting"
    /\ MainReady /\ Answers(c)
    /\ ctl' = [ctl EXCEPT ![c].pc = "unmark", ![c].entered = FALSE, ![c].outcome = "rolled back"]
    /\ UNCHANGED <<proc, unit, db, files, budget>>

(* Up to five attempts to give the lock back; one that is refused will be   *)
(* refused again.                                                           *)
UndoLock(c) ==
    /\ Handles(c, {"undo"}) /\ Unlocked(ctl[c].via)
    /\ \/ upgrade_lock = c /\ Release(c) /\ Goto(c, "undone")
       \/ /\ upgrade_lock # c
          /\ ctl' = [ctl EXCEPT ![c].pc = "unmark", ![c].via = NoOne]
          /\ UNCHANGED <<upgrade_lock, stale>>
    /\ UNCHANGED <<proc, unit, server_mode, files, budget>>

UndoMode(c) ==
    /\ Handles(c, {"undone"})
    /\ Normal(c)
    /\ ctl' = [ctl EXCEPT ![c].pc = "unmark", ![c].via = NoOne, ![c].entered = FALSE]
    /\ UNCHANGED <<unit, upgrade_lock, stale, files, budget>>

(* The marker is removed, whoever wrote it, and the controller reports.     *)
Report(c) ==
    ctl' = [ctl EXCEPT ![c].pc = "done", ![c].pid = NoOne, ![c].handoff = FALSE,
                       ![c].outcome = IF @ = "none" THEN "failed" ELSE @]

Unmark(c) ==
    /\ ctl[c].pc = "unmark"
    /\ marker' = IF ctl[c].handoff THEN NoOne ELSE marker
    /\ Report(c)
    /\ UNCHANGED <<proc, unit, db, binary, prev, budget>>
-----------------------------------------------------------------------------
(* What the environment does. *)

(* A remote command fails without effect.  The removals of the saved binary *)
(* and of the marker are not tried again.  A failed attempt to give the     *)
(* lock back is, and the state is the same.                                 *)
SshFails(c) ==
    /\ Disturbed("ssh")
    /\ \/ /\ ctl[c].pc \in {"enter", "info", "install", "compare", "reload", "recheck",
                            "exit", "unchanged"}
          /\ ctl[c].via = NoOne
          /\ Fails(c)
       \/ /\ ctl[c].pc \in {"restore", "restart", "restarting"}
          /\ RollbackFails(c)
       \/ ctl[c].pc = "cleanup" /\ Goto(c, "unmark")
       \/ ctl[c].pc = "unmark" /\ Report(c)
    /\ UNCHANGED <<proc, unit, db, files>>

(* All five attempts to give the lock back fail, on their own or with the   *)
(* command before them: the connection is down.  The controller gives up,   *)
(* and the lock and the mode stay as they are.                              *)
ExitFails(c) ==
    /\ Disturbed("exit")
    /\ ctl[c].pc \in {"info", "install", "undo"} /\ ctl[c].via = NoOne
    /\ Goto(c, "unmark")
    /\ UNCHANGED <<proc, unit, db, files>>

(* An answer is lost: the command was carried out, the controller takes it  *)
(* for failed.  It does not undo a replacement it does not know of (the     *)
(* model remembers it), and leaves a marker it does not know of.            *)
AnswerLost(c) ==
    /\ Disturbed("answer")
    /\ \/ /\ ctl[c].pc = "info"
          /\ ctl' = [ctl EXCEPT ![c].pc = "unmark", ![c].entered = FALSE]
       \/ ctl[c].pc = "compare" /\ Goto(c, "undo")
       \/ /\ ctl[c].pc = "reload"
          /\ ctl' = [ctl EXCEPT ![c].pc = "restore", ![c].handoff = FALSE]
       \/ ctl[c].pc = "wait" /\ Goto(c, "restore")
       \/ /\ ctl[c].pc = "cleanup"
          /\ ctl' = [ctl EXCEPT ![c].pc = "restore", ![c].entered = TRUE, ![c].outcome = "none"]
    /\ UNCHANGED <<proc, unit, db, files>>

(* The controller is killed.  A command it has sent is still carried out.   *)
Killed(c) ==
    /\ Disturbed("kill")
    /\ ctl[c].pc \notin {"start", "done", "dead"} /\ ctl[c].via = NoOne
    /\ Goto(c, "dead")
    /\ UNCHANGED <<proc, unit, db, files>>

(* `tako servers reload', plain or with --force. *)
OperatorReload ==
    /\ Disturbed("reload")
    /\ Hup(NoOne) \/ RestartUnit
    /\ UNCHANGED <<db, files, ctl>>

(* Ten minutes pass over a lock, after its controller's end or before. *)
GrowStale ==
    /\ upgrade_lock # NoOne /\ ~stale /\ stale' = TRUE
    /\ IF ctl[upgrade_lock].pc \in {"done", "dead"} THEN UNCHANGED budget ELSE Disturbed("slow")
    /\ UNCHANGED <<proc, unit, server_mode, upgrade_lock, files, ctl>>
-----------------------------------------------------------------------------
Startup(p) ==
    \/ Bind(p) \/ Claim(p) \/ ClaimTimesOut(p) \/ TakeMarker(p) \/ ReadMode(p) \/ ReadOwner(p)
    \/ ClearMode(p) \/ ClearLock(p) \/ Publish(p) \/ Ready(p) \/ Stopped(p)

Controller(c) ==
    \/ CheckVersion(c) \/ Send(c) \/ NoAnswer(c) \/ EnterLock(c) \/ EnterRefused(c)
    \/ EnterMode(c) \/ Info(c) \/ Install(c) \/ Compare(c) \/ Reload(c) \/ WaitReady(c)
    \/ WaitTimesOut(c) \/ Recheck(c) \/ ExitLock(c) \/ ExitRefused(c) \/ ExitMode(c)
    \/ Cleanup(c) \/ Restore(c) \/ Restart(c) \/ Restarted(c) \/ UndoLock(c) \/ UndoMode(c)
    \/ Unmark(c)

Next ==
    \/ Boot
    \/ \E p \in Procs : \/ Startup(p) \/ Crash(p)
                       \/ Execute(p) \/ ExecuteUnlisted(p) \/ Finish(p)
    \/ \E c \in Controllers : \/ Controller(c)
                             \/ SshFails(c) \/ ExitFails(c) \/ AnswerLost(c) \/ Killed(c)
    \/ OperatorReload \/ GrowStale

Spec == Init /\ [][Next]_vars
-----------------------------------------------------------------------------
TypeOK ==
    /\ proc \in [Procs -> [stage : {"none", "gone"} \cup Booting \cup Accepting,
                          mode : {"normal", "upgrading"},
                          expected : Controllers \cup {NoOne}, owner : Controllers \cup {NoOne},
                          child : BOOLEAN, by : Controllers \cup {NoOne},
                          hup : BOOLEAN,
                          version : {"old", "new"}, op : {"none", "running", "unlisted"}]]
    /\ spawned \in Procs /\ main \in Procs \cup {NoOne} /\ {symlink, generation} \subseteq Procs
    /\ server_mode \in {"normal", "upgrading"} /\ upgrade_lock \in Controllers \cup {NoOne}
    /\ stale \in BOOLEAN /\ marker \in Controllers \cup {NoOne}
    /\ binary \in {"old", "new"} /\ prev \in {"none", "old", "new"}
    /\ events \in 0..MaxEvents /\ kinds \subseteq Kinds

(* A process that restores the state and one that executes an operation     *)
(* never overlap with another one: the handoff waits for admitted work, and *)
(* a replaced process admits none.                                          *)
OneExecutor ==
    Cardinality({p \in Procs : proc[p].stage \in Claiming \/ proc[p].op # "none"}) <= 1

(* The upgrade fence: from the moment a controller is told that it holds    *)
(* the lock until the lock is given up or taken, no process executes an     *)
(* operation of the ones the dispatcher refuses while upgrading, one that   *)
(* was admitted before included, through the reload and the restoring of    *)
(* the state.  The process that answered must still be the one tako.sock    *)
(* leads to.                                                                *)
QuietUpgrade ==
    upgrade_lock # NoOne /\ ctl[upgrade_lock].entered /\ ctl[upgrade_lock].direct
        => \A p \in Procs : proc[p].op # "running"

(* "Reject mutating commands while upgrading", without that condition and   *)
(* for every operation that changes state.                                  *)
(* Does not hold (see the README).                                         *)
RejectsWhileUpgrading ==
    upgrade_lock # NoOne /\ ctl[upgrade_lock].entered
        => \A p \in Procs : proc[p].op = "none"

(* A controller reports an upgrade only if the process that answers is the  *)
(* new one and takes operations again, and a roll-back only if the previous *)
(* binary serves, unless another controller has replaced it as well or      *)
(* somebody reloaded the server meanwhile.                                  *)
Others(c) == \E d \in Controllers \ {c} : ctl[d].replaced

OutcomeTrue ==
    [][\A c \in Controllers : ctl'[c].outcome # ctl[c].outcome /\ "reload" \notin kinds =>
          /\ ctl'[c].outcome = "upgraded" =>
                proc[ctl[c].via].version = "new" /\ proc'[ctl[c].via].mode = "normal"
          /\ ctl'[c].outcome = "rolled back" /\ ~Others(c) =>
                proc'[symlink].version = "old"]_vars

(* When every controller has ended, none reported that its roll-back        *)
(* failed and no process is on its way up or down, the server can be        *)
(* reached and takes operations again, provided that nothing else went      *)
(* wrong than failed commands, in any number, as long as one of the five    *)
(* attempts to give the lock back gets through, or than delays.             *)
AtRest ==
    /\ \A c \in Controllers : ctl[c].pc = "done" /\ ctl[c].outcome # "rollback failed"
    /\ main # NoOne /\ \A p \in Procs : proc[p].stage \in {"none", "ready", "gone"}

Reopened ==
    AtRest /\ (kinds \subseteq {"ssh"} \/ kinds \subseteq {"slow"}) =>
        proc[symlink].stage = "ready" /\ proc[symlink].mode = "normal"

(* The same with a connection that stays down.                              *)
(* Does not hold (see the README).                                         *)
ReopenedDown ==
    AtRest /\ kinds \subseteq {"ssh", "exit"} =>
        proc[symlink].stage = "ready" /\ proc[symlink].mode = "normal"

(* "An ordinary reload has no marker". *)
(* Does not hold (see the README).                                         *)
OrdinaryReload == \A p \in Procs : proc[p].expected # NoOne => proc[p].by # NoOne
=============================================================================
