# TLA+ models of tako

tako is a self-hosted deployment platform: a CLI that builds and deploys
applications, a server (`tako-server`) that runs their instances behind a proxy,
and a set of durable services those applications use (workflows, channels).
This directory holds TLA+ modules for the parts of it whose correctness depends
on interleavings, crashes, time and retries, the TLC configurations that check
them on small instances, and TLAPS proofs of the most important properties.

Paths below are relative to `src/`. `PROJECT.json` lists the components, the
runs, the source lines behind every definition, the hazards and the theorems.

Run a model with `tlc -workers 2 -config <cfg> <MC module>` and a proof module
with `tlapm <module>.tla`.

## Inventory

| Part | State it keeps | Operations | What is hard about it |
|---|---|---|---|
| Run store (`tako-workflows/src/enqueue/sqlite.rs`, `postgres_store.rs`, `schema.rs`) | tables `runs`, `steps`, `event_waiters`, `schedules` | enqueue, claim, heartbeat, save_step, complete, cancel, fail, defer, wait_for_event, signal, reclaim, prune | leases that expire while the attempt is still alive, RPCs that arrive late or twice, waits that time out while they are signalled; on Postgres, all of it in concurrent transactions of several servers |
| In-flight limiter and internal socket (`in_flight.rs`, `enqueue_socket.rs`) | cache of claim owners per server process | claim under a cap, release, rehydrate | the cache and the database are updated under different locks; a runtime is replaced while its workers are still claiming |
| Dispatcher and supervisor (`dispatcher.rs`, `supervisor.rs`) | pending-signal flag, notification permit, worker children, crash cool-down | signal, wake, reap, start, drain, shut down | lost wake-ups, scale to zero racing with enqueue, spawning after shutdown |
| Workflow manager (`manager.rs`) | map app -> runtime, retired runtimes | ensure, stop, retire, delete, server drain | replacing a runtime while another task retires it |
| Cron (`cron.rs`) | `schedules.last_run_at` | register, tick, reclaim, prune | crash between enqueue and `last_run_at`, several servers with different clocks ticking the same rows |
| Workflow worker (`sdk/javascript/src/workflows`) | attempt state, step cache | run loop, step.run, sleep, waitFor | lost responses, retries of steps, concurrency |
| Channels (`tako-channels`, `tako-server/src/native_channels`) | replay store, replay epoch, peer sessions, notification queues, client cursors | publish, ingest, fence, prune, subscribe, replay | a committed row and its notification travel on different ways; everything that can lose an event must end in a reset |
| Instances (`tako-server/src/instances`) | instance states, routing set | spawn, health check, rolling update, drain, stop | a probe result applied after the instance changed state, zero-downtime hand-over |
| Cold start and idle (`tako-server/src/scaling`) | per-app start state, waiters | begin, wait, ready, failed, reset | a leader that never answers, an app stopped while requests wait |
| Request drain (`request_drain.rs`) | active requests, their class, admission | register, mark long-lived, begin, force, resume | requests admitted or classified while the drain begins |
| Server drain (`operations/drain.rs`, `drain_observer.rs`, `state_store/drain.rs`) | persisted intent, operation lock, activity lease, in-memory flag | drain, resume, observe, restore at start | several processes of one server, each with its own flag; spawns under way; failures half-way |
| Upgrade (`state_store/upgrade.rs`, `startup.rs`, `native_management_ownership.rs`, `tako/src/commands/server/upgrade`) | server mode, upgrade lock, reload marker, installed and saved binary, `tako.sock`, activity lock and generation file | enter, install, reload, take over, wait, exit, roll back | two controllers, a stale lock, SSH that fails, processes that replace each other |
| Deploy operations (`operations/deploy.rs`) | app configuration, rollout | deploy, rollback, scale | a rollout that fails after its configuration is in place |
| Compose (`tako-compose`) | plan and roll-out | plan, roll out | partial failure of a multi-service roll-out |
| Network (`tako-network`) | registry, server identity, enrolment | enrol, register, resolve | keys and transport |

### How the parts interact

```
   client requests, streams           operator (CLI over SSH, management socket)
          |                                 |
     proxy, request drain      deploy / scale / drain / upgrade, reload
          |  picks from routing list        |  management + deploy locks,
          v                                 v  upgrade lock, operation lock
    instances  <-- health checker, spawner, cold start, idle monitor
          |  enqueue / signal                     drain observer (each process)
          v
   workflow socket --> run store (SQLite or Postgres) <-- cron: ticks, reclaim, prune
        |   ^                 |
        |   | claim, save,    | has_runnable_work
        |   | complete, ...   v
        |   worker processes <-- supervisor <-- dispatcher <-- signal()
        +--> in-flight limiter (a cache beside the store)

   publish --> channel broker --> replay store <-- reads after a cursor -- proxy streams
                 ^   |                                                       ^
    peer broker -+   +------------ bounded notification queue ---------------+
```

Almost everything is a tokio task. State is shared through mutexes that are held
for one statement or one table, so the interesting bugs are not torn reads but
decisions taken on state that changed before they were carried out: a probe that
ends after its instance was removed, a claim committed through a runtime that has
been replaced, an attempt that answers after its lease was given to another, an
observer that acts on a flag an operator has lowered. Between processes there are
only files, databases and sockets, and any of those processes may crash.

### What makes each part correct

| Part | Property | Where |
|---|---|---|
| Run store | one owner per running run; the attempt that lost it can change nothing; one outcome per run; the first result of a step is kept; a wait ends in exactly one answer; the retry budget counts only real attempts; a lease is respected | `RunsDb`, checked and proved; `RunLifecycle` as the abstract promise, implemented by both stores |
| Postgres store | the same promise with concurrent transactions; an attempt knows every result of its run; signals never wait for each other in a circle | `PostgresDb`, checked and proved |
| Cron | a boundary becomes one run; none that passed is left out | `Cron`, checked and proved |
| Limiter | a worker process never holds more than its budget; a stale cache never refuses what the database allows; a restart forgets nothing | `InFlight`, checked and proved |
| Dispatcher, supervisor | no signal is swallowed; no lane is over-staffed; due work is eventually claimed; a drain ends | `Dispatch`, checked; the first two proved |
| Instances, rollout, scaling | candidates are hidden until the cutover; an always-on app always has a serving instance; an on-demand app stays reachable | `Instances`, checked; the first two proved |
| Request drain, server drain | a drain reported complete is complete in every process; work is covered by the lease; a gate opens on a restored runtime only; drains and resumes reach every process | `ServerDrain`, checked; all but the last proved |
| Channels | a subscriber sees every committed message of its channel, in order and without a hole, or is reset; it is never left asleep or refused for ever | `Channels`, checked; the first part proved |
| Upgrade and reload | one process at a time executes operations or restores state; nothing is executed during an upgrade; the report is true; the server takes operations again | `Upgrade`, checked and proved |
| Worker SDK | a step's function is not run again once its result is stored | the store's side in `RunsDb`; not modelled in the SDK |
| Compose, network | a failed roll-out keeps the previous services; a name resolves to one registration | not modelled |

## Modules

Every module abstracts data and keeps control: identifiers are model values, JSON
and text are tokens, and time is either a small clock (`RunsDb`, `PostgresDb`,
`Cron`) or "may pass whenever the code waits for it" (the others).

### `RunLifecycle`: what a run store promises

An abstract specification without tables, leases, clocks or transactions: a run is
executed by one attempt at a time, an attempt starts once, records results only
while it holds the run, each step keeps its first result, an event from outside
gives results only to runs nobody executes, and an outcome is final until the run
is forgotten with all it recorded. `RunsDb` and `PostgresDb` instantiate it with a
refinement mapping (`Lifecycle`) from their rows, and their runs check
`ImplementsLifecycle`, that is, that every step of a store is a step of the
abstract one or leaves it unchanged.

### `RunsDb`: the run store on SQLite

`tako-workflows/src/enqueue/sqlite.rs` on the tables of `schema.rs`. Every
operation takes the connection mutex and commits one statement or transaction, so
each is one action: `Enqueue`, `Claim`, `Heartbeat`, `SaveStep`, `Complete`,
`Cancel`, `FailRetry`, `FailDead`, `Defer`, `WaitForEvent`, `Signal`,
`ReclaimExpired`, `PruneFinishedBefore`. The variables `runs`, `steps` and
`event_waiters` are the tables. `claimOf` and `told` are history: which run a claim
owner was issued for and what the store last answered it. The callers are not
modelled as programs; an attempt that was handed a claim may call anything at any
later time (`OwnerStep` when it still owns the run, `StaleCall` when it does not),
which covers every delay, duplicate and zombie the workers can produce. An
operation works with a clock reading up to `Skew` old because `now_ms()` is read
before the mutex is taken. `MAX_LEASE_MS` clamping and the `i64::MAX` sentinel of
a wait without a deadline (`Forever`) are kept.

Left out: `payload`, `last_error`, `created_at` (nothing branches on them),
`max_attempts` (used by the worker only), the `schedules` table (in `Cron`).

### `PostgresDb`: the run store on Postgres

`postgres_store.rs` with several servers on one schema. A transaction is a
sequence of statements under READ COMMITTED: `tx[x]` holds the statement a server's
connection is at, the rows it has locked (`held`), what it wrote (`rows`, `puts`,
`dels`) and what it found (`todo`). `Locked` guards every statement that needs a
row; a statement that waited looks at the row again, which is why `SignalNext` and
`ReclaimNext` recheck (`Consumed`, `Recheck`). `Rollback` may end any transaction,
and `DeadlockVictim` breaks a circle of waits. The calls that are one statement
(heartbeat, complete, fail, defer, enqueue) are one step and are not bound to the
connections of the model: they may come through any other server's. `given` and
`saved` are history: the step results an attempt was handed with its claim and
those it saved itself. The store keeps one connection per app and has no code to
open another one; a broken connection is therefore only the rollback of what was
under way.

### `Cron`: schedules and tickers

`cron.rs` and the operations on `schedules` of both stores. Several tickers (other
servers, or the last tick of a replaced runtime) with clocks `Behind` each other
read the schedules, insert the run of the latest boundary (`TickEnqueue`) and write
`last_run_at` (`TickRecord`) row by row, each in its own transaction, then prune.
`TickFails` and `Crash` stop a tick between any two writes. `Register` is
`replace_schedules` and `Finish` the operation that ends a run; both write a time
of the server that carries them out, hence one that is `Behind` too. A run is the
pair of its schedule and its boundary, as in its id `cron:<name>:<bucket>`.

`FiredOnce` rests on that id being in the table until every ticker has recorded
the boundary. The assumption `CronAssumption` says so: the time for which the
boundary of a finished run stays unrecorded because nobody ticks, a tick and the
difference of clocks are together shorter than the retention, and so are two
ticks and the difference of clocks. Without it a ticker that comes back after the
retention finds the run pruned and `last_run_at` old, and fires the boundary again.
The bound is tight: the cleanup takes runs with `finished_at <= now - retention`,
and with `Retention` equal to the sum TLC finds a boundary that fires twice.

### `InFlight`: the claim budget

`in_flight.rs`, the RPC handlers of `enqueue_socket.rs` that call it, the
reclaiming part of `cron.rs` and `ensure`, `stop`, `retire` of `manager.rs`. The
database is reduced to `running`, the set of owners with a running run: that an
owner never has two is `SoleOwner` of `RunsDb`. A runtime is a generation
`1..gen`; each has its own `cache` and mutex (`lock`), acceptance flag and cron
task. A handler keeps using the runtime it looked up, and the limiter and the
database change under different mutexes, so a claim is the steps lookup, admit,
refresh, database claim, answer, and a completion is lookup, database write,
release. `Crash` and `Restart` lose the caches and keep the database. `gaps`
records why a limiter may have missed claims when it was built: the read of the
database failed, the runtime it replaces was still accepting, or a claim that an
earlier runtime had let through was still on its way to the database.

### `Workers` and `Dispatch`: from due work to a polling worker

`dispatcher.rs`, `supervisor.rs`, the health check of the enqueue handler and the
polling loop of the JavaScript worker. `signal()` is three steps (write, swap of
`pending_signal`, notify), the dispatcher is select, debounce, check and wake,
each its own step. `child` is the process table. A run is a token that is due
(`queue`), not yet due (`delayed`), held by a worker or `lost` under a dead one
until its lease is reclaimed. `SIGTERM`, the drain and the crash cool-down are
actions; `claimed` records, per process, whether it ever claimed, which the code
approximates with one counter for all lanes (`advanced`). `Workers` declares the
state that callers, dispatcher and supervisor share, with the two safety properties;
`Dispatch` extends it by the rest of the state and the actions.

### `Instances`: serving an app

`tako-server/src/instances` (registry, spawner, health checker, rolling update),
`runtime_events.rs`, `scaling/`, `operations/deploy.rs`, `operations/lifecycle.rs`
and the path of a proxy request, for the native instances of one app. Deploys,
scale and stop commands and idle eviction exclude each other (management and deploy locks);
requests, probes, cold starts, the handler of dead instances and crashes run
beside them. `operator`, `handler` and `evictor` hold the position of those three
tasks, `check` a probe in progress, `inst[i].spawn` the start of an instance.

Abstractions worth knowing:

- the number of consecutive failed probes before an instance is declared unhealthy
  or dead is a choice;
- the stability window of a rollout is longer than one round of probes, so a
  candidate that died before the window began is noticed inside it;
- candidates are started one at a time (`batch_size` is 1 for the small counts
  used here);
- the spawner's `Ready` and `Healthy` writes are adjacent statements; the idle
  monitor and the dead-instance handler do not act between them (`Settling`);
- an instance id is reused once nothing refers to it (the code draws random ids);
- a cold start that was begun and has yet to allocate is counted by `leaders`.

### `ServerDrain`: draining and resuming a server

`request_drain.rs`, `operations/drain.rs`, `drain_observer.rs`,
`state_store/drain.rs` and the parts of `server_state.rs`, `manager.rs` and
`runtime_events.rs` they gate. It composes the request registry (`http`), the spawn
gate with the tasks under it (`inst`), the workflow runtime (`wf`), the holder of
the management lock (`task`) and the observer (`obs`) of every process of a server
with what the processes share: the persisted intent (`requested`), the operation
lock (`op`) and the activity lease (`activity`). A drain raises the flag, waits
for requests, takes the gate for writing, stops instances and workflow workers,
gives its own lease back and reports "completed" only if the lease is free
exclusively. Commands (`DeployWorks`) hold the management lock and not the gate, so they
may remove the instance of a spawn under way: `inst[p].spawn` is then `lost`, its
process becomes an `orphan`, and `cut` remembers that a command did it. `Crash` may happen anywhere; a restart goes through
`StartLeases`, `StartReads`, `StartRestores`. Every wait that has a deadline may
end by it. Each process has one instance slot, and an attempt to lock exclusively
is instantaneous.

### `Channels`: one durable channel

`tako-channels/src/store.rs`, `store/sqlite.rs`, `mesh.rs`, the broker, peer
session and client of `tako-server/src/native_channels*`, the streams of
`proxy/service/channels.rs` and the cursor of the SDK's `sse-reader.ts`. `store` is
the SQLite file (rows, head, replay floor, epoch, sequence, ingested sequence of
the peer), `log` the history of every row ever committed. `Publish`, `Ingest`,
`Prune` write it; `bus` is the queue of notifications and `seen` the channel's change
watch in the proxy; `conn` is a stream in its loop `Locate`, `Mark`, `Read`,
`Send`, `Wake`. `link` and `frames` are the session with the peer. What may lose an
event (`SessionLost`, `BrokerRestarts`, `SubscriptionLost`, a full queue, a frame
for an unregistered application) rotates the epoch (`Fence`). The client keeps its
cursor over `Disconnect` and drops it when it is refused (`Expire`).

### `Upgrade`: upgrade and reload of a host

`run_server_upgrade` and its roll-back in the CLI, the `enter_upgrading` and
`exit_upgrading` commands, `state_store/upgrade.rs`, `startup.rs` and its signal
handling, and `native_management_ownership.rs`. Controllers (`ctl`) and processes
(`proc`) take one step per database transaction, SSH command or file write. A
process goes from `spawned` over `bound`, the claim of the exclusive lease, the
marker and the state to `serving`, `ready`, and later `stopping`; `symlink`,
`generation` and `main` say which process each of the three ways to find one leads
to. An operation of the native listener is one the dispatcher refuses while upgrading
(`Execute`) or one of those it does not ask about (`ExecuteUnlisted`: preparing,
running and cleaning up a release, the resume of a drain, an upload); both need the
lease and the management lock. Disturbances (`Kinds`: a failed SSH command, five
failed attempts to give the lock back, a lost answer, a crash, a killed controller, an
operator's reload, a delay of ten minutes) happen at any point, at most `MaxEvents` of
them, and `kinds` remembers which. The start of serving `tako.sock` and the end of the
exclusive lease after it are one step (`Publish`): a command answered in between reads
and writes nothing that the end of the lease does, and no operation is admitted before.

### `MC_*` and `*_proofs`

The `MC_` modules give the lane kinds, owner functions and symmetry sets; they
replace no definition. Each `_proofs` module extends the module it proves about.
`Supervision_proofs` is about two: it extends `Instances` and `Workers`, and
instantiates `Dispatch` as `D`.

Each module also contains operators with a suffix, such as `Claim_SameOwner` or
`Cutover_Blind`: the same operation with one plausible mistake. They are used by
no specification. Substituting one for the operation it is named after makes TLC
report the property it is meant for, which shows that the property can fail.
`TypeOK` is defined in every component module; it is checked in `runs_db` and proved
for all (for `InFlight` and `Channels` as part of the invariant).

## Runs

| Run | Configuration | Result | Checks |
|---|---|---|---|
| `runs_db` | `MC_RunsDb.cfg` | holds | `TypeOK`, `SoleOwner`, `AttemptsAccounting`, `FinishedOnce`, `WaiterParked`, `WaitResolved`, `LeaseRespected`, `ImplementsLifecycle` |
| `postgres` | `MC_PostgresDb.cfg` | holds | `KnowsResults`, `SignalsDoNotDeadlock`, `LeaseRespected`, `ImplementsLifecycle` |
| `cron` | `MC_Cron.cfg` | holds | `FiredOnce`, `NoneLeft` |
| `limiter` | `MC_InFlight.cfg` | holds | `CacheCovers`, `LimiterBudget`, `RestartBudget`, `RefusalJustified` |
| `dispatch` | `MC_Dispatch.cfg` | holds | `NoLostSignal`, `OneWorkerPerLane`, `Served`, `Drained` |
| `rollout` | `MC_Instances_rollout.cfg` | holds | `SuppressedHidden`, `NoGap` |
| `ondemand` | `MC_Instances_ondemand.cfg` | holds | `Reachable` |
| `draining` | `MC_Instances_draining.cfg` | violated | `DrainingUnrouted` |
| `server_drain` | `MC_ServerDrain.cfg` | holds | `Quiescent`, `LeaseCovers`, `NoOrphan`, `LongLivedShut`, `ReopensRestored` |
| `server_drain_live` | `MC_ServerDrain_live.cfg` | holds | `Drains`, `Reopens` |
| `channels` | `MC_Channels.cfg` | holds | `NoSkip`, `NoHole`, `Delivers`, `Recovers` |
| `upgrade` | `MC_Upgrade.cfg` | holds | `OneExecutor`, `QuietUpgrade`, `Reopened`, `OutcomeTrue` |

`CHECK_DEADLOCK FALSE` appears everywhere because every bound ends a behaviour: an
idle system whose bounds are used up has nothing left to do.

What the less obvious properties say:

- `ImplementsLifecycle`: the store is an implementation of `RunLifecycle`. It
  replaces separate checks that a step is written once and that an outcome is
  final, for both stores.
- `KnowsResults`: when an attempt runs, every recorded result of its run was handed
  to it with the claim or saved by it, so it never executes a step again because a
  signal committed while it was being claimed.
- `NoneLeft`: a tick that ends normally leaves no boundary behind that passed while
  its schedule was registered, unless a later one made it superfluous.
- `RestartBudget`: as long as every limiter could read the database and was built
  while no runtime accepted and no claim was under way, the current one counts every
  run its workers still hold, over stop, retire, failed `ensure`, crash and restart.
- `Quiescent`: from the report "completed" until an operator resumes, no process has
  a request, an instance, a spawn or a workflow worker, whatever the others were doing
  when the intent was written. `LeaseCovers` is why: work is covered by the lease the
  report tests. The exception in both is an orphan a command had made before, and
  `NoOrphan` says that nothing else makes one: a cleanup that gives up on the spawn
  gate leaves the placeholder of the spawn in the registry.
- `ReopensRestored`: the flag falls in a process with its lease and its workflow
  runtime, and with admission open unless the observer, which had read the intent
  before the resume cleared it, closed it again. `Reopens` speaks of the flag only.
- `NoSkip`: what a client was shown is exactly the committed log between its start
  and its cursor. `NoHole`: the same for the peer's sequence, over sessions, queues
  and restarts. `Recovers`: after the last fault the client has a stream for good.
- `OneExecutor`: restoring state and executing operations never overlap between
  processes. `QuietUpgrade`: while a controller knows that it holds the lock,
  none of the operations that the dispatcher refuses while upgrading is executed, those
  admitted before included. `Reopened`: after failed commands, if one of the five
  attempts to give the lock back gets through, or after delays, the server is reached
  and takes operations again, unless a controller has told its user that the roll-back
  failed. `OutcomeTrue`: the report says what happened.

### Bounds, and why they are enough

- `runs_db`: two runs (so that signal, reclaim and prune act on more than one row,
  and a prune limit of one really cuts), three claim owners (an attempt, the one
  that takes over and a third that finds out what the second left), two step names
  (a waited-for step and another one), leases asked for below and above the clamp,
  and a clock up to 3 with readings one unit old: long enough for claim, expiry,
  reclaim, second claim and prune.
- `postgres`: two servers in a transaction each and any number of single statements
  beside them, two runs (a circle of waits needs two rows), three owners, one step,
  one event, a clock of two values, so that leases and waits are over or not.
- `cron`: two tickers, one of them behind, two schedules with different
  boundaries, two registrations, a failure or a crash, and a clock that passes
  the retention, which is the least that `CronAssumption` allows, so that runs are
  pruned while a ticker is late.
- `limiter`: one worker process, two owners, a budget of one (`Concurrency = 0` is
  raised to 1 by the code), two overlapping RPCs and two runtimes. Exceeding a
  budget takes one owner more than the budget and two calls that interleave.
- `dispatch`: one scale-to-zero and one always-on lane, two process slots, a caller
  inside `signal()`, one enqueue, one park or retry, one crash or failed spawn.
- `rollout`: an always-on app with one desired instance, two ids (the old instance and
  a candidate, an added one or a replacement), two commands (deploys, stops and scales to
  1 or 2 in any order), one fault and one eviction at any point, one request. A failed
  scale-up followed by a scale-down, and a death during a command, fit in: without any
  one of the conditions of `NoGap` TLC finds it violated here. It was also checked with
  three ids and two commands, without requests and stops.
- `ondemand`: one id, two faults, one eviction, one request that is repeated.
- `server_drain`: two processes, two commands among drain, resume and deploy in any
  order, one crash or failed step, the requests of one proxy. A deploy makes an orphan
  and a drain meets it, or a drain is undone, with two commands. It was also checked
  with three commands (9.0 million states), and its properties are all proved for any
  number. `server_drain_live`: the same without faults, and deploys only in the process
  without requests.
- `channels`: two events of the peer (a hole needs one missing and one after it),
  one local, room for one in the store and in every queue, so that each overflows
  with its second entry, one fault at any point.
- `upgrade`: two controllers, five processes (three reloads or restarts beside the
  first process and a spare one), one disturbance of any kind at any step.

### Fairness

Liveness is checked under `FairSpec`.

- `Dispatch` assumes that tokio runs ready tasks (`DispatcherStep`,
  `DispatcherStops`, `BeginDrain`, `SenderStep`, `HandlerStep`), that timers fire
  (`Reap`, `CoolDown`, `Reclaim`, `Due`) and that worker processes that are not
  crashed make progress (`Bootstrapped`, `ClaimStep`, `Exit`). Nothing is assumed
  of callers, crashes, failed wakes, empty claims or the idle time-out.
- `Instances` assumes that a client repeats its request, that waits time out, that
  starts, cold starts, probes, event handlers, the evictor and a command in
  progress go on, and that the idle monitor keeps ticking (`AppIdle`). Nothing is
  assumed of crashes, failed probes, evictions or new commands.
- `ServerDrain` assumes that the holder of a lock goes on (every wait in it has a
  deadline), that spawns and stopped workers end, and that a connection that was
  shut down ends. The observer is strongly fair: it looks every second and queues
  for the tokio mutex of the management lock, which is granted in order. Nothing is
  assumed of operators, clients or spawns that were not begun.
- `Channels` assumes that the tasks of broker, proxy and stream run, that sessions
  are dialled again and their loss is noticed, and that a client reconnects. Nothing
  is assumed of publishers, ageing, pruning or faults.

Everything else is weak fairness.

## Finding

**`draining`**. The spawner ends a start with an unconditional
`set_instance_state(Healthy)` (`tako-server/src/instances/spawner/mod.rs:116`); an
instance marked `Draining` while it was starting is routed to again until it is
killed. `rolling.rs:302` says of that state "load balancer should stop sending new
requests".

### Seen in the models

These are stated as properties in the modules and do not hold. They are not in the
configurations; naming one in the `INVARIANTS` or `PROPERTIES` of the cfg given here
makes TLC print the behaviour.

- `ServerBudget` (`MC_InFlight.cfg`). `manager.rs:281` promises that rows of a
  previous process "count against the live budget". `ensure` reads them before it
  swaps the runtime in (line 341), while the old runtime accepts until line 345. A
  claim committed through the old limiter in between is in neither the snapshot nor
  the new cache. It is not enough that the old runtime has stopped accepting: with
  three runtimes (`MaxGen = 3`) a claim that the first one let through commits after
  the third one's snapshot, although both earlier ones were stopped in order. The
  condition of `RestartBudget` leaves this case out.
- `KeepsPreviousRelease` (`MC_Instances_rollout.cfg` with `MinInstances = 0`).
  `deploy.rs:276` installs the new configuration before the rollout, so a cold start
  during the rollout runs the new build unsuppressed, and a failed rollout removes
  only its own candidates. `website/docs/how-tako-works.md:79` says "deploy rolls
  back and keeps the previous release serving".
- `ColdCrashNoticed` (`MC_Dispatch.cfg`). The counter the reaper compares
  (`supervisor.rs:303`) is shared by all lanes, so a worker that crashes before it
  claimed anything is taken for a normal exit when another lane claimed meanwhile.
- `RestoresGated` (`MC_ServerDrain.cfg`). The observer tests the flag and then waits
  for the management lock (`drain_observer.rs:47`). An operator's resume may lower
  the flag in between; the observer then goes on to stop and restore the apps of a
  process that has just been resumed.
- `AdmitsAgain` (`MC_ServerDrain.cfg`). The observer reads the intent, raises the flag,
  closes admission and reads the flag again (`drain_observer.rs:42-48`). When a resume
  clears the intent and opens admission before the observer closes it, and lowers the
  flag before the second read, the observer returns and admission stays closed, with
  neither flag nor intent for anybody to act on, until the next drain or restart.
- `NothingLeft` (`MC_ServerDrain.cfg`). `website/docs/networks.md:165` says that a
  completed drain "requires every proxy process on that server to be quiescent". A
  deploy, scale or stop before the drain may have removed an instance between its
  allocation and the recording of its process (`spawner/mod.rs:97`): the process comes
  up, no registered instance owns it, and the drain neither counts nor stops it.
- `PeerHeard` (`MC_Channels.cfg`). An event that the peer commits before it has
  attached this server (`native_channels/broker.rs:125`) is sent to nobody, and
  attaching resets no stream: a client learns of it only through the hole-check at
  the peer's next event.
- `OrdinaryReload` (`MC_Upgrade.cfg`). `PROTOCOL.md:15` says that an ordinary reload
  has no marker. Between the controller's marker and its reload, an operator's
  reload takes the marker; the controller's SIGHUP is then not handled, or handled
  without it.
- `RejectsWhileUpgrading` (`MC_Upgrade.cfg`). `tako-server/README.md:26` says that
  mutating commands are rejected while upgrading. `operations/dispatch.rs` asks for
  the mode in eleven of them; `PrepareRelease`, `CleanupPreparedDeploy`,
  `CleanupRelease`, `RunRelease`, `ResumeServer` and the native upload
  (`native_management/upload.rs:64`) run through an upgrade (`ExecuteUnlisted`). And
  an `enter_upgrading` that arrives at a process which is being replaced sets that
  process's mode in memory, not its successor's. `QuietUpgrade` holds of the eleven,
  under the condition that the process which answered is still the one `tako.sock`
  leads to.

Met while modelling, with no document or comment that promises otherwise:

- a scale-up whose process cannot be spawned leaves a `Starting` instance in the
  registry, which the next scale-down counts as running and keeps, draining a healthy
  one instead (`operations/lifecycle.rs:104`). In the same way the replacement of an
  instance that was reported dead counts as running before it serves. No instance may
  then be routed to, although nobody stopped the app; `NoGap` states both as conditions
  (`~used.stuck`, `~used.sick`), and without either it does not hold in `rollout`;
- a command that removes an instance between its allocation and the recording of
  its process leaves an orphan that becomes routed when its start ends. Nobody
  probes it, so when it dies it stays in the routing list and no cold start begins:
  `Reachable` fails with a stop during a cold start and a crash
  (`MC_Instances_ondemand.cfg` with two ids, `Stops = TRUE` and one command);
- the idle monitor may reset a cold start that has not allocated yet: its waiter
  fails although the start goes on (`Reachable` shows that the next request is
  served);
- a request that has chosen its backend and is not yet counted in flight may see
  its instance drained and killed;
- a replacement that fails to start is not tried again;
- `retire` takes an app out of the lookup map and installs its retained handlers
  only after cron and dispatcher have ended; RPCs of its workers in between get
  `unknown app`;
- a controller killed between install and reload leaves the new binary installed
  and the old one running; the next upgrade asks the installed binary for its
  version and says that the server is up to date;
- a child of a reload that fails after it has taken `tako.sock` leaves the symlink
  dangling, and the parent does not handle a second SIGHUP;
- a connection that goes down before the binary was replaced and stays down over the
  five attempts to give the lock back (`upgrade/mod.rs:526-547`) leaves the server in
  upgrading mode with the lock held; the user is told that the upgrade failed, not that
  the server is closed (`ReopenedDown`, with `MC_Upgrade.cfg`). An `enter_upgrading`
  whose answer is lost does the same. It lasts until another upgrade takes the stale
  lock or a reload clears the mode (this is why `Reopened` leaves lost answers, five
  failed exits, kills, crashes and other people's reloads out);
- an installation whose answer is lost is not rolled back: the controller gives the
  lock back and reports a failure, and the next restart runs the new binary;
- a delay and a failed command together can do the same to three controllers (TLC, with
  two disturbances): the first is held up for ten minutes between its lock and its mode;
  the second takes the stale lock at a process that is about to stop, gets no answer and
  ends; the first enters the mode, a command of it fails, and it is refused the exit,
  since the lock is not its own any more. The server stays in upgrading mode and nobody
  was told of a failed roll-back (this is why `Reopened` takes failed commands and
  delays one at a time);
- the CLI's wait for the new process accepts one that has not yet told systemd that
  it is ready.

## Proofs

TLAPS proves the following for every value of the constants that satisfies the
named assumptions of the modules: any number of runs, owners, servers, workers,
lanes, calls, runtimes, tickers, processes and controllers, any clock readings,
lease lengths, queue sizes and any number of faults. The assumptions
(`ConstantsAssumption`, `NullAssumption`, `LimiterAssumption`, `CronAssumption`,
`DispatchAssumption`, `InstancesAssumption`, `NoneAssumption`, `BoundAssumption`, `SizeAssumption`,
`UpgradeAssumption`) say that the null values differ from the others, that numbers
and bounds are natural, that queues and pages hold at least one entry, that the
sets that are counted are finite and that the clock stays below `i64::MAX`. Only
`CronAssumption` says more, see the module.

Every proof has the same shape: an inductive invariant, one lemma per action (or per
group of actions that do the same to it), a lemma that combines them, and the
properties as corollaries. Why each invariant is more than the property:

### `RunsDb_proofs`

`IInv` is the conjunction of `TypeOK`, `SoleOwner`, `AttemptsAccounting`,
`FinishedOnce`, `WaiterParked`, `NoOrphans` and `IssuedOnce`. None of the main
conjuncts is inductive alone. `SoleOwner` makes a call of an attempt that lost its
run harmless. The attempt count needs it, because `Defer` and `WaitForEvent` give
back an attempt that exactly one open claim has taken, and it needs `IssuedOnce`
(an owner that was never handed out has no claim), so that a claim adds exactly one
owner to those that are counted. `WaiterParked` is preserved by `Claim` because a
run is claimable only at its `run_at`, which is the deadline of its only waiter:
the claim finds that waiter expired and removes it with a result. `NoOrphans` is
what an id that is enqueued again after a prune needs to start empty.

The refinement maps each action to a step of `RunLifecycle` through what can be seen
of the tables (`Phase`, `Holder`, `Started`): what changes at one run, what the
other runs keep, and which abstract step that is. `SoleOwner` makes a call of an
attempt a step of the attempt that executes the run, `NoOrphans` makes a prune
forget all of it.

| Theorem | Statement |
|---|---|
| `TypeCorrect` | `Spec => []TypeOK` |
| `Invariance` | `Spec => []IInv` |
| `Fencing`, `RetryBudget`, `SingleOutcome`, `WaitsAreParked` | `SoleOwner`, `AttemptsAccounting`, `FinishedOnce`, `WaiterParked` |
| `StepsKept`, `WaitsResolved`, `LeasesRespected`, `OutcomesFinal` | the action properties `StepWriteOnce`, `WaitResolved`, `LeaseRespected`, `TerminalFinal` |
| `Refinement` | `Spec => ImplementsLifecycle` |

`StepWriteOnce` and `TerminalFinal` are in no configuration of their own:
`ImplementsLifecycle` contains them.

### `PostgresDb_proofs`

`IInv` speaks of the committed tables (`RowOK`, `WaitOK`, `Knows`) and of every open
transaction (`TxOK`). A transaction writes only rows it has locked (`Covered`), and
a row is locked once (`Locks`); so what a transaction has read of a row is still true
when it commits, and that is what `ClaimOK`, `SaveOK`, `ParkOK`, `SignalOK`,
`ReclaimOK` and `PruneOK` keep: the row the commit will write is the committed row
with that one change. `Knows` survives the commit of a claim because the steps it
hands out are read after the row is locked and a signal that could add one needs
the same lock, and it survives the commit of a signal because the rows that waits
are tied to are pending (`WaitOK`). `FreshOwners` keeps two concurrent claims from
handing out one owner. `SignalOK` says that a signal waits only for a run that
comes after all it has locked, which is the order `SignalsDoNotDeadlock` needs.
The commit of each kind has a lemma of its own
(`ClaimCommitStep` and so on).

| Theorem | Statement |
|---|---|
| `TypeCorrect`, `Invariance` | `Spec => []TypeOK`, `Spec => []IInv` |
| `ResultsKnown` | `Spec => []KnowsResults` |
| `NoSignalDeadlock` | `Spec => []SignalsDoNotDeadlock` |
| `LeasesRespected` | `Spec => LeaseRespected` |
| `Refinement` | `Spec => ImplementsLifecycle` |

### `Cron_proofs`

A boundary is fired twice only if its run was pruned between two inserts. `Safe`
therefore follows a run to its end and beyond: one that finished and whose boundary
is not recorded, or is still in the hands of a tick, finished so recently (`Soon`)
that no ticker's clock is a retention ahead (`RunOK`); hence what a cleanup removes
is recorded and in no tick, and stays so (`PrunedOK`): a ticker that records an
older boundary late began its tick before the newer one had passed (`TickOK`), and
no tick is that old once the run is pruned.

`NoneLeft` needs a second invariant, `LeftInv`: what a row holds as its last run is
from before its registration or was inserted (`LastOK`), however late it was
written, and of the boundaries that had passed when a tick began each one, or a
later one, was inserted or is still to be by that tick (`LeftOK`).

| Theorem | Statement |
|---|---|
| `TypeCorrect`, `Invariance` | `Spec => []TypeOK`, `Spec => [](Safe /\ TypeOK)` |
| `BoundaryOnce` | `Spec => []FiredOnce` |
| `BoundariesKept` | `Spec => NoneLeft` |

### `InFlight_proofs`

`IInv` is `TypeOK`, `CacheCovers`, `LimiterBudget`, `Reserved` and `Settled`.
`LimiterBudget` follows from `CacheCovers` (what a limiter handed out and is still
running is in its cache) once the cache of an admitted claim has room. That room
must survive until the claim is committed, which is `Reserved`: the call holds the
limiter's mutex from the admission to the answer, and no other step enlarges
that cache meanwhile. `Settled` ties an owner about to be released to a run that
is no longer running, so that a late release never removes a live entry.

`RestartBudget` is about all runtimes together. While no limiter was built over a
gap, only the newest one admits, every claim under way is its own, and its cache has
every run that is out, those of earlier runtimes included (`NewestCounts`); then a
claim it lets through is counted with all of them. `ManagedInv` says how far
`ensure` and `retire` are, so that no older runtime starts to accept again.

| Theorem | Statement |
|---|---|
| `Invariance` | `Spec => []IInv` |
| `BudgetKept` | `Spec => []LimiterBudget` |
| `SlotsKept` | `Spec => []CacheCovers` |
| `Refusals` | `Spec => RefusalJustified` |
| `BudgetAcrossRestarts` | `Spec => []RestartBudget` |

### `Supervision_proofs`

The dispatcher's part speaks of `D!Spec`, an instance of `Dispatch`; the assumption of
an instantiated module is not a fact for the prover, so the theorems have it as their
hypothesis `D!ConstantsOK`. `NoLostSignal` is inductive with the types.
`OneWorkerPerLane` is a count: the live workers of a lane are a finite set that only
`WakeSpawns` and `WakeFails` enlarge, by no more than what they found missing.

In the part about instances, `SuppressedHidden` is inductive with the types.
`NoGap` is not, by far: that a serving instance is left when a command stops the old
ones depends on everything that may have happened to the candidates since they were
started. The invariant is `Covered`: as long as nobody stopped the app, no probe took a
serving instance away or reported one dead, and no failed scale-up left an instance
that only seems to run (`Calm`),

- only rollouts and scale-ups start instances, and until the cutover those of a
  rollout are exactly the suppressed ones (`Phases`);
- the candidates it has and those it has yet to start are together as many as the
  configuration asks for (`Counts`), so a rollout that comes to its cutover replaces
  every instance it stops;
- the handler, the evictor and cold starts do nothing beside a command (`Alone`);
- the deaths that wait in the event queue are those of candidates or of instances that
  are gone, and a candidate reported dead cannot have passed its stability window
  unnoticed: its state is locked, or the probe of the window is going to find it dead
  (`Deaths`). This part is why the cutover never swaps in an instance that is about to
  be removed;
- every other registered instance serves once its start is over, or is locked in a
  state that only its removal ends (`Begun`); those that neither the command nor the
  evictor is about to stop (`Staying`) are at least as many as the configuration asks
  for if the command fails (`Target`); and those that serve during a scale-up are,
  with the ones it has yet to start, as many as it was asked for (`Supplied`). `NoGap`
  follows.

Scaling up and down, deploys of any release, failed starts, crashes, probes, evictions
and requests are all included, in any number; the conditions are those of `NoGap`
itself, and each is needed (see "Seen in the models").

| Theorem | Statement |
|---|---|
| `WorkersTyped` | `D!Spec => []D!TypeOK` |
| `SignalsKept` | `D!Spec => []NoLostSignal` |
| `WorkersBounded` | `D!Spec => []OneWorkerPerLane` |
| `TypeCorrect` | `Spec => []Typed` (`TypeOK` and what a command knows) |
| `HiddenUntilCutover` | `Spec => []SuppressedHidden` |
| `ServesThroughRollouts` | `Spec => []NoGap` |

### `ServerDrain_proofs`

`Inv` is local to a process (`Controls`: which task is at which place; `Gated`: a
spawn fills an instance that is registered unless a command removed it, and a cleanup
that holds the gate is alone; `Registry`: a closed registry has shut its
long-lived requests; `Leased`: where the activity lease is held), except for
`Owned` (the operation lock belongs to the one process that drains or resumes, and
the intent is what it wrote) and `Silent` (from the report on, whoever holds the
lease is a starting process that has yet to read the intent). `Only`, `Shares` and
`Hushed` say what a step of one process may do to the rest; `Good` combines them, and
one lemma turns `Good` into `Inv'`, so that each action is proved for its own process
only. `Quiescent` then follows: work is leased, and a process that starts has none.

| Theorem | Statement |
|---|---|
| `TypeCorrect`, `Invariance` | `Spec => []TypeOK`, `Spec => []Inv` |
| `WorkIsLeased` | `Spec => []LeaseCovers` |
| `DrainIsComplete` | `Spec => []Quiescent` |
| `InstancesRegistered` | `Spec => []NoOrphan` |
| `StreamsShut` | `Spec => []LongLivedShut` |
| `GateOpensRestored` | `Spec => ReopensRestored` |

### `Channels_proofs`

`ReplayInv` ties the client's history to the log by its position `Pos`. A cursor
and a stream are `Valid` if they point to that position in an epoch that has not
passed; in the current epoch the store is then `Whole` from the client's start: each
row of the peer is backed by the rows of all events before it. Only an ingest that
skips an event breaks that, and it rotates the epoch, which invalidates every cursor
and stream before the row can be read (`StoreStep` is all the broker does to the
store). `PageInv` carries both over the time between the read of a page and its
delivery, while rows are pruned and added.

| Theorem | Statement |
|---|---|
| `Invariance` | `Spec => [](ReplayInv /\ FramesOK)` |
| `ShownInOrder` | `Spec => []NoSkip` |
| `ShownWithoutHole` | `Spec => []NoHole` |

### `Upgrade_proofs`

`ProcInv` is about the processes alone: at most one is on its way up and it is the
last that was spawned, and a main process that could still be reloaded has no child
on its way (`OneStarting`); the process that restores owns socket and generation
(`LatestServes`); operations run in the current generation only (`Exclusive`).
`FenceInv` adds the controllers: while the lock is held by a controller that was
answered, the process of the current generation knows of the upgrade or is about to
clear exactly that lock, and nobody is between the two statements of a command that
would reopen it. `CommandInv` is what the management lock gives: one command at a
time per process, none beside an operation.

`OutcomeInv` is behind what a controller reports. The new binary stays installed
while a controller that replaced it is at work, because the old one is saved only
while a single controller could put it back (`BinaryInv`). Process ids follow the
socket, and a process that is no child of a reload started when nothing else was
alive (`OrderInv`). So a process with a higher id than the one a controller found
first is the child of a reload and runs the new binary, or it is a plain start that
will take the controller's lock away before it answers (`NewInv`, `Clears`): while
the lock is still held, whoever answers is new. After the restart of a roll-back the
main process is gone or stopping until everything alive runs the previous binary
(`RollbackInv`). For the proof a step is one of four things to the processes: none
starts or gets further (`Steady`), the unit is booted, a reload has a child
(`Reborn`), or one gets a step further in its startup (`Rises`).

`RecoveryInv` is behind `Reopened`, and says why a server does not stay in upgrading
mode. Either what is in memory will be thrown away (`Doom`): the unit is being
restarted, and a process that starts as no child clears mode and lock (`Reset`), or a
controller is about to restart it, because it has replaced the binary and has failed,
or will when it finds that the lock is no longer its own (`Doomed`). Or the server is
`Orderly`: the main process is the one that is reached unless its child is; while a
child is on its way, or has failed to come up, the controller that reloaded holds the
lock and waits for an answer it does not get, so that it will restart the unit when it
gives up; and if the process that is reached is in upgrading mode, some controller is
going to end that where it is reached (`Undoes`). It needs three facts beside it.
`BootInv`: a process that starts as no child starts alone, so the lock it has read is
the lock it deletes, and its mode is normal when it serves. `TimesInv`: without delays
only the lock of a controller that has ended is stale, and only a failed command makes
a controller give up before it has replaced the binary; failed commands and delays
together would break `Undoes`, as above. `FinalInv`: a reported failure of the
roll-back is never taken back, so a state without one has none behind it. Each action
is a turn of its controller (`Turns`), takes or frees the lock, sets a mode, starts a
child, halts the unit, or is a step of a startup, and there is one lemma for each. The
conjunction was an invariant of TLC on the run's instance first.

| Theorem | Statement |
|---|---|
| `TypeCorrect`, `ProcessInvariance`, `Invariance` | `TypeOK`, `ProcInv`, `IInv` |
| `SingleExecutor` | `Spec => []OneExecutor` |
| `FenceHolds` | `Spec => []QuietUpgrade` |
| `ReportsTrue` | `Spec => OutcomeTrue` |
| `ServerReopens` | `Spec => []Reopened` |

### Model-checked only

- Liveness (`Served`, `Drained`, `Reachable`, `Drains`, `Reopens`, `Delivers`,
  `Recovers`): fairness and `ENABLED` are beyond the prover. Induction over data and
  recursive operators would be too; no module uses them.

## Plan

Every invariant and every action property of the runs is proved; what is left to the
model checker is listed above. Modelling that would come next: the step API and heartbeats of the JavaScript
worker against `RunLifecycle`, the rows a deploy writes and their restore, the
Postgres live store of channels, the roll-out of Compose stacks.

## Not modelled

The modules stand for the control of the workflow engine, the channel delivery and
the instance, drain and upgrade logic of the server. That is a small share of the
repository's lines; most of the rest is one of the following.

- TLS and ACME, backups and object storage, the container engine, image
  transformation: external services, transfers and libraries. What could go wrong
  there is in formats and other programs' answers, not in an order of steps.
- The network crate (enrolment, identity, keys, transport, tunnels): cryptographic
  protocols and sockets; a model of its control without the cryptography would show
  little. Sessions between brokers are modelled in `Channels` as far as delivery
  depends on them.
- The CLI, except upgrade and reload, and the dev server: sequential clients of
  the management socket: configuration, building, SSH, terminal output.
- Compose stacks: the state is the container engine's; plan and roll-out call it one
  service after the other.
- Release directories and artifacts: file-system work nothing else shares while it
  runs.
- The Go and Rust SDKs: ports of the protocol whose server side is modelled.
- Workflow monitoring: read-only queries.
- Of the modelled parts: authentication, framing, JSON, logs, metrics, cgroups,
  the spawn environment, containers, request routing by host and path, headers,
  static files and compression; presence and ephemeral channel messages.
