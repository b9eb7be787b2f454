-------------------------------- MODULE Cron --------------------------------
(***************************************************************************)
(* The cron tickers of one app and the schedules they share.               *)
(*                                                                         *)
(* Every server that has the app runs a ticker on its own clock, and the   *)
(* ticker of a replaced runtime may still be in its last tick.  A tick     *)
(* reads the schedules, then enqueues and records the latest boundary of   *)
(* each one that is due, row by row, each in a transaction of its own, and *)
(* ends with the cleanup of old runs.  A worker that starts registers its  *)
(* app's schedules again.  What a server writes into the database, the      *)
(* begin of a schedule and the end of a run, it reads off its own clock.   *)
(*                                                                         *)
(* A run is the pair of its schedule and its boundary, which is what the   *)
(* id "cron:<name>:<bucket>" says.  Workers only finish runs here; what    *)
(* else happens to them, and the reclaim of a tick, is in RunsDb.          *)
(***************************************************************************)
EXTENDS Naturals, FiniteSets, FiniteSetsExt

CONSTANTS
    Tickers,
    Schedules,
    Boundaries,   \* of each schedule, the times it is to run at
    Behind,       \* of each server's clock, how far it is behind
    Retention,    \* how long a finished run is kept
    MaxTick,      \* how long a tick may take
    MaxOutage,    \* how long the boundary of a finished run may stay
                  \* unrecorded since nobody ticks
    MaxTime, MaxRegisters, MaxFaults

ASSUME CronAssumption ==
    /\ Boundaries \in [Schedules -> SUBSET (1..MaxTime)]
    /\ Behind \in [Tickers -> Nat]
    /\ {Retention, MaxTick, MaxOutage, MaxTime, MaxRegisters, MaxFaults} \subseteq Nat
    /\ \A t \in Tickers : MaxOutage + MaxTick + Behind[t] < Retention
                         /\ 2 * MaxTick + Behind[t] < Retention

Rows == UNION {{s} \X Boundaries[s] : s \in Schedules}

VARIABLES
    now,
    registered,   \* the names in the schedules table
    last,         \* last_run_at of each row
    runs,         \* the runs in the database
    doneAt,       \* finished_at of each run, 0 before
    tick,         \* what each ticker is doing
    registers, faults,
    since,        \* since when a schedule is registered
    fired         \* how often each boundary was inserted

vars == <<now, registered, last, runs, doneAt, tick, registers, faults, since, fired>>

NoRow == <<>>
Idle == [pc |-> "idle", at |-> 0, todo |-> {}, row |-> NoRow]

Init ==
    /\ now = 0
    /\ registered = {} /\ last = [s \in Schedules |-> 0]
    /\ runs = {} /\ doneAt = [r \in Rows |-> 0]
    /\ tick = [t \in Tickers |-> Idle]
    /\ registers = 0 /\ faults = 0
    /\ since = [s \in Schedules |-> 0]
    /\ fired = [r \in Rows |-> 0]
-----------------------------------------------------------------------------
(* Variant: a registration starts every schedule anew. *)
Register_Resets(t, names) ==
    /\ registers < MaxRegisters /\ registers' = registers + 1
    /\ Behind[t] <= now
    /\ registered' = names
    /\ last' = [s \in Schedules |-> IF s \in names THEN now - Behind[t] ELSE last[s]]
    /\ since' = [s \in Schedules |-> IF s \in names \ registered THEN now ELSE since[s]]
    /\ UNCHANGED <<now, runs, doneAt, tick, faults, fired>>

(* replace_schedules of a server: rows that are not named go, new ones      *)
(* begin now on its clock, and the others keep their last_run_at.           *)
Register(t, names) ==
    /\ registers < MaxRegisters /\ registers' = registers + 1
    /\ Behind[t] <= now
    /\ registered' = names
    /\ last' = [s \in Schedules |-> IF s \in names \ registered THEN now - Behind[t]
                                    ELSE last[s]]
    /\ since' = [s \in Schedules |-> IF s \in names \ registered THEN now ELSE since[s]]
    /\ UNCHANGED <<now, runs, doneAt, tick, faults, fired>>

(* tick_once reads the table and its clock.  Of the boundaries since the    *)
(* last run of a schedule only the latest that has passed is kept.          *)
Due(s, at) == {b \in Boundaries[s] : last[s] < b /\ b <= at}

TickStart(t) ==
    /\ tick[t].pc = "idle" /\ Behind[t] <= now
    /\ LET at == now - Behind[t]
       IN  tick' = [tick EXCEPT ![t] =
                      [pc |-> "enqueue", at |-> at, row |-> NoRow,
                       todo |-> {<<s, Max(Due(s, at))>> :
                                    s \in {r \in registered : Due(r, at) # {}}}]]
    /\ UNCHANGED <<now, registered, last, runs, doneAt, registers, faults, since, fired>>

(* The id of a run is unique: a second insert of a boundary does nothing.   *)
Inserted(row) == row \notin runs

TickEnqueue(t) ==
    /\ tick[t].pc = "enqueue"
    /\ \E row \in tick[t].todo :
          /\ runs' = runs \cup {row}
          /\ fired' = IF Inserted(row) THEN [fired EXCEPT ![row] = @ + 1] ELSE fired
          /\ tick' = [tick EXCEPT ![t].pc = "record", ![t].row = row, ![t].todo = @ \ {row}]
    /\ UNCHANGED <<now, registered, last, doneAt, registers, faults, since>>

(* set_schedule_last_run_at: whatever the row holds by now, if it is there. *)
TickRecord(t) ==
    /\ tick[t].pc = "record"
    /\ LET row == tick[t].row
       IN  last' = IF row[1] \in registered THEN [last EXCEPT ![row[1]] = row[2]] ELSE last
    /\ tick' = [tick EXCEPT ![t].pc = "enqueue", ![t].row = NoRow]
    /\ UNCHANGED <<now, registered, runs, doneAt, registers, faults, since, fired>>

(* Variant: finished runs are not retained. *)
Prunable_AtOnce(t) == {r \in runs : doneAt[r] # 0}

(* prune_finished_before removes runs that finished a retention before the  *)
(* ticker's time, to the millisecond.                                       *)
Prunable(t) == {r \in runs : doneAt[r] # 0 /\ doneAt[r] + Retention <= tick[t].at}

(* A tick ends with the cleanup, if one is due and up to its batch size.    *)
TickEnd(t) ==
    /\ tick[t].pc = "failed" \/ (tick[t].pc = "enqueue" /\ tick[t].todo = {})
    /\ tick' = [tick EXCEPT ![t] = Idle]
    /\ \E gone \in SUBSET Prunable(t) :
          /\ runs' = runs \ gone
          /\ doneAt' = [r \in Rows |-> IF r \in gone THEN 0 ELSE doneAt[r]]
    /\ UNCHANGED <<now, registered, last, registers, faults, since, fired>>

(* An error ends the rows of this tick, not its cleanup. *)
TickFails(t) ==
    /\ faults < MaxFaults /\ faults' = faults + 1
    /\ tick[t].pc \in {"enqueue", "record"}
    /\ tick' = [tick EXCEPT ![t].pc = "failed", ![t].row = NoRow, ![t].todo = {}]
    /\ UNCHANGED <<now, registered, last, runs, doneAt, registers, since, fired>>

(* The server stops in the middle of a tick and starts again. *)
Crash(t) ==
    /\ faults < MaxFaults /\ faults' = faults + 1
    /\ tick[t].pc # "idle"
    /\ tick' = [tick EXCEPT ![t] = Idle]
    /\ UNCHANGED <<now, registered, last, runs, doneAt, registers, since, fired>>

(* complete, cancel and the final fail: a worker of one server claims a run *)
(* that is due on that server's clock, and the server writes its end with   *)
(* the same clock.                                                          *)
Finish(t, row) ==
    /\ row \in runs /\ doneAt[row] = 0
    /\ row[2] + Behind[t] <= now
    /\ doneAt' = [doneAt EXCEPT ![row] = now - Behind[t]]
    /\ UNCHANGED <<now, registered, last, runs, tick, registers, faults, since, fired>>

(* Time passes, no tick taking longer than MaxTick and no outage of every   *)
(* ticker after the end of a run, whose clock may have been the slowest,    *)
(* longer than MaxOutage.                                                   *)
Pass ==
    /\ now < MaxTime
    /\ \A r \in runs : r[1] \in registered /\ r[2] > last[r[1]] /\ doneAt[r] # 0 =>
                         \E t \in Tickers : now < doneAt[r] + Behind[t] + MaxOutage
    /\ \A t \in Tickers : tick[t].pc # "idle" => now < tick[t].at + Behind[t] + MaxTick
    /\ now' = now + 1
    /\ UNCHANGED <<registered, last, runs, doneAt, tick, registers, faults, since, fired>>
-----------------------------------------------------------------------------
Tick(t) == TickStart(t) \/ TickEnqueue(t) \/ TickRecord(t) \/ TickEnd(t)

Next ==
    \/ \E t \in Tickers : \E names \in SUBSET Schedules : Register(t, names)
    \/ \E t \in Tickers : Tick(t) \/ TickFails(t) \/ Crash(t)
    \/ \E t \in Tickers : \E row \in Rows : Finish(t, row)
    \/ Pass

Spec == Init /\ [][Next]_vars
-----------------------------------------------------------------------------
TypeOK ==
    /\ now \in 0..MaxTime /\ registered \subseteq Schedules
    /\ last \in [Schedules -> 0..MaxTime] /\ since \in [Schedules -> 0..MaxTime]
    /\ runs \subseteq Rows /\ doneAt \in [Rows -> 0..MaxTime]
    /\ tick \in [Tickers -> [pc : {"idle", "enqueue", "record", "failed"}, at : 0..MaxTime,
                              todo : SUBSET Rows, row : Rows \cup {NoRow}]]
    /\ registers \in 0..MaxRegisters /\ faults \in 0..MaxFaults
    /\ fired \in [Rows -> Nat]

(* A boundary becomes one run, however many tickers meet at it, whichever   *)
(* of them records an older boundary last, crashes between the two writes   *)
(* or finds the run already pruned: a run is kept past the last tick that   *)
(* may enqueue it again, though its end was written with a slow clock and   *)
(* the cleanup takes the runs that are exactly a retention old.             *)
FiredOnce == \A r \in Rows : fired[r] <= 1

(* A boundary that passed while its schedule was registered is not lost: a  *)
(* tick that ends without an error or a crash leaves none behind, it, or a  *)
(* later one that makes it superfluous, was enqueued, through registrations *)
(* that keep the schedule and the stale writes of other tickers.            *)
Passed(s, t) == {b \in Boundaries[s] : since[s] < b /\ b <= tick[t].at}

NoneLeft ==
    [][\A t \in Tickers :
          tick[t].pc = "enqueue" /\ tick'[t].pc = "idle" /\ faults' = faults =>
              \A s \in registered : \A b \in Passed(s, t) :
                  \E c \in Boundaries[s] : c >= b /\ fired[<<s, c>>] > 0]_vars
=============================================================================
