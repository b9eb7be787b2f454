---------------------------- MODULE Cron_proofs ----------------------------
(* Proofs about Cron: a boundary becomes one run, for any tickers,          *)
(* schedules, clocks and bounds.                                            *)
EXTENDS Cron, WellFoundedInduction, TLAPS

(* What a tick is to do is the latest boundary that had passed on its clock, *)
(* and it started no longer than MaxTick ago.                                *)
Works(t) == tick[t].pc # "idle"
Start(t) == tick[t].at + Behind[t]
Picked(t) == tick[t].todo \cup (IF tick[t].pc = "record" THEN {tick[t].row} ELSE {})

TickOK(t) ==
    /\ Works(t) => Start(t) <= now /\ now <= Start(t) + MaxTick
    /\ tick[t].pc = "record" => tick[t].row \in Rows
    /\ ~Works(t) => tick[t].todo = {}
    /\ \A r \in Picked(t) : \A c \in Boundaries[r[1]] : r[2] < c => tick[t].at < c

TickInv == \A t \in Tickers : TickOK(t)

(* A time soon enough after the end of a run, for the runs that are not      *)
(* recorded and the ticks that are to enqueue them.                          *)
Soon(time, done) ==
    \E t \in Tickers : \/ time <= done + Behind[t] + MaxOutage
                       \/ time <= done + Behind[t] + MaxTick

RunOK(r) ==
    /\ r \in runs => fired[r] > 0
    /\ r \notin runs => doneAt[r] = 0
    /\ doneAt[r] # 0 => r[2] <= doneAt[r] /\ doneAt[r] <= now
    /\ doneAt[r] # 0 /\ r[1] \in registered /\ last[r[1]] < r[2] => Soon(now, doneAt[r])
    /\ doneAt[r] # 0 => \A t \in Tickers : r \in tick[t].todo => Soon(Start(t), doneAt[r])

RunInv == \A r \in Rows : RunOK(r)

(* A run that was pruned will not be enqueued again.                         *)
PrunedOK(r) ==
    fired[r] > 0 /\ r \notin runs =>
        /\ r[2] + Retention <= now
        /\ r[1] \in registered => r[2] <= last[r[1]]
        /\ \A t \in Tickers : r \notin tick[t].todo

PrunedInv == \A r \in Rows : PrunedOK(r)

-----------------------------------------------------------------------------
(* A set of naturals with a bound has a maximum, which Max chooses.          *)
LEMMA MaxExists ==
    ASSUME NEW n \in Nat, NEW S, S \subseteq 0..n, S # {}
    PROVE  Max(S) \in S /\ \A y \in S : y <= Max(S)
<1> DEFINE T == {n - x : x \in S}
<1>1. T \subseteq Nat /\ T # {}
  OBVIOUS
<1>2. PICK m \in T : \A k \in T : ~(<<k, m>> \in OpToRel(<, Nat))
  BY <1>1, NatLessThanWellFounded, WFMin
<1>3. \A k \in T : ~(k < m)
  BY <1>1, <1>2 DEF OpToRel
<1>4. PICK x \in S : m = n - x
  OBVIOUS
<1>5. \A y \in S : y <= x
  BY <1>3, <1>4
<1>6. \E z \in S : \A y \in S : z >= y
  BY <1>5
<1> QED
  BY <1>6 DEF Max

(* A row is a schedule and one of its boundaries.                            *)
LEMMA RowShape ==
    ASSUME NEW r \in Rows
    PROVE  /\ r = <<r[1], r[2]>> /\ r[1] \in Schedules /\ r[2] \in Boundaries[r[1]]
           /\ r[2] \in 1..MaxTime /\ r[2] \in Nat
  BY CronAssumption DEF Rows

(* And a schedule and one of its boundaries are a row.                       *)
LEMMA RowMade ==
    ASSUME NEW s \in Schedules, NEW b \in Boundaries[s]
    PROVE  <<s, b>> \in Rows
  BY DEF Rows

(* The constants as numbers.                                                 *)
LEMMA Numbers ==
    /\ {Retention, MaxTick, MaxOutage, MaxTime, MaxRegisters, MaxFaults} \subseteq Nat
    /\ \A t \in Tickers : /\ Behind[t] \in Nat
                          /\ MaxOutage + MaxTick + Behind[t] < Retention
                          /\ 2 * MaxTick + Behind[t] < Retention
  BY CronAssumption

TickRec == [pc : {"idle", "enqueue", "record", "failed"}, at : 0..MaxTime,
            todo : SUBSET Rows, row : Rows \cup {NoRow}]

(* The types, without the counters of bounded events.                        *)
Typed ==
    /\ now \in 0..MaxTime /\ registered \subseteq Schedules
    /\ last \in [Schedules -> 0..MaxTime] /\ since \in [Schedules -> 0..MaxTime]
    /\ runs \subseteq Rows /\ doneAt \in [Rows -> 0..MaxTime]
    /\ tick \in [Tickers -> TickRec] /\ fired \in [Rows -> Nat]

(* What a tick takes up: rows of registered schedules, each with the latest  *)
(* boundary after its last run that has passed.                              *)
LEMMA TodoShape ==
    ASSUME Typed, NEW at \in 0..MaxTime,
           NEW r \in {<<s, Max(Due(s, at))>> : s \in {q \in registered : Due(q, at) # {}}}
    PROVE  /\ r \in Rows /\ r[1] \in registered /\ last[r[1]] < r[2] /\ r[2] <= at
           /\ \A c \in Boundaries[r[1]] : r[2] < c => at < c
<1>1. PICK s \in registered : Due(s, at) # {} /\ r = <<s, Max(Due(s, at))>>
  OBVIOUS
<1>2. s \in Schedules /\ MaxTime \in Nat
  BY Numbers DEF Typed
<1>3. Boundaries[s] \subseteq 1..MaxTime /\ last[s] \in 0..MaxTime
  BY <1>2, CronAssumption DEF Typed
<1>4. Due(s, at) \subseteq 0..MaxTime
  BY <1>2, <1>3 DEF Due
<1>5. Max(Due(s, at)) \in Due(s, at) /\ \A y \in Due(s, at) : y <= Max(Due(s, at))
  BY <1>1, <1>2, <1>4, MaxExists
<1> DEFINE m == Max(Due(s, at))
<1>6. m \in Boundaries[s] /\ last[s] < m /\ m <= at
  BY <1>5 DEF Due
<1>7. ASSUME NEW c \in Boundaries[s], m < c
      PROVE  at < c
  <2>1. m \in Nat /\ c \in Nat /\ last[s] \in Nat
    BY <1>2, <1>3, <1>6
  <2>2. c \in Due(s, at) => c <= m
    BY <1>5
  <2>3. c \notin Due(s, at)
    BY <1>7, <2>1, <2>2
  <2>4. last[s] < c
    BY <1>6, <1>7, <2>1
  <2> QED
    BY <1>2, <2>1, <2>3, <2>4 DEF Due
<1>8. <<s, m>> \in Rows
  BY <1>2, <1>6, RowMade
<1> QED
  BY <1>1, <1>6, <1>7, <1>8

(* A step of one ticker.                                                     *)
Ticks(t) == tick' = [tick EXCEPT ![t] = tick'[t]] /\ tick'[t] \in TickRec

(* A tick starts with the rows that are due on its clock.                    *)
LEMMA TickStartMoves ==
    ASSUME Typed, NEW t \in Tickers, TickStart(t)
    PROVE  /\ Ticks(t) /\ tick'[t].pc = "enqueue" /\ tick'[t].row = NoRow
           /\ tick'[t].at + Behind[t] = now
           /\ \A r \in tick'[t].todo :
                 /\ r[1] \in registered /\ last[r[1]] < r[2]
                 /\ \A c \in Boundaries[r[1]] : r[2] < c => tick'[t].at < c
<1> DEFINE at == now - Behind[t]
           todo == {<<s, Max(Due(s, at))>> : s \in {q \in registered : Due(q, at) # {}}}
<1>1. at \in 0..MaxTime /\ at + Behind[t] = now
  <2>1. now \in 0..MaxTime /\ Behind[t] \in Nat /\ Behind[t] <= now /\ MaxTime \in Nat
    BY Numbers DEF Typed, TickStart
  <2> QED
    BY <2>1
<1>2. todo \subseteq Rows
  BY <1>1, TodoShape
<1>3. tick' = [tick EXCEPT ![t] = tick'[t]]
      /\ tick'[t] = [pc |-> "enqueue", at |-> at, row |-> NoRow, todo |-> todo]
  BY DEF TickStart, Typed
<1> HIDE DEF todo, at
<1>4. tick'[t] \in TickRec
  BY <1>1, <1>2, <1>3 DEF TickRec
<1>5. tick'[t].pc = "enqueue" /\ tick'[t].row = NoRow /\ tick'[t].at = at /\ tick'[t].todo = todo
  BY <1>3
<1> USE DEF todo
<1>6. \A r \in todo : /\ r[1] \in registered /\ last[r[1]] < r[2]
                      /\ \A c \in Boundaries[r[1]] : r[2] < c => at < c
  BY <1>1, TodoShape
<1> QED
  BY <1>1, <1>3, <1>4, <1>5, <1>6 DEF Ticks

(* A tick that enqueues a row goes on to record it.                          *)
LEMMA TickEnqueueMoves ==
    ASSUME Typed, NEW t \in Tickers, NEW q \in tick[t].todo,
           tick' = [tick EXCEPT ![t].pc = "record", ![t].row = q, ![t].todo = @ \ {q}]
    PROVE  /\ Ticks(t) /\ tick'[t].pc = "record" /\ tick'[t].row = q
           /\ tick'[t].at = tick[t].at /\ tick'[t].todo = tick[t].todo \ {q}
           /\ q \in Rows
<1> DEFINE rest == tick[t].todo \ {q}
           k1 == [tick[t] EXCEPT !.pc = "record"]
           k2 == [k1 EXCEPT !.row = q]
<1>1. tick[t] \in TickRec /\ q \in Rows
  BY DEF Typed, TickRec
<1>2. rest \in SUBSET Rows
  BY <1>1 DEF TickRec
<1>3. /\ tick' = [tick EXCEPT ![t] = tick'[t]]
      /\ tick'[t] = [k2 EXCEPT !.todo = rest]
  BY DEF Typed, TickRec
<1>4. k1 \in TickRec /\ k1.pc = "record" /\ k1.at = tick[t].at
  BY <1>1 DEF TickRec
<1> HIDE DEF rest, k1
<1>5. k2 \in TickRec /\ k2.pc = "record" /\ k2.at = tick[t].at /\ k2.row = q
  BY <1>1, <1>4 DEF TickRec
<1> HIDE DEF k2
<1>6. tick'[t] \in TickRec
  BY ONLY <1>2, <1>3, <1>5 DEF TickRec
<1>7. tick'[t].pc = "record" /\ tick'[t].row = q /\ tick'[t].at = tick[t].at
      /\ tick'[t].todo = rest
  BY <1>3, <1>5 DEF TickRec
<1> QED
  BY <1>1, <1>3, <1>6, <1>7 DEF Ticks, rest, k1, k2

(* A tick that records its row goes on with the others.                      *)
LEMMA TickRecordMoves ==
    ASSUME Typed, NEW t \in Tickers, TickRecord(t)
    PROVE  /\ Ticks(t) /\ tick'[t].pc = "enqueue"
           /\ tick'[t].at = tick[t].at /\ tick'[t].todo = tick[t].todo
<1>1. tick[t] \in TickRec
  BY DEF Typed
<1>2. /\ tick' = [tick EXCEPT ![t] = tick'[t]]
      /\ tick'[t] = [tick[t] EXCEPT !.pc = "enqueue", !.row = NoRow]
  BY DEF Typed, TickRec, TickRecord
<1>3. tick'[t].pc = "enqueue" /\ tick'[t].at = tick[t].at /\ tick'[t].todo = tick[t].todo
  BY <1>1, <1>2 DEF TickRec
<1>4. tick'[t] \in TickRec
  BY <1>1, <1>2 DEF TickRec
<1> QED
  BY <1>2, <1>3, <1>4 DEF Ticks

(* A tick that ends, fails or is cut off has no rows left.                   *)
LEMMA TickStopMoves ==
    ASSUME Typed, NEW t \in Tickers, TickEnd(t) \/ TickFails(t) \/ Crash(t)
    PROVE  /\ Ticks(t) /\ tick'[t].todo = {} /\ tick'[t].pc \in {"idle", "failed"}
           /\ tick'[t].pc = "failed" => tick[t].pc # "idle" /\ tick'[t].at = tick[t].at
<1>a. tick[t] \in TickRec
  BY DEF Typed
<1>1. CASE TickEnd(t) \/ Crash(t)
  <2>1. tick' = [tick EXCEPT ![t] = tick'[t]] /\ tick'[t] = Idle
    BY <1>1 DEF TickEnd, Crash, Typed
  <2>2. Idle \in TickRec /\ Idle.pc = "idle" /\ Idle.todo = {}
    BY Numbers DEF Idle, TickRec
  <2> QED
    BY <2>1, <2>2 DEF Ticks
<1>2. CASE TickFails(t)
  <2>1. /\ tick' = [tick EXCEPT ![t] = tick'[t]]
        /\ tick'[t] = [tick[t] EXCEPT !.pc = "failed", !.row = NoRow, !.todo = {}]
    BY <1>2 DEF TickFails, Typed, TickRec
  <2>2. tick'[t] \in TickRec
    BY <1>a, <2>1 DEF TickRec
  <2>3. tick'[t].todo = {} /\ tick'[t].pc = "failed" /\ tick'[t].at = tick[t].at
    BY <1>a, <2>1 DEF TickRec
  <2>4. tick[t].pc # "idle"
    BY <1>2 DEF TickFails
  <2> QED
    BY <2>1, <2>2, <2>3, <2>4 DEF Ticks
<1> QED
  BY <1>1, <1>2

-----------------------------------------------------------------------------
(* The types of the state are those of the counters and the others.          *)
LEMMA Types ==
    TypeOK <=> Typed /\ registers \in 0..MaxRegisters /\ faults \in 0..MaxFaults
  BY DEF TypeOK, Typed, TickRec

(* What the types say of one run, one schedule and one tick.                 *)
LEMMA Times ==
    ASSUME Typed
    PROVE  /\ now \in Nat /\ \A s \in Schedules : last[s] \in Nat
           /\ \A r \in Rows : doneAt[r] \in Nat /\ fired[r] \in Nat
           /\ \A t \in Tickers : tick[t].at \in Nat /\ Start(t) \in Nat /\ tick[t].todo \subseteq Rows
<1>1. \A s \in Schedules : last[s] \in 0..MaxTime
  BY DEF Typed
<1>2. \A r \in Rows : doneAt[r] \in 0..MaxTime /\ fired[r] \in Nat
  BY DEF Typed
<1>3. \A t \in Tickers : tick[t] \in TickRec
  BY DEF Typed
<1>4. \A t \in Tickers : tick[t].at \in 0..MaxTime /\ tick[t].todo \subseteq Rows
  BY <1>3 DEF TickRec
<1>5. now \in 0..MaxTime
  BY DEF Typed
<1>6. MaxTime \in Nat /\ \A t \in Tickers : Behind[t] \in Nat
  BY Numbers
<1>7. \A t \in Tickers : Start(t) \in Nat
  BY <1>4, <1>6 DEF Start
<1> QED
  BY <1>1, <1>2, <1>4, <1>5, <1>6, <1>7

(* A tick that starts soon after the end of a run is over before the run is  *)
(* pruned.                                                                   *)
LEMMA SoonOver ==
    ASSUME NEW time \in Nat, NEW done \in Nat, NEW t \in Tickers, Soon(time, done)
    PROVE  time + MaxTick < done + Retention
<1>1. /\ MaxTick \in Nat /\ MaxOutage \in Nat /\ Retention \in Nat
      /\ \A u \in Tickers : /\ Behind[u] \in Nat
                            /\ MaxOutage + MaxTick + Behind[u] < Retention
                            /\ 2 * MaxTick + Behind[u] < Retention
  BY Numbers
<1>2. ASSUME NEW u \in Tickers, time <= done + Behind[u] + MaxOutage
      PROVE  time + MaxTick < done + Retention
  BY <1>1, <1>2
<1>3. ASSUME NEW u \in Tickers, time <= done + Behind[u] + MaxTick
      PROVE  time + MaxTick < done + Retention
  BY <1>1, <1>3
<1> QED
  BY <1>2, <1>3 DEF Soon

(* A time before the end of the run, on the clock it was written with, is    *)
(* soon after it.                                                            *)
LEMMA SoonBefore ==
    ASSUME NEW time \in Nat, NEW done \in Nat, NEW t \in Tickers, time <= done + Behind[t]
    PROVE  Soon(time, done)
<1>1. MaxOutage \in Nat /\ Behind[t] \in Nat
  BY Numbers
<1>2. time <= done + Behind[t] + MaxOutage
  BY <1>1
<1> QED
  BY <1>2 DEF Soon

(* A step of one ticker leaves the other ticks in order.                     *)
LEMMA OneTicks ==
    ASSUME Typed, TickInv, NEW t \in Tickers, Ticks(t), now' = now, TickOK(t)'
    PROVE  TickInv'
<1> SUFFICES ASSUME NEW u \in Tickers, u # t
             PROVE  TickOK(u)'
  BY DEF TickInv
<1>1. tick'[u] = tick[u]
  BY DEF Ticks, Typed
<1>2. TickOK(u)
  BY DEF TickInv
<1> QED
  BY <1>1, <1>2 DEF TickOK, Works, Start, Picked

(* The ticks after a step of one ticker.                                     *)
LEMMA TickTyped ==
    ASSUME Typed, NEW t \in Tickers, Ticks(t)
    PROVE  /\ tick' \in [Tickers -> TickRec]
           /\ \A u \in Tickers \ {t} : tick'[u] = tick[u]
  BY DEF Ticks, Typed

-----------------------------------------------------------------------------
(* The step of each action.                                                  *)
Safe == Typed /\ TickInv /\ RunInv /\ PrunedInv /\ FiredOnce

(* A registration: a schedule that comes back begins after every boundary    *)
(* whose run is pruned, and of those whose run has finished only recent ones *)
(* are due again, on the clock of the server that registers it.              *)
LEMMA RegisterSafe ==
    ASSUME Safe, NEW g \in Tickers, NEW names \in SUBSET Schedules, Register(g, names)
    PROVE  Safe'
<1> USE DEF Safe
<1> DEFINE at == now - Behind[g]
<1>1. /\ now \in Nat /\ now \in 0..MaxTime /\ at \in 0..MaxTime /\ at \in Nat
      /\ Behind[g] \in Nat /\ Behind[g] < Retention /\ at + Behind[g] = now
  <2>1. /\ now \in Nat /\ now \in 0..MaxTime /\ Behind[g] <= now /\ Behind[g] \in Nat
        /\ MaxTick \in Nat /\ MaxOutage \in Nat /\ Retention \in Nat /\ MaxTime \in Nat
        /\ 2 * MaxTick + Behind[g] < Retention
    BY Times, Numbers DEF Typed, Register
  <2> QED
    BY <2>1
<1>2. \A s \in Schedules : last'[s] = IF s \in names \ registered THEN at ELSE last[s]
  BY DEF Register
<1> HIDE DEF at
<1>3. Typed'
  <2>1. last' \in [Schedules -> 0..MaxTime]
    <3>1. last' = [s \in Schedules |-> IF s \in names \ registered THEN at ELSE last[s]]
      BY DEF Register, at
    <3> QED
      BY <1>1, <3>1 DEF Typed
  <2>2. since' \in [Schedules -> 0..MaxTime]
    BY <1>1 DEF Register, Typed
  <2> QED
    BY <2>1, <2>2 DEF Register, Typed
<1>4. TickInv' /\ FiredOnce'
  BY DEF TickInv, TickOK, Works, Start, Picked, FiredOnce, Register
<1>5. ASSUME NEW r \in Rows
      PROVE  RunOK(r)' /\ PrunedOK(r)'
  <2>1. RunOK(r) /\ PrunedOK(r) /\ r[1] \in Schedules /\ r[2] \in Nat /\ doneAt[r] \in Nat
    BY RowShape, Times DEF RunInv, PrunedInv
  <2>2. last[r[1]] \in Nat /\ Retention \in Nat
    BY <2>1, Times, Numbers
  <2>3. last'[r[1]] = IF r[1] \in names \ registered THEN at ELSE last[r[1]]
    BY <1>2, <2>1
  <2>4. RunOK(r)'
    <3>1. ASSUME doneAt[r] # 0, r[1] \in names, last'[r[1]] < r[2]
          PROVE  Soon(now, doneAt[r])
      <4>1. CASE r[1] \in registered
        BY <2>1, <2>3, <3>1, <4>1 DEF RunOK
      <4>2. CASE r[1] \notin registered
        <5>1. at < r[2] /\ r[2] <= doneAt[r]
          BY <2>1, <2>3, <3>1, <4>2 DEF RunOK
        <5>2. now <= doneAt[r] + Behind[g]
          BY <1>1, <2>1, <5>1
        <5> QED
          BY <1>1, <2>1, <5>2, SoonBefore
      <4> QED
        BY <4>1, <4>2
    <3>2. /\ doneAt' = doneAt /\ runs' = runs /\ fired' = fired /\ now' = now
          /\ tick' = tick /\ registered' = names
      BY DEF Register
    <3> QED
      BY <2>1, <3>1, <3>2 DEF RunOK, Start
  <2>5. PrunedOK(r)'
    <3>1. fired[r] > 0 /\ r \notin runs /\ r[1] \in names => r[2] <= last'[r[1]]
      BY <1>1, <2>1, <2>2, <2>3 DEF PrunedOK
    <3>2. /\ doneAt' = doneAt /\ runs' = runs /\ fired' = fired /\ now' = now
          /\ tick' = tick /\ registered' = names
      BY DEF Register
    <3> QED
      BY <2>1, <3>1, <3>2 DEF PrunedOK
  <2> QED
    BY <2>4, <2>5
<1> QED
  BY <1>3, <1>4, <1>5 DEF RunInv, PrunedInv

(* A tick that starts reads boundaries that are not recorded: their runs, if *)
(* finished, finished soon ago, and none of them is pruned.                  *)
LEMMA TickStartSafe ==
    ASSUME Safe, NEW t \in Tickers, TickStart(t)
    PROVE  Safe'
<1> USE DEF Safe
<1>1. /\ Ticks(t) /\ tick'[t].pc = "enqueue" /\ tick'[t].row = NoRow
      /\ tick'[t].at + Behind[t] = now
      /\ \A r \in tick'[t].todo :
            /\ r[1] \in registered /\ last[r[1]] < r[2]
            /\ \A c \in Boundaries[r[1]] : r[2] < c => tick'[t].at < c
  BY TickStartMoves
<1>2. /\ now' = now /\ registered' = registered /\ last' = last /\ runs' = runs
      /\ doneAt' = doneAt /\ fired' = fired /\ since' = since
  BY DEF TickStart
<1>3. \A u \in Tickers \ {t} : tick'[u] = tick[u]
  BY <1>1, TickTyped
<1>4. Typed'
  BY <1>1, <1>2, TickTyped DEF Typed
<1>5. TickInv'
  <2>1. now \in Nat /\ MaxTick \in Nat
    BY Times, Numbers
  <2>2. TickOK(t)'
    BY <1>1, <1>2, <2>1 DEF TickOK, Works, Start, Picked
  <2> QED
    BY <1>1, <1>2, <2>2, OneTicks
<1>6. ASSUME NEW r \in Rows
      PROVE  RunOK(r)' /\ PrunedOK(r)'
  <2>1. RunOK(r) /\ PrunedOK(r) /\ r[1] \in Schedules /\ r[2] \in Nat
    BY RowShape DEF RunInv, PrunedInv
  <2>2. last[r[1]] \in Nat
    BY <2>1, Times
  <2>3. ASSUME doneAt[r] # 0, NEW u \in Tickers, r \in tick'[u].todo
        PROVE  Soon(Start(u)', doneAt[r])
    <3>1. CASE u = t
      <4>1. Soon(now, doneAt[r])
        BY <1>1, <2>1, <2>3, <3>1 DEF RunOK
      <4>2. Start(u)' = now
        BY <1>1, <3>1 DEF Start
      <4> QED
        BY <4>1, <4>2
    <3>2. CASE u # t
      BY <1>3, <2>1, <2>3, <3>2 DEF RunOK, Start
    <3> QED
      BY <3>1, <3>2
  <2>4. RunOK(r)'
    BY <1>2, <2>1, <2>3 DEF RunOK
  <2>5. ASSUME fired[r] > 0, r \notin runs, NEW u \in Tickers
        PROVE  r \notin tick'[u].todo
    <3>1. r[1] \in registered => ~(last[r[1]] < r[2])
      BY <2>1, <2>2, <2>5 DEF PrunedOK
    <3>2. CASE u = t
      BY <1>1, <3>1, <3>2
    <3>3. CASE u # t
      BY <1>3, <2>1, <2>5, <3>3 DEF PrunedOK
    <3> QED
      BY <3>2, <3>3
  <2>6. PrunedOK(r)'
    BY <1>2, <2>1, <2>5 DEF PrunedOK
  <2> QED
    BY <2>4, <2>6
<1>7. FiredOnce'
  BY <1>2 DEF FiredOnce
<1> QED
  BY <1>4, <1>5, <1>6, <1>7 DEF RunInv, PrunedInv

(* A row that is enqueued was not pruned, so it is inserted once.            *)
LEMMA TickEnqueueSafe ==
    ASSUME Safe, NEW t \in Tickers, TickEnqueue(t)
    PROVE  Safe'
<1> USE DEF Safe
<1>1. PICK q \in tick[t].todo :
        /\ runs' = runs \cup {q}
        /\ fired' = IF q \notin runs THEN [fired EXCEPT ![q] = @ + 1] ELSE fired
        /\ tick' = [tick EXCEPT ![t].pc = "record", ![t].row = q, ![t].todo = @ \ {q}]
  BY DEF TickEnqueue, Inserted
<1>2. /\ Ticks(t) /\ tick'[t].pc = "record" /\ tick'[t].row = q
      /\ tick'[t].at = tick[t].at /\ tick'[t].todo = tick[t].todo \ {q}
      /\ q \in Rows
  BY <1>1, TickEnqueueMoves
<1>3. /\ now' = now /\ registered' = registered /\ last' = last
      /\ doneAt' = doneAt /\ since' = since /\ tick[t].pc = "enqueue"
  BY DEF TickEnqueue
<1>4. \A u \in Tickers \ {t} : tick'[u] = tick[u]
  BY <1>2, TickTyped
<1>5. fired[q] \in Nat /\ (q \notin runs => fired[q] = 0) /\ (q \in runs => fired[q] > 0)
  <2>1. fired[q] \in Nat /\ PrunedOK(q) /\ RunOK(q)
    BY <1>2, Times DEF PrunedInv, RunInv
  <2>2. q \notin runs => ~(fired[q] > 0)
    BY <2>1 DEF PrunedOK
  <2>3. q \in runs => fired[q] > 0
    BY <2>1 DEF RunOK
  <2> QED
    BY <2>1, <2>2, <2>3
<1>6. /\ fired' \in [Rows -> Nat] /\ fired'[q] > 0
      /\ \A r \in Rows \ {q} : fired'[r] = fired[r]
      /\ fired'[q] = IF q \notin runs THEN 1 ELSE fired[q]
  <2>1. fired \in [Rows -> Nat]
    BY DEF Typed
  <2>2. CASE q \notin runs
    BY <1>1, <1>2, <1>5, <2>1, <2>2
  <2>3. CASE q \in runs
    BY <1>1, <1>2, <1>5, <2>1, <2>3
  <2> QED
    BY <2>2, <2>3
<1>7. Typed'
  <2>1. runs' \subseteq Rows
    BY <1>1, <1>2 DEF Typed
  <2> QED
    BY <1>2, <1>3, <1>6, <2>1, TickTyped DEF Typed
<1>8. TickInv'
  <2>1. TickOK(t)
    BY DEF TickInv
  <2>2. Picked(t)' \subseteq Picked(t)
    BY <1>2, <1>3 DEF Picked
  <2>3. TickOK(t)'
    BY <1>2, <1>3, <2>1, <2>2 DEF TickOK, Works, Start
  <2> QED
    BY <1>2, <1>3, <2>3, OneTicks
<1>9. ASSUME NEW r \in Rows
      PROVE  RunOK(r)' /\ PrunedOK(r)'
  <2>1. RunOK(r) /\ PrunedOK(r)
    BY DEF RunInv, PrunedInv
  <2>2. r \in runs' => r \in runs \/ r = q
    BY <1>1
  <2>3. \A u \in Tickers : tick'[u].at = tick[u].at /\ tick'[u].todo \subseteq tick[u].todo
    BY <1>2, <1>4
  <2>4. RunOK(r)'
    <3>1. r \in runs' => fired'[r] > 0
      BY <1>6, <2>1, <2>2 DEF RunOK
    <3>2. r \notin runs' => doneAt'[r] = 0
      BY <1>1, <1>3, <2>1 DEF RunOK
    <3> QED
      BY <1>3, <2>1, <2>3, <3>1, <3>2 DEF RunOK, Start
  <2>5. PrunedOK(r)'
    <3> SUFFICES ASSUME fired'[r] > 0, r \notin runs'
                 PROVE  PrunedOK(r)'
      BY DEF PrunedOK
    <3>1. r # q /\ r \notin runs
      BY <1>1
    <3>2. fired[r] > 0
      BY <1>6, <3>1
    <3> QED
      BY <1>3, <2>1, <2>3, <3>1, <3>2 DEF PrunedOK
  <2> QED
    BY <2>4, <2>5
<1>10. FiredOnce'
  <2> SUFFICES ASSUME NEW r \in Rows
               PROVE  fired'[r] <= 1
    BY DEF FiredOnce
  <2>1. fired[r] <= 1 /\ fired[q] <= 1
    BY <1>2 DEF FiredOnce
  <2> QED
    BY <1>6, <2>1
<1> QED
  BY <1>7, <1>8, <1>9, <1>10 DEF RunInv, PrunedInv

(* A tick that records its boundary, be it older than what the schedule     *)
(* holds by now, makes due again only boundaries that came after it started. *)
LEMMA TickRecordSafe ==
    ASSUME Safe, NEW t \in Tickers, TickRecord(t)
    PROVE  Safe'
<1> USE DEF Safe
<1> DEFINE q == tick[t].row
<1>1. /\ Ticks(t) /\ tick'[t].pc = "enqueue"
      /\ tick'[t].at = tick[t].at /\ tick'[t].todo = tick[t].todo
  BY TickRecordMoves
<1>2. /\ now' = now /\ registered' = registered /\ runs' = runs /\ fired' = fired
      /\ doneAt' = doneAt /\ since' = since /\ tick[t].pc = "record"
      /\ last' = IF q[1] \in registered THEN [last EXCEPT ![q[1]] = q[2]] ELSE last
  BY DEF TickRecord
<1>3. \A u \in Tickers \ {t} : tick'[u] = tick[u]
  BY <1>1, TickTyped
<1>4. /\ TickOK(t) /\ q \in Rows
      /\ \A c \in Boundaries[q[1]] : q[2] < c => tick[t].at < c
  BY <1>2 DEF TickInv, TickOK, Picked
<1>5. q[1] \in Schedules /\ q[2] \in 1..MaxTime /\ q[2] \in Nat
  BY <1>4, RowShape
<1>6. now <= tick[t].at + Behind[t] + MaxTick
  BY <1>2, <1>4 DEF TickOK, Works, Start
<1> HIDE DEF q
<1>7. Typed'
  <2>1. last' \in [Schedules -> 0..MaxTime]
    <3>1. last \in [Schedules -> 0..MaxTime] /\ q[2] \in 0..MaxTime
      BY <1>5, Numbers DEF Typed
    <3> QED
      BY <1>2, <1>5, <3>1
  <2> QED
    BY <1>1, <1>2, <2>1, TickTyped DEF Typed
<1>8. TickInv'
  <2>1. Picked(t)' \subseteq Picked(t)
    BY <1>1 DEF Picked
  <2>2. TickOK(t)'
    BY <1>1, <1>2, <1>4, <2>1 DEF TickOK, Works, Start
  <2> QED
    BY <1>1, <1>2, <2>2, OneTicks
<1>9. ASSUME NEW r \in Rows, r[1] \in registered, last'[r[1]] < r[2]
      PROVE  last[r[1]] < r[2] \/ now < r[2] + Behind[t] + MaxTick
  <2>1. r[1] \in Schedules /\ r[2] \in Nat /\ r[2] \in Boundaries[r[1]]
    BY RowShape
  <2>2. CASE r[1] # q[1] \/ q[1] \notin registered
    <3>1. last'[r[1]] = last[r[1]]
      BY <1>2, <1>5, <2>1, <2>2 DEF Typed
    <3> QED
      BY <1>9, <3>1
  <2>3. CASE r[1] = q[1] /\ q[1] \in registered
    <3>1. last'[r[1]] = q[2]
      BY <1>2, <1>5, <2>1, <2>3 DEF Typed
    <3>2. tick[t].at < r[2]
      BY <1>4, <1>9, <2>1, <2>3, <3>1
    <3>3. tick[t].at \in Nat /\ now \in Nat /\ MaxTick \in Nat /\ Behind[t] \in Nat
      BY Times, Numbers
    <3> QED
      BY <1>6, <2>1, <3>2, <3>3
  <2> QED
    BY <2>2, <2>3
<1>10. \A u \in Tickers : tick'[u].at = tick[u].at /\ tick'[u].todo = tick[u].todo
  BY <1>1, <1>3
<1>11. ASSUME NEW r \in Rows
      PROVE  RunOK(r)' /\ PrunedOK(r)'
  <2>1. RunOK(r) /\ PrunedOK(r) /\ r[1] \in Schedules /\ r[2] \in Nat /\ doneAt[r] \in Nat
    BY RowShape, Times DEF RunInv, PrunedInv
  <2>2. /\ last[r[1]] \in Nat /\ last'[r[1]] \in Nat /\ now \in Nat /\ MaxTick \in Nat
        /\ Behind[t] \in Nat /\ Retention \in Nat /\ 2 * MaxTick + Behind[t] < Retention
    <3>1. last'[r[1]] \in 0..MaxTime
      BY <1>7, <2>1 DEF Typed
    <3> QED
      BY <2>1, <3>1, Times, Numbers
  <2>3. RunOK(r)'
    <3>1. ASSUME doneAt[r] # 0, r[1] \in registered, last'[r[1]] < r[2]
          PROVE  Soon(now, doneAt[r])
      <4>1. CASE last[r[1]] < r[2]
        BY <2>1, <3>1, <4>1 DEF RunOK
      <4>2. CASE now < r[2] + Behind[t] + MaxTick
        <5>1. r[2] <= doneAt[r]
          BY <2>1, <3>1 DEF RunOK
        <5>2. now <= doneAt[r] + Behind[t] + MaxTick
          BY <2>1, <2>2, <4>2, <5>1
        <5> QED
          BY <5>2 DEF Soon
      <4> QED
        BY <1>9, <3>1, <4>1, <4>2
    <3> QED
      BY <1>2, <1>10, <2>1, <3>1 DEF RunOK, Start
  <2>4. PrunedOK(r)'
    <3>1. ASSUME fired[r] > 0, r \notin runs, r[1] \in registered
          PROVE  r[2] <= last'[r[1]]
      <4>1. r[2] + Retention <= now /\ r[2] <= last[r[1]]
        BY <2>1, <3>1 DEF PrunedOK
      <4>2. ~(now < r[2] + Behind[t] + MaxTick) /\ ~(last[r[1]] < r[2])
        BY <2>1, <2>2, <4>1
      <4>3. ~(last'[r[1]] < r[2])
        BY <1>9, <3>1, <4>2
      <4> QED
        BY <2>1, <2>2, <4>3
    <3> QED
      BY <1>2, <1>10, <2>1, <3>1 DEF PrunedOK
  <2> QED
    BY <2>3, <2>4
<1>12. FiredOnce'
  BY <1>2 DEF FiredOnce
<1> QED
  BY <1>7, <1>8, <1>11, <1>12 DEF RunInv, PrunedInv

(* The ticks after one that ended, failed or was cut off.                    *)
LEMMA TickStopOK ==
    ASSUME Safe, NEW t \in Tickers, TickEnd(t) \/ TickFails(t) \/ Crash(t)
    PROVE  /\ tick' \in [Tickers -> TickRec] /\ TickInv' /\ tick'[t].todo = {}
           /\ \A u \in Tickers \ {t} : tick'[u] = tick[u]
<1> USE DEF Safe
<1>1. /\ Ticks(t) /\ tick'[t].todo = {} /\ tick'[t].pc \in {"idle", "failed"}
      /\ tick'[t].pc = "failed" => tick[t].pc # "idle" /\ tick'[t].at = tick[t].at
  BY TickStopMoves
<1>2. now' = now
  BY DEF TickEnd, TickFails, Crash
<1>3. TickOK(t)
  BY DEF TickInv
<1>4. TickOK(t)'
  BY <1>1, <1>2, <1>3 DEF TickOK, Works, Start, Picked
<1> QED
  BY <1>1, <1>2, <1>4, OneTicks, TickTyped

(* A tick that fails or is cut off changes no schedule and no run.           *)
LEMMA TickLostSafe ==
    ASSUME Safe, NEW t \in Tickers, TickFails(t) \/ Crash(t)
    PROVE  Safe'
<1> USE DEF Safe
<1>1. /\ tick' \in [Tickers -> TickRec] /\ TickInv' /\ tick'[t].todo = {}
      /\ \A u \in Tickers \ {t} : tick'[u] = tick[u]
  BY TickStopOK
<1>2. /\ now' = now /\ registered' = registered /\ last' = last /\ runs' = runs
      /\ doneAt' = doneAt /\ fired' = fired /\ since' = since
  BY DEF TickFails, Crash
<1>3. Typed'
  BY <1>1, <1>2 DEF Typed
<1>4. RunInv'
  BY <1>1, <1>2 DEF RunInv, RunOK, Start
<1>5. PrunedInv'
  BY <1>1, <1>2 DEF PrunedInv, PrunedOK
<1>6. FiredOnce'
  BY <1>2 DEF FiredOnce
<1> QED
  BY <1>1, <1>3, <1>4, <1>5, <1>6

(* A run that is pruned finished so long ago that its boundary is recorded   *)
(* and no tick that is to enqueue it is left.                                *)
LEMMA TickEndSafe ==
    ASSUME Safe, NEW t \in Tickers, TickEnd(t)
    PROVE  Safe'
<1> USE DEF Safe
<1>1. /\ tick' \in [Tickers -> TickRec] /\ TickInv' /\ tick'[t].todo = {}
      /\ \A u \in Tickers \ {t} : tick'[u] = tick[u]
  BY TickStopOK
<1>2. /\ now' = now /\ registered' = registered /\ last' = last
      /\ fired' = fired /\ since' = since
  BY DEF TickEnd
<1>3. PICK gone \in SUBSET Prunable(t) :
        /\ runs' = runs \ gone
        /\ doneAt' = [r \in Rows |-> IF r \in gone THEN 0 ELSE doneAt[r]]
  BY DEF TickEnd
<1>4. Typed'
  <2>1. runs' \subseteq Rows
    BY <1>3 DEF Typed
  <2>2. doneAt' \in [Rows -> 0..MaxTime]
    BY <1>3, Numbers DEF Typed
  <2> QED
    BY <1>1, <1>2, <2>1, <2>2 DEF Typed
<1>5. Start(t) <= now /\ tick[t].at <= Start(t) /\ tick[t].at \in Nat /\ now \in Nat
  <2>1. TickOK(t) /\ Works(t)
    BY DEF TickInv, TickEnd, Works
  <2>2. tick[t].at \in Nat /\ Behind[t] \in Nat /\ now \in Nat
    BY Times, Numbers
  <2> QED
    BY <2>1, <2>2 DEF TickOK, Start
<1>6. ASSUME NEW r \in Rows
      PROVE  RunOK(r)' /\ PrunedOK(r)'
  <2>1. RunOK(r) /\ PrunedOK(r) /\ r[1] \in Schedules /\ r[2] \in Nat /\ doneAt[r] \in Nat
    BY RowShape, Times DEF RunInv, PrunedInv
  <2>2. doneAt'[r] = IF r \in gone THEN 0 ELSE doneAt[r]
    BY <1>3
  <2>3. r \in gone => r \in runs
    BY DEF Prunable
  <2>4. RunOK(r)'
    <3>1. CASE r \in gone
      BY <1>3, <2>2, <3>1 DEF RunOK
    <3>2. CASE r \notin gone
      <4>1. (r \in runs' <=> r \in runs) /\ doneAt'[r] = doneAt[r]
        BY <1>3, <2>2, <3>2
      <4> QED
        BY <1>1, <1>2, <2>1, <4>1 DEF RunOK, Start
    <3> QED
      BY <3>1, <3>2
  <2>5. ASSUME r \in gone
        PROVE  /\ r[2] + Retention <= now
               /\ r[1] \in registered => r[2] <= last[r[1]]
               /\ \A u \in Tickers : r \notin tick[u].todo
    <3>1. doneAt[r] # 0 /\ doneAt[r] + Retention <= tick[t].at
      BY <2>5 DEF Prunable
    <3>2. /\ Retention \in Nat /\ MaxTick \in Nat /\ last[r[1]] \in Nat
          /\ r[2] <= doneAt[r]
      BY <2>1, <3>1, Times, Numbers DEF RunOK
    <3>3. doneAt[r] + Retention <= now
      <4>1. Start(t) \in Nat
        BY Times
      <4> QED
        BY <1>5, <2>1, <3>1, <3>2, <4>1
    <3>4. r[2] + Retention <= now
      BY <1>5, <2>1, <3>2, <3>3
    <3>5. ~Soon(now, doneAt[r])
      <4>1. ~(now + MaxTick < doneAt[r] + Retention)
        BY <1>5, <2>1, <3>2, <3>3
      <4> QED
        BY <1>5, <2>1, <4>1, SoonOver
    <3>6. r[1] \in registered => r[2] <= last[r[1]]
      BY <2>1, <3>1, <3>2, <3>5 DEF RunOK
    <3>7. ASSUME NEW u \in Tickers, r \in tick[u].todo
          PROVE  FALSE
      <4>1. Soon(Start(u), doneAt[r])
        BY <2>1, <3>1, <3>7 DEF RunOK
      <4>2. Start(u) \in Nat
        BY Times
      <4>3. Start(u) + MaxTick < doneAt[r] + Retention
        BY <2>1, <4>1, <4>2, SoonOver
      <4>4. now <= Start(u) + MaxTick
        BY <3>7 DEF TickInv, TickOK
      <4> QED
        BY <1>5, <2>1, <3>2, <3>3, <4>2, <4>3, <4>4
    <3> QED
      BY <3>4, <3>6, <3>7
  <2>6. PrunedOK(r)'
    <3>1. r \notin runs' => r \in gone \/ r \notin runs
      BY <1>3
    <3> QED
      BY <1>1, <1>2, <2>1, <2>5, <3>1 DEF PrunedOK
  <2> QED
    BY <2>4, <2>6
<1>7. FiredOnce'
  BY <1>2 DEF FiredOnce
<1> QED
  BY <1>1, <1>4, <1>6, <1>7 DEF RunInv, PrunedInv

(* A run that finishes now finished after every tick that is to enqueue it   *)
(* started, but for how far the clock of its server is behind.               *)
LEMMA FinishSafe ==
    ASSUME Safe, NEW g \in Tickers, NEW q \in Rows, Finish(g, q)
    PROVE  Safe'
<1> USE DEF Safe
<1>1. /\ now' = now /\ registered' = registered /\ last' = last /\ runs' = runs
      /\ tick' = tick /\ fired' = fired /\ since' = since
      /\ q \in runs /\ q[2] + Behind[g] <= now
      /\ doneAt' = [doneAt EXCEPT ![q] = now - Behind[g]]
  BY DEF Finish
<1> DEFINE at == now - Behind[g]
<1>a. /\ at \in 0..MaxTime /\ at \in Nat /\ now \in Nat /\ Behind[g] \in Nat
      /\ at + Behind[g] = now /\ q[2] <= at /\ at <= now
  <2>1. now \in Nat /\ now \in 0..MaxTime /\ Behind[g] \in Nat /\ q[2] \in Nat /\ MaxTime \in Nat
    BY Times, Numbers, RowShape DEF Typed
  <2> QED
    BY <1>1, <2>1
<1>b. doneAt' = [doneAt EXCEPT ![q] = at]
  BY <1>1
<1> HIDE DEF at
<1>2. Typed'
  BY <1>1, <1>a, <1>b DEF Typed
<1>3. TickInv' /\ PrunedInv' /\ FiredOnce'
  BY <1>1 DEF TickInv, TickOK, Works, Start, Picked, PrunedInv, PrunedOK, FiredOnce
<1>4. ASSUME NEW r \in Rows
      PROVE  RunOK(r)'
  <2>1. RunOK(r)
    BY DEF RunInv
  <2>2. CASE r # q
    <3>1. doneAt'[r] = doneAt[r]
      BY <1>b, <2>2 DEF Typed
    <3> QED
      BY <1>1, <2>1, <3>1 DEF RunOK, Start
  <2>3. CASE r = q
    <3>1. doneAt'[r] = at
      BY <1>b, <2>3 DEF Typed
    <3>2. Soon(now, at)
      <4>1. now <= at + Behind[g]
        BY <1>a
      <4> QED
        BY <1>a, <4>1, SoonBefore
    <3>3. ASSUME NEW u \in Tickers, r \in tick[u].todo
          PROVE  Soon(Start(u), at)
      <4>1. Start(u) \in Nat /\ Start(u) <= now
        BY <3>3, Times DEF TickInv, TickOK
      <4>2. Start(u) <= at + Behind[g]
        BY <1>a, <4>1
      <4> QED
        BY <1>a, <4>1, <4>2, SoonBefore
    <3> QED
      BY <1>1, <1>a, <2>1, <2>3, <3>1, <3>2, <3>3 DEF RunOK, Start
  <2> QED
    BY <2>2, <2>3
<1> QED
  BY <1>2, <1>3, <1>4 DEF RunInv

(* Time passes: what is finished and not recorded is still recent.           *)
LEMMA PassSafe ==
    ASSUME Safe, Pass
    PROVE  Safe'
<1> USE DEF Safe
<1>1. /\ now' = now + 1 /\ registered' = registered /\ last' = last /\ runs' = runs
      /\ tick' = tick /\ fired' = fired /\ since' = since /\ doneAt' = doneAt
      /\ now < MaxTime
  BY DEF Pass
<1>2. now \in Nat /\ MaxTick \in Nat /\ MaxOutage \in Nat /\ MaxTime \in Nat /\ Retention \in Nat
  BY Times, Numbers
<1>3. Typed'
  <2>1. now' \in 0..MaxTime
    BY <1>1, <1>2
  <2> QED
    BY <1>1, <2>1 DEF Typed
<1>4. FiredOnce'
  BY <1>1 DEF FiredOnce
<1>5. TickInv'
  <2> SUFFICES ASSUME NEW t \in Tickers
               PROVE  TickOK(t)'
    BY DEF TickInv
  <2>1. TickOK(t) /\ Start(t) \in Nat
    BY Times DEF TickInv
  <2>2. Works(t) => now < Start(t) + MaxTick
    BY DEF Pass, Works, Start
  <2>3. Works(t) => Start(t) <= now' /\ now' <= Start(t) + MaxTick
    BY <1>1, <1>2, <2>1, <2>2 DEF TickOK
  <2> QED
    BY <1>1, <2>1, <2>3 DEF TickOK, Works, Start, Picked
<1>6. ASSUME NEW r \in Rows
      PROVE  RunOK(r)' /\ PrunedOK(r)'
  <2>1. RunOK(r) /\ PrunedOK(r) /\ r[1] \in Schedules /\ r[2] \in Nat /\ doneAt[r] \in Nat
    BY RowShape, Times DEF RunInv, PrunedInv
  <2>2. doneAt[r] # 0 => doneAt[r] <= now'
    BY <1>1, <1>2, <2>1 DEF RunOK
  <2>3. ASSUME doneAt[r] # 0, r[1] \in registered, last[r[1]] < r[2]
        PROVE  Soon(now', doneAt[r])
    <3>1. r \in runs /\ last[r[1]] \in Nat
      BY <2>1, <2>3, Times DEF RunOK
    <3>2. PICK u \in Tickers : now < doneAt[r] + Behind[u] + MaxOutage
      BY <2>1, <2>3, <3>1 DEF Pass
    <3>3. now' <= doneAt[r] + Behind[u] + MaxOutage
      BY <1>1, <1>2, <2>1, <3>2, Numbers
    <3> QED
      BY <3>3 DEF Soon
  <2>4. RunOK(r)'
    BY <1>1, <2>1, <2>2, <2>3 DEF RunOK, Start
  <2>5. r[2] + Retention <= now => r[2] + Retention <= now'
    BY <1>1, <1>2, <2>1
  <2>6. PrunedOK(r)'
    BY <1>1, <2>1, <2>5 DEF PrunedOK
  <2> QED
    BY <2>4, <2>6
<1> QED
  BY <1>3, <1>4, <1>5, <1>6 DEF RunInv, PrunedInv
-----------------------------------------------------------------------------
(* No run and no tick at the beginning.                                      *)
LEMMA InitSafe ==
    ASSUME Init
    PROVE  Safe
<1>1. MaxTime \in Nat /\ MaxTick \in Nat
  BY Numbers
<1>2. Idle \in TickRec /\ Idle.pc = "idle" /\ Idle.todo = {}
  BY <1>1 DEF Idle, TickRec
<1>3. \A t \in Tickers : tick[t] = Idle
  BY DEF Init
<1>4. Typed
  BY <1>1, <1>2 DEF Init, Typed
<1>5. TickInv
  BY <1>2, <1>3 DEF TickInv, TickOK, Works, Picked
<1>6. \A r \in Rows : doneAt[r] = 0 /\ fired[r] = 0 /\ r \notin runs
  BY DEF Init
<1> QED
  BY <1>4, <1>5, <1>6 DEF Safe, RunInv, RunOK, PrunedInv, PrunedOK, FiredOnce

(* Every step keeps the invariant.                                           *)
LEMMA NextSafe ==
    ASSUME Safe, [Next]_vars
    PROVE  Safe'
<1>1. ASSUME NEW t \in Tickers, NEW names \in SUBSET Schedules, Register(t, names)
      PROVE  Safe'
  BY <1>1, RegisterSafe
<1>2. ASSUME NEW t \in Tickers, Tick(t) \/ TickFails(t) \/ Crash(t)
      PROVE  Safe'
  <2>1. CASE TickStart(t)
    BY <2>1, TickStartSafe
  <2>2. CASE TickEnqueue(t)
    BY <2>2, TickEnqueueSafe
  <2>3. CASE TickRecord(t)
    BY <2>3, TickRecordSafe
  <2>4. CASE TickEnd(t)
    BY <2>4, TickEndSafe
  <2>5. CASE TickFails(t) \/ Crash(t)
    BY <2>5, TickLostSafe
  <2> QED
    BY <1>2, <2>1, <2>2, <2>3, <2>4, <2>5 DEF Tick
<1>3. ASSUME NEW t \in Tickers, NEW row \in Rows, Finish(t, row)
      PROVE  Safe'
  BY <1>3, FinishSafe
<1>4. CASE Pass
  BY <1>4, PassSafe
<1>5. CASE UNCHANGED vars
  BY <1>5 DEF vars, Safe, Typed, TickInv, TickOK, Works, Start, Picked, RunInv, RunOK,
              PrunedInv, PrunedOK, FiredOnce
<1> QED
  BY <1>1, <1>2, <1>3, <1>4, <1>5 DEF Next

(* The counters of registrations and faults stay within their bounds.        *)
LEMMA NextCounts ==
    ASSUME registers \in 0..MaxRegisters, faults \in 0..MaxFaults, [Next]_vars
    PROVE  registers' \in 0..MaxRegisters /\ faults' \in 0..MaxFaults
<1>1. MaxRegisters \in Nat /\ MaxFaults \in Nat
  BY Numbers
<1>2. registers' = registers \/ (registers < MaxRegisters /\ registers' = registers + 1)
  BY DEF Next, vars, Register, Tick, TickStart, TickEnqueue, TickRecord, TickEnd, TickFails,
         Crash, Finish, Pass
<1>3. faults' = faults \/ (faults < MaxFaults /\ faults' = faults + 1)
  BY DEF Next, vars, Register, Tick, TickStart, TickEnqueue, TickRecord, TickEnd, TickFails,
         Crash, Finish, Pass
<1> QED
  BY <1>1, <1>2, <1>3

(* The inductive invariant: a finished run whose boundary is not recorded,   *)
(* or that a tick is to enqueue again, finished recently, and a run that was *)
(* pruned is recorded and in no tick.                                        *)
THEOREM Invariance == Spec => [](Safe /\ TypeOK)
<1>1. Init => Safe /\ TypeOK
  <2>1. Init => registers \in 0..MaxRegisters /\ faults \in 0..MaxFaults
    BY Numbers DEF Init
  <2> QED
    BY <2>1, InitSafe, Types DEF Safe
<1>2. Safe /\ TypeOK /\ [Next]_vars => (Safe /\ TypeOK)'
  <2> SUFFICES ASSUME Safe, TypeOK, [Next]_vars
               PROVE  (Safe /\ TypeOK)'
    OBVIOUS
  <2>1. registers' \in 0..MaxRegisters /\ faults' \in 0..MaxFaults
    BY NextCounts, Types
  <2>2. Safe'
    BY NextSafe
  <2> QED
    BY <2>1, <2>2 DEF Safe, Typed, TypeOK, TickRec
<1> QED
  BY <1>1, <1>2, PTL DEF Spec

(* Type correctness: the times stay within the bound, every run in the      *)
(* database and every row of a tick is a boundary of a schedule.             *)
THEOREM TypeCorrect == Spec => []TypeOK
  BY Invariance, PTL

(* Whatever the tickers, the stale records of a slow one, the registrations  *)
(* and the ends of runs written with clocks that are behind, the crashes     *)
(* between the insert and the record of a boundary and the cleanups, which   *)
(* take a run that is exactly a retention old, tick_once inserts a boundary  *)
(* once: a retention is longer than a tick, the longest outage and the       *)
(* slowest clock together.                                                   *)
THEOREM BoundaryOnce == Spec => []FiredOnce
<1>1. Safe => FiredOnce
  BY DEF Safe
<1> QED
  BY <1>1, Invariance, PTL

-----------------------------------------------------------------------------
(* A boundary, or a later one of its schedule, was inserted, or is still to  *)
(* be by a tick.                                                             *)
Enqueued(s, b) == \E c \in Boundaries[s] : c >= b /\ fired[<<s, c>>] > 0
Pending(t, s, b) == \E c \in Boundaries[s] : c >= b /\ <<s, c>> \in tick[t].todo

(* No boundary is skipped: what a row records as its last run is from before *)
(* its registration or was inserted, a tick records only what it inserted,   *)
(* and of the boundaries that had passed when a tick began none is left out. *)
LastOK(s) == last[s] <= since[s] \/ (last[s] \in Boundaries[s] /\ fired[<<s, last[s]>>] > 0)
RecordOK(t) == tick[t].pc = "record" => fired[tick[t].row] > 0
LeftOK(t) ==
    tick[t].pc \in {"enqueue", "record"} =>
        \A s \in registered : \A b \in Passed(s, t) : Enqueued(s, b) \/ Pending(t, s, b)

LeftInv == /\ \A s \in registered : LastOK(s)
           /\ \A t \in Tickers : RecordOK(t) /\ LeftOK(t)

(* What was inserted stays counted.                                          *)
LEMMA FiredGrows ==
    ASSUME Typed, [Next]_vars
    PROVE  \A r \in Rows : fired'[r] >= fired[r] /\ fired'[r] \in Nat
<1>1. fired' = fired \/ \E q \in Rows : fired' = [fired EXCEPT ![q] = @ + 1]
  <2>1. \A t \in Tickers : tick[t].todo \subseteq Rows
    BY Times
  <2>2. ASSUME NEW t \in Tickers, TickEnqueue(t)
        PROVE  fired' = fired \/ \E q \in Rows : fired' = [fired EXCEPT ![q] = @ + 1]
    BY <2>1, <2>2 DEF TickEnqueue
  <2> QED
    BY <2>2 DEF Next, vars, Register, Tick, TickStart, TickRecord, TickEnd, TickFails,
                Crash, Finish, Pass
<1>2. fired \in [Rows -> Nat]
  BY DEF Typed
<1> QED
  BY <1>1, <1>2

(* So a boundary that was enqueued, or that a row holds as its last run,     *)
(* stays so while the row is left alone.                                     *)
LEMMA EnqueuedStays ==
    ASSUME Typed, [Next]_vars, NEW s \in Schedules, NEW b, Enqueued(s, b)
    PROVE  Enqueued(s, b)'
<1>1. PICK c \in Boundaries[s] : c >= b /\ fired[<<s, c>>] > 0
  BY DEF Enqueued
<1>2. fired'[<<s, c>>] > 0
  BY <1>1, FiredGrows, RowMade, Times
<1> QED
  BY <1>1, <1>2 DEF Enqueued

(* A last run that was inserted, or from before the registration, stays one. *)
LEMMA LastStays ==
    ASSUME Typed, [Next]_vars, NEW s \in Schedules, LastOK(s),
           last'[s] = last[s], since'[s] = since[s]
    PROVE  LastOK(s)'
<1>1. CASE last[s] <= since[s]
  BY <1>1 DEF LastOK
<1>2. CASE last[s] \in Boundaries[s] /\ fired[<<s, last[s]>>] > 0
  BY <1>2, FiredGrows, RowMade, Times DEF LastOK
<1> QED
  BY <1>1, <1>2 DEF LastOK

(* A tick that is left alone still has in hand what it had.                  *)
LEMMA TickStays ==
    ASSUME Typed, TickInv, [Next]_vars, NEW t \in Tickers, RecordOK(t), LeftOK(t),
           tick'[t] = tick[t],
           \A s \in registered' : \/ s \in registered /\ since'[s] = since[s]
                                  \/ since'[s] = now
    PROVE  RecordOK(t)' /\ LeftOK(t)'
<1>1. RecordOK(t)'
  <2> SUFFICES ASSUME tick'[t].pc = "record"
               PROVE  fired'[tick'[t].row] > 0
    BY DEF RecordOK
  <2>1. fired[tick[t].row] > 0 /\ tick[t].row \in Rows
    BY DEF RecordOK, TickInv, TickOK
  <2> QED
    BY <2>1, FiredGrows, Times
<1>2. LeftOK(t)'
  <2> SUFFICES ASSUME tick'[t].pc \in {"enqueue", "record"}, NEW s \in registered',
                      NEW b \in Boundaries[s], since'[s] < b, b <= tick'[t].at
               PROVE  Enqueued(s, b)' \/ Pending(t, s, b)'
    BY DEF LeftOK, Passed
  <2>1. s \in Schedules
    BY DEF Next, vars, Register, Tick, TickStart, TickEnqueue, TickRecord, TickEnd, TickFails,
           Crash, Finish, Pass, Typed
  <2>2. b \in Nat
    BY <2>1, CronAssumption
  <2>3. tick[t].at <= now /\ tick[t].at \in Nat /\ now \in Nat
    <3>1. Start(t) <= now
      BY DEF TickInv, TickOK, Works
    <3> QED
      BY <3>1, Times, Numbers DEF Start
  <2>4. s \in registered /\ since'[s] = since[s]
    BY <2>2, <2>3
  <2>5. Enqueued(s, b) \/ Pending(t, s, b)
    BY <2>4 DEF LeftOK, Passed
  <2>6. Pending(t, s, b) => Pending(t, s, b)'
    BY DEF Pending
  <2> QED
    BY <2>1, <2>5, <2>6, EnqueuedStays
<1> QED
  BY <1>1, <1>2

(* The other ticks, when one ticker steps and the table stays.               *)
LEMMA OthersStay ==
    ASSUME Safe, LeftInv, [Next]_vars, NEW t \in Tickers, Ticks(t),
           registered' = registered, since' = since
    PROVE  \A u \in Tickers : u # t => RecordOK(u)' /\ LeftOK(u)'
<1> SUFFICES ASSUME NEW u \in Tickers, u # t
             PROVE  RecordOK(u)' /\ LeftOK(u)'
  OBVIOUS
<1>1. tick'[u] = tick[u]
  BY DEF Safe, Typed, Ticks
<1> QED
  BY <1>1, TickStays DEF Safe, LeftInv

(* A registration: a new row begins now, after every boundary that a tick    *)
(* under way has read.                                                       *)
LEMMA RegisterLeft ==
    ASSUME Safe, LeftInv, [Next]_vars, NEW g \in Tickers,
           NEW names \in SUBSET Schedules, Register(g, names)
    PROVE  LeftInv'
<1>1. last \in [Schedules -> 0..MaxTime] /\ since \in [Schedules -> 0..MaxTime] /\ now \in Nat
  BY Times DEF Safe, Typed
<1>2. /\ registered' = names /\ tick' = tick
      /\ last' = [s \in Schedules |-> IF s \in names \ registered THEN now - Behind[g]
                                    ELSE last[s]]
      /\ since' = [s \in Schedules |-> IF s \in names \ registered THEN now ELSE since[s]]
  BY DEF Register
<1>3. ASSUME NEW s \in names
      PROVE  LastOK(s)'
  <2>1. CASE s \in registered
    BY <1>2, <2>1, LastStays DEF Safe, LeftInv
  <2>2. CASE s \notin registered
    <3>1. last'[s] = now - Behind[g] /\ since'[s] = now /\ Behind[g] \in Nat
      BY <1>2, <2>2, Numbers
    <3> QED
      BY <1>1, <3>1 DEF LastOK
  <2> QED
    BY <2>1, <2>2
<1>4. \A s \in names : (s \in registered /\ since'[s] = since[s]) \/ since'[s] = now
  BY <1>2
<1>5. \A t \in Tickers : RecordOK(t)' /\ LeftOK(t)'
  BY <1>2, <1>4, TickStays DEF Safe, LeftInv
<1> QED
  BY <1>2, <1>3, <1>5 DEF LeftInv

(* The rows, when a step leaves the table alone.                             *)
LEMMA TableStays ==
    ASSUME Safe, LeftInv, [Next]_vars, registered' = registered, last' = last, since' = since
    PROVE  \A s \in registered' : LastOK(s)'
  BY LastStays DEF Safe, Typed, LeftInv

(* A tick that starts: what is before the last run of a row was inserted or  *)
(* passed before its registration, and of what is after it the tick takes    *)
(* the latest.                                                               *)
LEMMA TickStartLeft ==
    ASSUME Safe, LeftInv, [Next]_vars, NEW t \in Tickers, TickStart(t)
    PROVE  LeftInv'
<1> DEFINE at == now - Behind[t]
<1>1. Typed
  BY DEF Safe
<1>2. Ticks(t) /\ tick'[t].pc = "enqueue" /\ tick'[t].at + Behind[t] = now
  BY <1>1, TickStartMoves
<1>3. registered' = registered /\ since' = since /\ last' = last /\ fired' = fired
  BY DEF TickStart
<1>4. tick'[t].at = at /\ at \in 0..MaxTime
      /\ tick'[t].todo = {<<s, Max(Due(s, at))>> : s \in {q \in registered : Due(q, at) # {}}}
  <2>1. now \in 0..MaxTime /\ Behind[t] \in Nat /\ Behind[t] <= now /\ MaxTime \in Nat
    BY <1>1, Numbers DEF Typed, TickStart
  <2>2. at \in 0..MaxTime
    BY <2>1
  <2> QED
    BY <1>1, <2>2 DEF TickStart, Typed
<1>5. LeftOK(t)'
  <2> SUFFICES ASSUME NEW s \in registered, NEW b \in Boundaries[s], since[s] < b, b <= at
               PROVE  Enqueued(s, b)' \/ Pending(t, s, b)'
    BY <1>3, <1>4 DEF LeftOK, Passed
  <2>1. s \in Schedules
    BY <1>1 DEF Typed
  <2>2. b \in 1..MaxTime /\ Boundaries[s] \subseteq 1..MaxTime /\ MaxTime \in Nat
    BY <2>1, CronAssumption
  <2>3. last[s] \in Nat /\ since[s] \in Nat
    BY <1>1, <2>1, <2>2 DEF Typed
  <2>4. CASE b <= last[s]
    <3>1. last[s] \in Boundaries[s] /\ fired[<<s, last[s]>>] > 0
      BY <2>2, <2>3, <2>4 DEF LeftInv, LastOK
    <3>2. last[s] >= b
      BY <2>2, <2>3, <2>4
    <3> QED
      BY <1>3, <3>1, <3>2 DEF Enqueued
  <2>5. CASE ~(b <= last[s])
    <3>1. b \in Due(s, at)
      BY <2>2, <2>3, <2>5 DEF Due
    <3>2. Due(s, at) \subseteq 0..MaxTime
      BY <2>2 DEF Due
    <3>3. Max(Due(s, at)) \in Due(s, at) /\ b <= Max(Due(s, at))
      BY <2>2, <3>1, <3>2, MaxExists
    <3>4. Max(Due(s, at)) \in Boundaries[s]
      BY <3>3 DEF Due
    <3>5. Max(Due(s, at)) >= b
      BY <2>2, <3>3, <3>4
    <3>6. <<s, Max(Due(s, at))>> \in tick'[t].todo
      BY <1>4, <3>1
    <3> QED
      BY <3>4, <3>5, <3>6 DEF Pending
  <2> QED
    BY <2>4, <2>5
<1>6. RecordOK(t)'
  BY <1>2 DEF RecordOK
<1> QED
  BY <1>2, <1>3, <1>5, <1>6, OthersStay, TableStays DEF LeftInv

(* A row that a tick enqueues has been inserted, then or before.             *)
LEMMA TickEnqueueLeft ==
    ASSUME Safe, LeftInv, [Next]_vars, NEW t \in Tickers, TickEnqueue(t)
    PROVE  LeftInv'
<1>1. Typed
  BY DEF Safe
<1>2. PICK q \in tick[t].todo :
         /\ runs' = runs \cup {q}
         /\ fired' = IF Inserted(q) THEN [fired EXCEPT ![q] = @ + 1] ELSE fired
         /\ tick' = [tick EXCEPT ![t].pc = "record", ![t].row = q, ![t].todo = @ \ {q}]
  BY DEF TickEnqueue
<1>3. /\ Ticks(t) /\ tick'[t].pc = "record" /\ tick'[t].row = q
      /\ tick'[t].at = tick[t].at /\ tick'[t].todo = tick[t].todo \ {q} /\ q \in Rows
  BY <1>1, <1>2, TickEnqueueMoves
<1>4. registered' = registered /\ since' = since /\ last' = last
  BY DEF TickEnqueue
<1>5. fired'[q] > 0
  <2>1. fired \in [Rows -> Nat] /\ fired[q] \in Nat
    BY <1>1, <1>3 DEF Typed
  <2>2. CASE q \in runs
    BY <1>2, <1>3, <2>2 DEF Safe, RunInv, RunOK, Inserted
  <2>3. CASE q \notin runs
    BY <1>2, <1>3, <2>1, <2>3 DEF Inserted
  <2> QED
    BY <2>2, <2>3
<1>6. RecordOK(t)'
  BY <1>3, <1>5 DEF RecordOK
<1>7. LeftOK(t)'
  <2> SUFFICES ASSUME NEW s \in registered, NEW b \in Passed(s, t)
               PROVE  Enqueued(s, b)' \/ Pending(t, s, b)'
    BY <1>3, <1>4 DEF LeftOK, Passed
  <2>1. s \in Schedules
    BY <1>1 DEF Typed
  <2>2. tick[t].pc = "enqueue"
    BY DEF TickEnqueue
  <2>3. Enqueued(s, b) \/ Pending(t, s, b)
    BY <2>2 DEF LeftInv, LeftOK
  <2>4. CASE Enqueued(s, b)
    BY <1>1, <2>1, <2>4, EnqueuedStays
  <2>5. CASE Pending(t, s, b)
    <3>1. PICK c \in Boundaries[s] : c >= b /\ <<s, c>> \in tick[t].todo
      BY <2>5 DEF Pending
    <3>2. CASE <<s, c>> = q
      BY <1>5, <3>1, <3>2 DEF Enqueued
    <3>3. CASE <<s, c>> # q
      BY <1>3, <3>1, <3>3 DEF Pending
    <3> QED
      BY <3>2, <3>3
  <2> QED
    BY <2>3, <2>4, <2>5
<1> QED
  BY <1>3, <1>4, <1>6, <1>7, OthersStay, TableStays DEF LeftInv

(* A row is recorded, by a tick as late as may be: what it records was       *)
(* inserted.                                                                 *)
LEMMA TickRecordLeft ==
    ASSUME Safe, LeftInv, [Next]_vars, NEW t \in Tickers, TickRecord(t)
    PROVE  LeftInv'
<1> DEFINE q == tick[t].row
<1>1. Typed
  BY DEF Safe
<1>2. /\ Ticks(t) /\ tick'[t].pc = "enqueue"
      /\ tick'[t].at = tick[t].at /\ tick'[t].todo = tick[t].todo
  BY <1>1, TickRecordMoves
<1>3. /\ registered' = registered /\ since' = since /\ fired' = fired /\ tick[t].pc = "record"
      /\ last' = IF q[1] \in registered THEN [last EXCEPT ![q[1]] = q[2]] ELSE last
  BY DEF TickRecord
<1>4. q \in Rows /\ fired[q] > 0
  BY <1>3 DEF Safe, TickInv, TickOK, LeftInv, RecordOK
<1>5. q = <<q[1], q[2]>> /\ q[1] \in Schedules /\ q[2] \in Boundaries[q[1]]
  BY <1>4, RowShape
<1> HIDE DEF q
<1>6. ASSUME NEW s \in registered
      PROVE  LastOK(s)'
  <2>1. s \in Schedules /\ last \in [Schedules -> 0..MaxTime]
    BY <1>1 DEF Typed
  <2>2. CASE s = q[1]
    <3>1. last'[s] = q[2]
      BY <1>3, <2>1, <2>2
    <3>2. last'[s] \in Boundaries[s] /\ fired'[<<s, last'[s]>>] > 0
      BY <1>3, <1>4, <1>5, <2>2, <3>1
    <3> QED
      BY <3>2 DEF LastOK
  <2>3. CASE s # q[1]
    <3>1. last'[s] = last[s]
      BY <1>3, <2>1, <2>3
    <3> QED
      BY <1>1, <1>3, <2>1, <3>1, LastStays DEF LeftInv
  <2> QED
    BY <2>2, <2>3
<1>7. RecordOK(t)'
  BY <1>2 DEF RecordOK
<1>8. LeftOK(t)'
  <2> SUFFICES ASSUME NEW s \in registered, NEW b \in Passed(s, t)
               PROVE  Enqueued(s, b)' \/ Pending(t, s, b)'
    BY <1>2, <1>3 DEF LeftOK, Passed
  <2>1. Enqueued(s, b) \/ Pending(t, s, b)
    BY <1>3 DEF LeftInv, LeftOK
  <2> QED
    BY <1>2, <1>3, <2>1 DEF Enqueued, Pending
<1> QED
  BY <1>2, <1>3, <1>6, <1>7, <1>8, OthersStay DEF LeftInv

(* A tick that ends, fails or is cut off promises nothing any more.          *)
LEMMA TickStopLeft ==
    ASSUME Safe, LeftInv, [Next]_vars, NEW t \in Tickers, TickEnd(t) \/ TickFails(t) \/ Crash(t)
    PROVE  LeftInv'
<1>1. Ticks(t) /\ tick'[t].pc \in {"idle", "failed"}
  BY TickStopMoves DEF Safe
<1>2. registered' = registered /\ since' = since /\ last' = last
  BY DEF TickEnd, TickFails, Crash
<1>3. RecordOK(t)' /\ LeftOK(t)'
  BY <1>1 DEF RecordOK, LeftOK
<1> QED
  BY <1>1, <1>2, <1>3, OthersStay, TableStays DEF LeftInv

(* A run that finishes, and time that passes, move neither table nor tick.   *)
LEMMA OtherLeft ==
    ASSUME Safe, LeftInv, [Next]_vars,
           tick' = tick, registered' = registered, since' = since, last' = last
    PROVE  LeftInv'
<1>1. \A t \in Tickers : RecordOK(t)' /\ LeftOK(t)'
  BY TickStays DEF Safe, LeftInv
<1> QED
  BY <1>1, TableStays DEF LeftInv

(* Every step keeps it.                                                      *)
LEMMA NextLeft ==
    ASSUME Safe, LeftInv, [Next]_vars
    PROVE  LeftInv'
<1>1. ASSUME NEW t \in Tickers, NEW names \in SUBSET Schedules, Register(t, names)
      PROVE  LeftInv'
  BY <1>1, RegisterLeft
<1>2. ASSUME NEW t \in Tickers, Tick(t) \/ TickFails(t) \/ Crash(t)
      PROVE  LeftInv'
  <2>1. CASE TickStart(t)
    BY <2>1, TickStartLeft
  <2>2. CASE TickEnqueue(t)
    BY <2>2, TickEnqueueLeft
  <2>3. CASE TickRecord(t)
    BY <2>3, TickRecordLeft
  <2>4. CASE TickEnd(t) \/ TickFails(t) \/ Crash(t)
    BY <2>4, TickStopLeft
  <2> QED
    BY <1>2, <2>1, <2>2, <2>3, <2>4 DEF Tick
<1>3. ASSUME (\E t \in Tickers : \E row \in Rows : Finish(t, row)) \/ Pass \/ UNCHANGED vars
      PROVE  LeftInv'
  BY <1>3, OtherLeft DEF Finish, Pass, vars
<1> QED
  BY <1>1, <1>2, <1>3 DEF Next

(* A tick that ends as it should has nothing left to enqueue.                *)
LEMMA EndLeavesNone ==
    ASSUME Typed, LeftInv, Next, NEW t \in Tickers, tick[t].pc = "enqueue",
           tick'[t].pc = "idle", faults' = faults, faults \in Nat
    PROVE  \A s \in registered : \A b \in Passed(s, t) : Enqueued(s, b)
<1>1. tick[t].todo = {}
  <2>1. ASSUME NEW u \in Tickers, Ticks(u), tick'[u].pc # "idle"
        PROVE  FALSE
    BY <2>1 DEF Ticks, Typed
  <2>2. \A u \in Tickers : ~(TickFails(u) \/ Crash(u))
    <3>1. ASSUME faults' = faults + 1
          PROVE  FALSE
      <4>1. faults + 1 = faults
        BY <3>1
      <4> QED
        BY <4>1
    <3> QED
      BY <3>1 DEF TickFails, Crash
  <2>3. ASSUME NEW u \in Tickers, TickEnd(u)
        PROVE  u = t /\ tick[t].todo = {}
    BY <2>3 DEF TickEnd, Typed
  <2> QED
    BY <2>1, <2>2, <2>3, TickStartMoves, TickRecordMoves, TickEnqueueMoves
       DEF Next, Tick, Register, Finish, Pass, TickEnqueue
<1> QED
  BY <1>1 DEF LeftInv, LeftOK, Pending

(* No boundary is lost: a tick of tick_once that ends without an error       *)
(* leaves none that passed while its schedule was registered, whichever      *)
(* ticker records an older boundary over it and whatever registrations come  *)
(* in between.                                                               *)
THEOREM BoundariesKept == Spec => NoneLeft
<1>1. Init => LeftInv
  BY DEF Init, LeftInv, RecordOK, LeftOK, Idle
<1>2. Safe /\ LeftInv /\ [Next]_vars => LeftInv'
  BY NextLeft
<1>3. Safe /\ TypeOK /\ LeftInv /\ [Next]_vars =>
        [\A t \in Tickers :
          tick[t].pc = "enqueue" /\ tick'[t].pc = "idle" /\ faults' = faults =>
              \A s \in registered : \A b \in Passed(s, t) :
                  \E c \in Boundaries[s] : c >= b /\ fired[<<s, c>>] > 0]_vars
  <2> SUFFICES ASSUME Safe, TypeOK, LeftInv, Next, NEW t \in Tickers,
                      tick[t].pc = "enqueue", tick'[t].pc = "idle", faults' = faults
               PROVE  \A s \in registered : \A b \in Passed(s, t) : Enqueued(s, b)
    BY DEF Enqueued
  <2>1. faults \in Nat
    BY Numbers DEF TypeOK
  <2> QED
    BY <2>1, EndLeavesNone DEF Safe
<1> QED
  BY <1>1, <1>2, <1>3, Invariance, PTL DEF Spec, NoneLeft
=============================================================================
