------------------------- MODULE ServerDrain_proofs -------------------------
(* Proofs about ServerDrain: what a finished drain and the activity lease   *)
(* promise, for any processes, requests and bounds.                         *)
EXTENDS ServerDrain, TLAPS

(* The records of a process. *)
HttpRec == [open : BOOLEAN, active : SUBSET AllRequests, long : SUBSET AllRequests,
            shut : SUBSET AllRequests]
InstRec == [reg : BOOLEAN, live : BOOLEAN, spawn : Spawns, orphan : BOOLEAN, cut : BOOLEAN]
TaskRec == [kind : Kinds, pc : Places, settled : BOOLEAN, failed : BOOLEAN, intent : BOOLEAN]

(* The initial records have their types.                                     *)
LEMMA FreshTypes == Free \in TaskRec /\ NoHttp \in HttpRec /\ NoInst \in InstRec
  BY DEF Free, NoHttp, NoInst, TaskRec, HttpRec, InstRec, Kinds, Places, Spawns

(* What is left of an instance that is removed.                              *)
LEMMA RemoveMoves ==
    ASSUME NEW i \in InstRec
    PROVE  /\ Remove(i) \in InstRec /\ Remove(i).reg = FALSE /\ Remove(i).live = FALSE
           /\ Remove(i).spawn = Astray(i.spawn)
           /\ Remove(i).orphan = i.orphan /\ Remove(i).cut = i.cut
<1>1. Astray(i.spawn) \in Spawns
  BY DEF Astray, InstRec, Spawns
<1>2. Remove(i) = [i EXCEPT !.reg = FALSE, !.live = FALSE, !.spawn = Astray(i.spawn)]
  BY DEF Remove
<1> QED
  BY <1>1, <1>2 DEF InstRec

(* Closing admission keeps the type of a registry.                           *)
LEMMA ShutTypes ==
    ASSUME NEW h \in HttpRec
    PROVE  ShutLong(h) \in HttpRec /\ ForceDrain(h) \in HttpRec
  BY DEF HttpRec, ShutLong, ForceDrain

(* Which task is where. *)
Controls(p) ==
    /\ task[p].pc \in {"restore", "open", "lower"} => task[p].kind \in {"resume", "reopen"}
    /\ task[p].pc = "exclusive" => task[p].kind = "drain"
    /\ task[p].pc \in {"gate", "wait", "report"} => Cleanup(p)
    /\ Cleanup(p) => task[p].pc \in {"gate", "wait", "report", "exclusive", "restore", "open", "lower"}
    /\ task[p].kind = "startup" => task[p].pc \in {"read", "check"}
    /\ p \notin up => task[p] = Free /\ obs[p] = "idle" /\ ~flag[p]

(* The instance slot and the spawn gate: a spawn fills an instance that is  *)
(* registered, unless a command has removed it, and a settled cleanup is    *)
(* alone.                                                                   *)
Gated(p) ==
    /\ inst[p].live \/ inst[p].spawn \in {"attach", "replace"} => inst[p].reg
    /\ inst[p].orphan \/ inst[p].spawn = "lost" => inst[p].cut
    /\ task[p].pc \in {"wait", "report"} /\ task[p].settled => inst[p].spawn = "none"
    /\ task[p].pc = "report" /\ ~task[p].failed => task[p].settled

(* The request registry. *)
Registry(p) ==
    /\ http[p].long \subseteq http[p].active
    /\ ~http[p].open => http[p].long \subseteq http[p].shut

Works(p) == http[p].active # {} \/ wf[p] # "gone" \/ inst[p].reg \/ inst[p].spawn # "none"

(* Where the lease is held. *)
Leased(p) ==
    /\ Works(p) => p \in activity /\ task[p].kind # "startup"
    /\ p \in up /\ ~flag[p] => p \in activity
    /\ At(p, "startup", "read") => p \in activity /\ ~flag[p] /\ obs[p] = "idle"
    /\ task[p].kind = "deploy" => p \in activity
    /\ task[p].pc \in {"exclusive", "restore"} => p \notin activity
    /\ task[p].pc \in {"open", "lower"} => p \in activity /\ wf[p] = "on"
    /\ Cleanup(p) => flag[p]
    /\ task[p].pc = "lower" => http[p].open \/ obs[p] \in {"check", "lock"}

Local(p) == Controls(p) /\ Gated(p) /\ Registry(p) /\ Leased(p)

Operating(p) == task[p].kind \in {"drain", "resume", "reopen", "undo"}

(* The operation lock and the intent. *)
Owned(p) ==
    /\ Operating(p) \/ p \in waiting => op = p
    /\ p \in waiting => requested /\ ~Operating(p)
    /\ task[p].kind = "drain" => requested
    /\ task[p].kind \in {"resume", "reopen"} /\ ~task[p].intent => ~requested
    /\ task[p].pc \in {"open", "lower"} => ~quiet

Silent == quiet => requested /\ \A p \in activity : At(p, "startup", "read")

(* The state of the processes, the state they share, and the invariant.      *)
ProcType ==
    /\ flag \in [Procs -> BOOLEAN] /\ http \in [Procs -> HttpRec] /\ inst \in [Procs -> InstRec]
    /\ wf \in [Procs -> {"on", "draining", "gone"}] /\ task \in [Procs -> TaskRec]
    /\ obs \in [Procs -> {"idle", "raise", "close", "check", "lock", "hold"}]

SharedType ==
    /\ requested \in BOOLEAN /\ quiet \in BOOLEAN /\ op \in Procs \cup {None}
    /\ activity \subseteq up /\ waiting \subseteq up /\ up \subseteq Procs

Inv == /\ ProcType /\ SharedType
       /\ \A p \in Procs : Local(p) /\ Owned(p)
       /\ Silent
-----------------------------------------------------------------------------
(* A step of p writes the state of p only.                                   *)
Only(p) ==
    /\ flag' = [flag EXCEPT ![p] = flag'[p]] /\ flag'[p] \in BOOLEAN
    /\ http' = [http EXCEPT ![p] = http'[p]] /\ http'[p] \in HttpRec
    /\ inst' = [inst EXCEPT ![p] = inst'[p]] /\ inst'[p] \in InstRec
    /\ wf' = [wf EXCEPT ![p] = wf'[p]] /\ wf'[p] \in {"on", "draining", "gone"}
    /\ task' = [task EXCEPT ![p] = task'[p]] /\ task'[p] \in TaskRec
    /\ obs' = [obs EXCEPT ![p] = obs'[p]] /\ obs'[p] \in {"idle", "raise", "close", "check", "lock", "hold"}

(* What it does to the shared state concerns p, and it takes or uses the     *)
(* operation lock only if that is free or its own.                           *)
Shares(p) ==
    /\ SharedType'
    /\ up' \ {p} = up \ {p} /\ activity' \ {p} = activity \ {p} /\ waiting' \ {p} = waiting \ {p}
    /\ op' # op \/ requested' # requested \/ (quiet' /\ ~quiet) => op \in {p, None}

(* No work appears in p during a quiet time, and such a time begins only     *)
(* when nobody holds the lease.                                              *)
Hushed(p) ==
    quiet' => /\ requested'
              /\ p \in activity' => task'[p].kind = "startup" /\ task'[p].pc = "read"
              /\ quiet \/ activity \ {p} = {}

Good(p) == Only(p) /\ Shares(p) /\ Local(p)' /\ Owned(p)' /\ Hushed(p)

(* What a step leaves alone.                                                 *)
LEMMA Kept ==
    ASSUME ProcType, NEW p \in Procs
    PROVE  /\ flag' = flag => flag' = [flag EXCEPT ![p] = flag'[p]] /\ flag'[p] \in BOOLEAN
           /\ http' = http => http' = [http EXCEPT ![p] = http'[p]] /\ http'[p] \in HttpRec
           /\ inst' = inst => inst' = [inst EXCEPT ![p] = inst'[p]] /\ inst'[p] \in InstRec
           /\ wf' = wf => wf' = [wf EXCEPT ![p] = wf'[p]] /\ wf'[p] \in {"on", "draining", "gone"}
           /\ task' = task => task' = [task EXCEPT ![p] = task'[p]] /\ task'[p] \in TaskRec
           /\ obs' = obs => obs' = [obs EXCEPT ![p] = obs'[p]]
                             /\ obs'[p] \in {"idle", "raise", "close", "check", "lock", "hold"}
  BY DEF ProcType

(* A step that is good for its process keeps the invariant.                  *)
LEMMA GoodStep ==
    ASSUME Inv, NEW p \in Procs, Good(p)
    PROVE  Inv'
<1>1. ProcType'
  BY DEF Good, Only, Inv, ProcType
<1>2. ASSUME NEW q \in Procs \ {p}
      PROVE  /\ flag'[q] = flag[q] /\ http'[q] = http[q] /\ inst'[q] = inst[q]
             /\ wf'[q] = wf[q] /\ task'[q] = task[q] /\ obs'[q] = obs[q]
             /\ (q \in up' <=> q \in up) /\ (q \in activity' <=> q \in activity)
             /\ (q \in waiting' <=> q \in waiting)
  BY DEF Good, Only, Shares, Inv, ProcType
<1>3. ASSUME NEW q \in Procs \ {p}
      PROVE  Local(q)'
  <2>1. Local(q)
    BY DEF Inv
  <2> QED
    BY <1>2, <2>1 DEF Local, Controls, Gated, Registry, Leased, Works, At, Cleanup
<1>4. ASSUME NEW q \in Procs \ {p}
      PROVE  Owned(q)'
  <2>1. Owned(q) /\ Controls(q)
    BY DEF Inv, Local
  <2>2. CASE op = q
    <3>1. op' = op /\ requested' = requested /\ (quiet' => quiet)
      BY <2>2, NoneAssumption DEF Good, Shares
    <3> QED
      BY <1>2, <2>1, <3>1 DEF Owned, Operating
  <2>3. CASE op # q
    BY <1>2, <2>1, <2>3 DEF Owned, Operating, Controls
  <2> QED
    BY <2>2, <2>3
<1>5. Silent'
  <2> SUFFICES ASSUME quiet', NEW q \in activity'
               PROVE  requested' /\ task'[q].kind = "startup" /\ task'[q].pc = "read"
    BY DEF Silent, At, Good, Hushed
  <2>1. CASE q = p
    BY <2>1 DEF Good, Hushed
  <2>2. CASE q # p
    <3>1. q \in activity /\ q \in Procs
      BY <2>2 DEF Good, Shares, Inv, SharedType
    <3>2. quiet /\ requested'
      BY <2>2, <3>1 DEF Good, Hushed
    <3> QED
      BY <1>2, <2>2, <3>1, <3>2 DEF Inv, Silent, At
  <2> QED
    BY <2>1, <2>2
<1> QED
  BY <1>1, <1>3, <1>4, <1>5 DEF Inv, Good, Shares

(* Steps of the proxy: the shared state and the tasks stay as they are.      *)
LEMMA RequestGood ==
    ASSUME Inv, NEW p \in Procs, NEW r \in Requests[p],
           Register(p, r) \/ MarkLongLived(p, r) \/ EndRequest(p, r)
    PROVE  Good(p)
<1>a. ProcType /\ Local(p) /\ Owned(p) /\ http[p] \in HttpRec /\ SharedType /\ Silent
  BY DEF Inv, ProcType
<1>b. r \in AllRequests
  BY DEF AllRequests
<1>c. /\ UNCHANGED <<requested, op, activity, up, flag, inst, wf, task, obs, waiting, quiet>>
  BY DEF Register, MarkLongLived, EndRequest, shared, control
<1>1. /\ http' = [http EXCEPT ![p] = http'[p]] /\ http'[p] \in HttpRec
      /\ http'[p].open = http[p].open
      /\ http'[p].long \subseteq http'[p].active
      /\ ~http'[p].open => http'[p].long \subseteq http'[p].shut
      /\ http'[p].active # {} => p \in activity /\ task[p].kind # "startup"
  <2>1. CASE Register(p, r)
    <3>1. http' = [http EXCEPT ![p] = http'[p]] /\ http'[p] = [http[p] EXCEPT !.active = @ \cup {r}]
      BY <1>a, <2>1 DEF Register, ProcType, HttpRec
    <3>2. http'[p] \in HttpRec /\ http'[p].open /\ http[p].open /\ http'[p].long = http[p].long
          /\ http'[p].active = http[p].active \cup {r}
      BY <1>a, <1>b, <2>1, <3>1 DEF Register, HttpRec
    <3>3. p \in activity /\ task[p].kind # "startup"
      BY <1>a, <2>1 DEF Register, Serving, Local, Leased
    <3> QED
      BY <1>a, <3>1, <3>2, <3>3 DEF Local, Registry
  <2>2. CASE MarkLongLived(p, r)
    <3>1. /\ http' = [http EXCEPT ![p] = http'[p]]
          /\ http'[p] = [http[p] EXCEPT !.long = @ \cup {r},
                                        !.shut = IF http[p].open THEN @ ELSE @ \cup {r}]
      BY <1>a, <2>2 DEF MarkLongLived, ProcType, HttpRec
    <3>2. /\ http'[p].open = http[p].open /\ http'[p].active = http[p].active
          /\ http'[p].long = http[p].long \cup {r}
          /\ http'[p].shut = IF http[p].open THEN http[p].shut ELSE http[p].shut \cup {r}
      BY <1>a, <3>1 DEF HttpRec
    <3>3. http'[p] \in HttpRec
      <4> DEFINE l == http[p].long \cup {r}
                 s == IF http[p].open THEN http[p].shut ELSE http[p].shut \cup {r}
      <4>1. l \in SUBSET AllRequests /\ s \in SUBSET AllRequests
        BY <1>a, <1>b DEF HttpRec
      <4>2. http'[p] = [http[p] EXCEPT !.long = l, !.shut = s]
        BY <3>1
      <4> HIDE DEF l, s
      <4> QED
        BY <1>a, <4>1, <4>2 DEF HttpRec
    <3>4. /\ http[p].long \subseteq http[p].active /\ r \in http[p].active
          /\ ~http[p].open => http[p].long \subseteq http[p].shut
          /\ p \in activity /\ task[p].kind # "startup"
      BY <1>a, <2>2 DEF Local, Registry, Leased, Works, MarkLongLived
    <3>5. ~http'[p].open => http'[p].long \subseteq http'[p].shut
      BY <3>2, <3>4
    <3> QED
      BY <3>1, <3>2, <3>3, <3>4, <3>5
  <2>3. CASE EndRequest(p, r)
    <3>1. /\ http' = [http EXCEPT ![p] = http'[p]]
          /\ http'[p] = [http[p] EXCEPT !.active = @ \ {r}, !.long = @ \ {r}, !.shut = @ \ {r}]
      BY <1>a, <2>3 DEF EndRequest, ProcType, HttpRec
    <3>2. /\ http'[p].open = http[p].open /\ http'[p].active = http[p].active \ {r}
          /\ http'[p].long = http[p].long \ {r}
          /\ http'[p].shut = http[p].shut \ {r}
      BY <1>a, <3>1 DEF HttpRec
    <3>3. http'[p] \in HttpRec
      BY <1>a, <3>1 DEF HttpRec
    <3> QED
      BY <1>a, <2>3, <3>1, <3>2, <3>3 DEF Local, Registry, Leased, Works, EndRequest
  <2> QED
    BY <2>1, <2>2, <2>3
<1>2. Only(p) /\ Shares(p)
  BY <1>a, <1>c, <1>1, Kept DEF Only, Shares, SharedType
<1>3. Local(p)'
  BY <1>a, <1>c, <1>1 DEF Local, Controls, Gated, Registry, Leased, Works, At, Cleanup
<1>4. Owned(p)' /\ Hushed(p)
  BY <1>a, <1>c DEF Owned, Operating, Hushed, Silent, At
<1> QED
  BY <1>2, <1>3, <1>4 DEF Good

(* Spawn tasks: under the lease, and never beside a settled cleanup.         *)
LEMMA SpawnGood ==
    ASSUME Inv, NEW p \in Procs,
           \/ ColdStart(p) \/ ColdAllocates(p) \/ Replace(p) \/ Replaces(p) \/ SpawnEnds(p)
    PROVE  Good(p)
<1>a. ProcType /\ Local(p) /\ Owned(p) /\ inst[p] \in InstRec /\ SharedType /\ Silent
  BY DEF Inv, ProcType
<1>c. UNCHANGED <<requested, op, activity, up, http, wf, task, obs, waiting, quiet>>
  BY DEF ColdStart, ColdAllocates, Replace, Replaces, SpawnEnds, shared, control
<1>1. /\ flag' = [flag EXCEPT ![p] = flag'[p]] /\ flag'[p] \in BOOLEAN
      /\ flag[p] => flag'[p]
      /\ flag'[p] => flag[p] \/ inst[p].spawn \in {"replace", "late"}
  BY <1>a DEF ProcType, ColdStart, ColdAllocates, Replace, Replaces, SpawnEnds, IsDraining, SharedType
<1>2. /\ inst' = [inst EXCEPT ![p] = inst'[p]] /\ inst'[p] \in InstRec
      /\ inst'[p].live \/ inst'[p].spawn \in {"attach", "replace"} => inst'[p].reg
      /\ inst'[p].orphan \/ inst'[p].spawn = "lost" => inst'[p].cut
      /\ inst'[p].spawn # "none" => inst[p].spawn # "none" \/ ~Writer(p)
      /\ http[p].active # {} \/ inst[p].reg \/ inst[p].spawn # "none"
  <2>1. CASE ColdStart(p)
    <3>1. inst' = [inst EXCEPT ![p] = inst'[p]] /\ inst'[p] = [inst[p] EXCEPT !.spawn = "cold"]
      BY <1>a, <2>1 DEF ColdStart, ProcType, InstRec
    <3> QED
      BY <1>a, <2>1, <3>1 DEF ColdStart, TryRead, InstRec, Spawns, Local, Gated
  <2>2. CASE ColdAllocates(p)
    <3>1. /\ inst' = [inst EXCEPT ![p] = inst'[p]] /\ inst[p].spawn = "cold"
          /\ \/ inst'[p] = [inst[p] EXCEPT !.spawn = "none"]
             \/ inst'[p] = [inst[p] EXCEPT !.spawn = "attach", !.reg = TRUE]
      BY <1>a, <2>2 DEF ColdAllocates, ProcType
    <3>2. CASE inst'[p] = [inst[p] EXCEPT !.spawn = "none"]
      BY <1>a, <3>1, <3>2 DEF InstRec, Spawns, Local, Gated
    <3>3. CASE inst'[p] = [inst[p] EXCEPT !.spawn = "attach", !.reg = TRUE]
      BY <1>a, <3>1, <3>3 DEF InstRec, Spawns, Local, Gated
    <3> QED
      BY <3>1, <3>2, <3>3
  <2>3. CASE Replace(p)
    <3>1. /\ inst' = [inst EXCEPT ![p] = inst'[p]]
          /\ inst'[p] = [inst[p] EXCEPT !.spawn = "replace", !.live = FALSE]
      BY <1>a, <2>3 DEF Replace, ProcType, InstRec
    <3>2. inst[p].spawn = "none" /\ inst[p].reg /\ ~Writer(p) /\ (inst[p].orphan => inst[p].cut)
      BY <1>a, <2>3 DEF Replace, TryRead, Local, Gated
    <3>3. /\ inst'[p] \in InstRec /\ inst'[p].spawn = "replace" /\ inst'[p].live = FALSE
          /\ inst'[p].reg = inst[p].reg /\ inst'[p].orphan = inst[p].orphan
          /\ inst'[p].cut = inst[p].cut
      BY <1>a, <3>1 DEF InstRec, Spawns
    <3> QED
      BY <3>1, <3>2, <3>3
  <2>4. CASE Replaces(p)
    <3>1. /\ inst' = [inst EXCEPT ![p] = inst'[p]] /\ inst[p].spawn \in {"replace", "late"}
          /\ \/ inst'[p] = [inst[p] EXCEPT !.spawn = "none"]
             \/ inst'[p] = [inst[p] EXCEPT !.spawn = "attach"] /\ inst[p].spawn = "replace"
      BY <1>a, <2>4 DEF Replaces, ProcType
    <3>2. CASE inst'[p] = [inst[p] EXCEPT !.spawn = "none"]
      BY <1>a, <3>1, <3>2 DEF InstRec, Spawns, Local, Gated
    <3>3. CASE inst'[p] = [inst[p] EXCEPT !.spawn = "attach"] /\ inst[p].spawn = "replace"
      BY <1>a, <3>1, <3>3 DEF InstRec, Spawns, Local, Gated
    <3> QED
      BY <3>1, <3>2, <3>3
  <2>5. CASE SpawnEnds(p)
    <3>1. ASSUME inst[p].spawn = "attach", NEW on \in BOOLEAN,
                 inst' = [inst EXCEPT ![p].spawn = "none", ![p].live = on, ![p].reg = on]
          PROVE  /\ inst' = [inst EXCEPT ![p] = inst'[p]]
                 /\ inst'[p] = [inst[p] EXCEPT !.spawn = "none", !.live = on, !.reg = on]
      BY <1>a, <3>1 DEF ProcType, InstRec
    <3>2. ASSUME inst[p].spawn = "attach", NEW on \in BOOLEAN,
                 inst'[p] = [inst[p] EXCEPT !.spawn = "none", !.live = on, !.reg = on]
          PROVE  /\ inst'[p] \in InstRec /\ inst'[p].spawn = "none"
                 /\ (inst'[p].live => inst'[p].reg) /\ (inst'[p].orphan => inst'[p].cut)
      BY <1>a, <3>2 DEF InstRec, Spawns, Local, Gated
    <3>3. ASSUME inst[p].spawn = "lost", NEW on \in BOOLEAN,
                 inst' = [inst EXCEPT ![p].spawn = "none", ![p].orphan = on \/ inst[p].orphan]
          PROVE  /\ inst' = [inst EXCEPT ![p] = inst'[p]]
                 /\ inst'[p] = [inst[p] EXCEPT !.spawn = "none", !.orphan = on \/ inst[p].orphan]
      BY <1>a, <3>3 DEF ProcType, InstRec
    <3>4. ASSUME inst[p].spawn = "lost", NEW on \in BOOLEAN,
                 inst'[p] = [inst[p] EXCEPT !.spawn = "none", !.orphan = on \/ inst[p].orphan]
          PROVE  /\ inst'[p] \in InstRec /\ inst'[p].spawn = "none"
                 /\ (inst'[p].live => inst'[p].reg) /\ (inst'[p].orphan => inst'[p].cut)
      BY <1>a, <3>4 DEF InstRec, Spawns, Local, Gated
    <3>5. inst[p].spawn \in {"attach", "lost"}
      BY <2>5 DEF SpawnEnds
    <3> QED
      BY <2>5, <3>1, <3>2, <3>3, <3>4, <3>5 DEF SpawnEnds
  <2> QED
    BY <2>1, <2>2, <2>3, <2>4, <2>5
<1>3. Only(p) /\ Shares(p)
  BY <1>a, <1>c, <1>1, <1>2, Kept DEF Only, Shares, SharedType
<1>4. p \in activity /\ task[p].kind # "startup" /\ p \in up
  BY <1>a, <1>2 DEF Local, Leased, Works, SharedType
<1>5. Gated(p)'
  BY <1>a, <1>c, <1>2 DEF Local, Gated, Writer
<1>6. Leased(p)'
  BY <1>a, <1>c, <1>1, <1>4 DEF Local, Leased, Works, At, Cleanup
<1>7. Controls(p)' /\ Registry(p)'
  BY <1>a, <1>c, <1>4 DEF Local, Controls, Registry, Cleanup
<1>8. Owned(p)' /\ Hushed(p)
  BY <1>a, <1>c DEF Owned, Operating, Hushed, Silent, At
<1> QED
  BY <1>3, <1>5, <1>6, <1>7, <1>8 DEF Good, Local

(* The workers of a draining workflow runtime leave.                         *)
LEMMA WorkersGood ==
    ASSUME Inv, NEW p \in Procs, WorkersGone(p)
    PROVE  Good(p)
<1>a. ProcType /\ Local(p) /\ Owned(p) /\ SharedType /\ Silent
  BY DEF Inv, ProcType
<1>c. UNCHANGED <<requested, op, activity, up, flag, http, inst, task, obs, waiting, quiet>>
  BY DEF WorkersGone, shared, control
<1>1. /\ wf' = [wf EXCEPT ![p] = wf'[p]] /\ wf[p] = "draining" /\ wf'[p] = "gone"
  BY <1>a DEF WorkersGone, ProcType
<1>2. Only(p) /\ Shares(p)
  BY <1>a, <1>c, <1>1, Kept DEF Only, Shares, SharedType
<1>3. Local(p)'
  BY <1>a, <1>c, <1>1 DEF Local, Controls, Gated, Registry, Leased, Works, At, Cleanup
<1>4. Owned(p)' /\ Hushed(p)
  BY <1>a, <1>c DEF Owned, Operating, Hushed, Silent, At
<1> QED
  BY <1>2, <1>3, <1>4 DEF Good

(* The task of p after an operation on the management lock.                  *)
Holds(p, k, x) ==
    /\ task' = [task EXCEPT ![p] = task'[p]] /\ task'[p] \in TaskRec
    /\ task'[p].kind = k /\ task'[p].pc = x

(* The operations on the management lock.                                    *)
LEMMA TaskMoves ==
    ASSUME ProcType, NEW p \in Procs
    PROVE  /\ \A x \in Places : Goto(p, x) => Holds(p, task[p].kind, x)
                                              /\ task'[p].intent = task[p].intent
           /\ \A x \in Places : Leave(p, x) => Holds(p, task[p].kind, x)
                                               /\ task'[p].intent = task[p].intent
           /\ \A k \in Kinds, x \in Places : Begin(p, k, x) => Holds(p, k, x)
           /\ Unlock(p) => Holds(p, "none", "idle") /\ task'[p] = Free
<1>a. task[p] \in TaskRec
  BY DEF ProcType
<1>1. ASSUME NEW x \in Places, Goto(p, x)
      PROVE  Holds(p, task[p].kind, x) /\ task'[p].intent = task[p].intent
  BY <1>1 DEF ProcType, Goto, TaskRec, Holds
<1>2. ASSUME NEW x \in Places, Leave(p, x)
      PROVE  Holds(p, task[p].kind, x) /\ task'[p].intent = task[p].intent
  <2>1. /\ task' = [task EXCEPT ![p] = task'[p]]
        /\ task'[p] = [task[p] EXCEPT !.pc = x, !.settled = FALSE]
    BY <1>2 DEF ProcType, Leave, TaskRec
  <2> QED
    BY <1>a, <2>1 DEF TaskRec, Holds
<1>3. ASSUME NEW k \in Kinds, NEW x \in Places, Begin(p, k, x)
      PROVE  Holds(p, k, x)
  <2>1. task' = [task EXCEPT ![p] = task'[p]] /\ task'[p] = [Free EXCEPT !.kind = k, !.pc = x]
    BY <1>3 DEF ProcType, Begin
  <2> QED
    BY <2>1, FreshTypes DEF TaskRec, Holds
<1>4. ASSUME Unlock(p)
      PROVE  Holds(p, "none", "idle") /\ task'[p] = Free
  BY <1>4, FreshTypes DEF ProcType, Unlock, Holds, Free
<1> QED
  BY <1>1, <1>2, <1>3, <1>4

(* The end of a task that may be the observer's.                             *)
LEMMA FinishMoves ==
    ASSUME ProcType, NEW p \in Procs, Finish(p)
    PROVE  /\ Holds(p, "none", "idle") /\ task'[p] = Free
           /\ obs' = [obs EXCEPT ![p] = obs'[p]]
           /\ obs'[p] \in {"idle", "raise", "close", "check", "lock", "hold"}
  BY TaskMoves DEF Finish, ProcType

(* The beginning of a cleanup.                                               *)
LEMMA CleanupMoves ==
    ASSUME ProcType, NEW p \in Procs, NEW k \in Kinds, NEW i \in BOOLEAN, EnterCleanup(p, k, i),
           Registry(p)
    PROVE  /\ Holds(p, k, "gate") /\ task'[p].intent = i
           /\ flag' = [flag EXCEPT ![p] = flag'[p]] /\ flag'[p] = TRUE
           /\ http' = [http EXCEPT ![p] = http'[p]] /\ http'[p] \in HttpRec
           /\ http'[p].active = http[p].active /\ Registry(p)'
<1>1. /\ task' = [task EXCEPT ![p] = task'[p]]
      /\ task'[p] = [Free EXCEPT !.kind = k, !.pc = "gate", !.intent = i]
  BY DEF ProcType, EnterCleanup
<1>2. Holds(p, k, "gate") /\ task'[p].intent = i
  BY <1>1, FreshTypes DEF TaskRec, Holds, Places
<1>3. http' = [http EXCEPT ![p] = http'[p]] /\ http'[p] = ShutLong(http[p]) /\ http[p] \in HttpRec
  BY DEF ProcType, EnterCleanup
<1>4. http'[p] \in HttpRec /\ http'[p].active = http[p].active /\ http'[p].long = http[p].long
      /\ http[p].long \subseteq http'[p].shut
  BY <1>3 DEF ShutLong, HttpRec
<1>5. flag' = [flag EXCEPT ![p] = flag'[p]] /\ flag'[p] = TRUE
  BY DEF ProcType, EnterCleanup
<1> QED
  BY <1>2, <1>3, <1>4, <1>5 DEF Registry

(* The restored apps.                                                        *)
LEMMA RestoreMoves ==
    ASSUME ProcType, NEW p \in Procs, RestoreApps(p)
    PROVE  /\ wf' = [wf EXCEPT ![p] = wf'[p]] /\ wf'[p] = "on"
           /\ inst' = [inst EXCEPT ![p] = inst'[p]] /\ inst'[p] \in InstRec
           /\ inst'[p].spawn = inst[p].spawn /\ (inst'[p].live => inst'[p].reg)
           /\ inst'[p].orphan = inst[p].orphan /\ inst'[p].cut = inst[p].cut
<1>1. wf' = [wf EXCEPT ![p] = wf'[p]] /\ wf'[p] = "on"
  BY DEF ProcType, RestoreApps
<1>2. PICK on \in BOOLEAN : inst' = [inst EXCEPT ![p] = [inst[p] EXCEPT !.reg = on, !.live = on]]
  BY DEF RestoreApps
<1>3. /\ inst' = [inst EXCEPT ![p] = inst'[p]] /\ inst[p] \in InstRec
      /\ inst'[p] = [inst[p] EXCEPT !.reg = on, !.live = on]
  BY <1>2 DEF ProcType
<1>4. inst'[p] \in InstRec /\ inst'[p].spawn = inst[p].spawn
      /\ inst'[p].orphan = inst[p].orphan /\ inst'[p].cut = inst[p].cut
      /\ inst'[p].live = on /\ inst'[p].reg = on
  BY <1>3 DEF InstRec
<1> QED
  BY <1>1, <1>3, <1>4

(* Startup.                                                                  *)
LEMMA StartLeasesGood ==
    ASSUME Inv, NEW p \in Procs, StartLeases(p)
    PROVE  Good(p)
<1>a. ProcType /\ Local(p) /\ Owned(p) /\ SharedType /\ Silent
  BY DEF Inv, ProcType
<1>c. /\ UNCHANGED <<requested, op, flag, http, inst, wf, obs, waiting, quiet>>
      /\ p \notin up /\ up' = up \cup {p} /\ activity' = activity \cup {p}
  BY DEF StartLeases, proxy
<1>1. Holds(p, "startup", "read")
  BY <1>a, TaskMoves DEF StartLeases, Kinds, Places
<1>2. ~Works(p) /\ obs[p] = "idle" /\ ~flag[p] /\ p \notin waiting
  BY <1>a, <1>c DEF Local, Leased, Controls, SharedType
<1>3. Only(p) /\ Shares(p)
  BY <1>a, <1>c, <1>1, Kept DEF Only, Shares, SharedType, Holds
<1>4. Local(p)'
  BY <1>a, <1>c, <1>1, <1>2 DEF Local, Controls, Gated, Registry, Leased, Works, At, Cleanup, Holds
<1>5. Owned(p)' /\ Hushed(p)
  BY <1>a, <1>c, <1>1, <1>2 DEF Owned, Operating, Hushed, Silent, At, Holds
<1> QED
  BY <1>3, <1>4, <1>5 DEF Good

(* The intent is read, and the lease given back if it is set.                *)
LEMMA StartReadsGood ==
    ASSUME Inv, NEW p \in Procs, StartReads(p)
    PROVE  Good(p)
<1>a. ProcType /\ Local(p) /\ Owned(p) /\ SharedType /\ Silent /\ http[p] \in HttpRec
  BY DEF Inv, ProcType
<1>c. /\ UNCHANGED <<requested, op, up, inst, wf, obs, waiting, quiet>>
      /\ task[p].kind = "startup" /\ task[p].pc = "read"
      /\ activity' = IF requested THEN activity \ {p} ELSE activity
      /\ flag' = [flag EXCEPT ![p] = flag'[p]] /\ flag'[p] = requested
  BY <1>a DEF StartReads, At, ProcType
<1>1. Holds(p, "startup", "check")
  BY <1>a, <1>c, TaskMoves DEF StartReads, Kinds, Places
<1>2. ~Works(p) /\ obs[p] = "idle" /\ p \in activity /\ p \in up
  BY <1>a, <1>c DEF Local, Leased, At, SharedType
<1>3. /\ http' = [http EXCEPT ![p] = http'[p]] /\ http'[p] \in HttpRec
      /\ http'[p].active = http[p].active /\ http'[p].long = {}
  <2>1. http' = [http EXCEPT ![p] = http'[p]] /\ http'[p] = [http[p] EXCEPT !.open = ~requested]
    BY <1>a DEF StartReads, ProcType, HttpRec
  <2>2. http'[p] \in HttpRec /\ http'[p].active = http[p].active /\ http'[p].long = http[p].long
    BY <1>a, <2>1 DEF HttpRec, SharedType
  <2>3. http[p].long = {}
    BY <1>a, <1>2 DEF Works, Local, Registry
  <2> QED
    BY <2>1, <2>2, <2>3
<1>4. Only(p) /\ Shares(p)
  BY <1>a, <1>c, <1>1, <1>3, Kept DEF Only, Shares, SharedType, Holds
<1>5. Registry(p)' /\ Gated(p)' /\ Controls(p)'
  BY <1>a, <1>c, <1>1, <1>2, <1>3 DEF Local, Controls, Gated, Registry, Works, Cleanup, Holds
<1>6. Leased(p)'
  BY <1>a, <1>c, <1>1, <1>2, <1>3 DEF Leased, Works, At, Cleanup, Holds
<1>7. Owned(p)' /\ Hushed(p)
  BY <1>a, <1>c, <1>1, <1>2 DEF Owned, Operating, Hushed, Silent, At, Holds
<1> QED
  BY <1>4, <1>5, <1>6, <1>7 DEF Good, Local

(* The apps are restored unless the process is draining.                     *)
LEMMA StartRestoresGood ==
    ASSUME Inv, NEW p \in Procs, StartRestores(p)
    PROVE  Good(p)
<1>a. ProcType /\ Local(p) /\ Owned(p) /\ SharedType /\ Silent
  BY DEF Inv, ProcType
<1>c. /\ UNCHANGED <<requested, op, activity, up, http, obs, waiting, quiet>>
      /\ task[p].kind = "startup" /\ task[p].pc = "check"
      /\ flag' = [flag EXCEPT ![p] = flag'[p]] /\ (flag'[p] <=> flag[p] \/ requested)
      /\ flag'[p] \in BOOLEAN
  BY <1>a DEF StartRestores, At, ProcType, shared, IsDraining, SharedType
<1>1. Holds(p, "none", "idle") /\ task'[p] = Free
  BY <1>a, TaskMoves DEF StartRestores
<1>2. ~Works(p) /\ p \in up
  BY <1>a, <1>c DEF Local, Leased, Controls, Free
<1>3. /\ inst' = [inst EXCEPT ![p] = inst'[p]] /\ inst'[p] \in InstRec
      /\ wf' = [wf EXCEPT ![p] = wf'[p]] /\ wf'[p] \in {"on", "draining", "gone"}
      /\ inst'[p].spawn = inst[p].spawn /\ (inst'[p].live => inst'[p].reg)
      /\ inst'[p].orphan = inst[p].orphan /\ inst'[p].cut = inst[p].cut
      /\ (inst' # inst \/ wf' # wf) => ~flag[p] /\ ~requested
  <2>1. CASE UNCHANGED <<inst, wf>>
    BY <2>1, <1>a, Kept DEF Local, Gated
  <2>2. CASE ~IsDraining(p) /\ RestoreApps(p)
    BY <2>2, <1>a, RestoreMoves DEF IsDraining
  <2> QED
    BY <2>1, <2>2 DEF StartRestores
<1>4. Only(p) /\ Shares(p)
  BY <1>a, <1>c, <1>1, <1>3, Kept DEF Only, Shares, SharedType, Holds
<1>5. Registry(p)' /\ Gated(p)' /\ Controls(p)'
  BY <1>a, <1>c, <1>1, <1>2, <1>3 DEF Local, Controls, Gated, Registry, Works, Cleanup, Holds
<1>6. Leased(p)'
  <2>1. (inst' # inst \/ wf' # wf) => p \in activity
    BY <1>a, <1>2, <1>3 DEF Local, Leased
  <2>2. Works(p)' => inst' # inst \/ wf' # wf
    BY <1>c, <1>2 DEF Works
  <2>3. p \in up /\ ~flag'[p] => p \in activity
    BY <1>a, <1>c DEF Local, Leased
  <2> QED
    BY <1>c, <1>1, <2>1, <2>2, <2>3 DEF Leased, At, Cleanup, Holds
<1>7. Owned(p)' /\ Hushed(p)
  BY <1>a, <1>c, <1>1, <1>2 DEF Owned, Operating, Hushed, Silent, At, Holds
<1> QED
  BY <1>4, <1>5, <1>6, <1>7 DEF Good, Local

(* Commands that start work.                                                 *)
LEMMA DeployGood ==
    ASSUME Inv, NEW p \in Procs, Deploy(p)
    PROVE  Good(p)
<1>a. ProcType /\ Local(p) /\ Owned(p) /\ SharedType /\ Silent
  BY DEF Inv, ProcType
<1>c. /\ UNCHANGED <<requested, op, activity, up, http, inst, wf, obs, waiting, quiet>>
      /\ task[p] = Free /\ p \in up
      /\ flag' = [flag EXCEPT ![p] = flag'[p]] /\ (flag'[p] <=> flag[p] \/ requested)
      /\ flag'[p] \in BOOLEAN
  BY <1>a DEF Deploy, Unlocked, ProcType, shared, proxy, IsDraining, SharedType
<1>d. task[p].kind = "none" /\ task[p].pc = "idle"
  BY <1>c DEF Free
<1>1. \/ task' = task
      \/ ~flag[p] /\ Holds(p, "deploy", "work")
  <2>1. CASE IsDraining(p)
    BY <2>1 DEF Deploy
  <2>2. CASE ~IsDraining(p)
    BY <2>2, <1>a, TaskMoves DEF Deploy, IsDraining, Kinds, Places
  <2> QED
    BY <2>1, <2>2
<1>2. Only(p) /\ Shares(p)
  BY <1>a, <1>c, <1>1, Kept DEF Only, Shares, SharedType, Holds
<1>3. Registry(p)' /\ Gated(p)' /\ Controls(p)'
  BY <1>a, <1>c, <1>d, <1>1 DEF Local, Controls, Gated, Registry, Works, Cleanup, Holds
<1>4. Leased(p)'
  BY <1>a, <1>c, <1>d, <1>1 DEF Local, Leased, Works, At, Cleanup, Holds
<1>5. Owned(p)' /\ Hushed(p)
  BY <1>a, <1>c, <1>d, <1>1 DEF Owned, Operating, Hushed, Silent, At, Holds
<1> QED
  BY <1>2, <1>3, <1>4, <1>5 DEF Good, Local

(* Their work is done under the lease.                                       *)
LEMMA DeployWorksGood ==
    ASSUME Inv, NEW p \in Procs, DeployWorks(p)
    PROVE  Good(p)
<1>a. ProcType /\ Local(p) /\ Owned(p) /\ SharedType /\ Silent
  BY DEF Inv, ProcType
<1>c. /\ UNCHANGED <<requested, op, activity, up, flag, http, obs, waiting, quiet>>
      /\ task[p].kind = "deploy" /\ task[p].pc = "work"
  BY <1>a DEF DeployWorks, At, shared
<1>1. Holds(p, "none", "idle") /\ task'[p] = Free
  BY <1>a, TaskMoves DEF DeployWorks
<1>2. p \in activity /\ p \in up
  BY <1>a, <1>c DEF Local, Leased, SharedType
<1>3. /\ inst' = [inst EXCEPT ![p] = inst'[p]] /\ inst'[p] \in InstRec
      /\ wf' = [wf EXCEPT ![p] = wf'[p]] /\ wf'[p] \in {"on", "draining", "gone"}
      /\ inst'[p].live \/ inst'[p].spawn \in {"attach", "replace"} => inst'[p].reg
      /\ inst'[p].orphan \/ inst'[p].spawn = "lost" => inst'[p].cut
  <2>1. CASE UNCHANGED <<inst, wf>>
    BY <2>1, <1>a, Kept DEF Local, Gated
  <2>2. ASSUME NEW on \in BOOLEAN,
               inst' = [inst EXCEPT ![p] =
                           [Remove(inst[p]) EXCEPT !.reg = on, !.live = on,
                               !.cut = inst[p].cut \/ inst[p].spawn = "attach"]],
               wf' = [wf EXCEPT ![p] = IF on THEN "on" ELSE wf[p]]
        PROVE  /\ inst' = [inst EXCEPT ![p] = inst'[p]] /\ inst'[p] \in InstRec
               /\ wf' = [wf EXCEPT ![p] = wf'[p]] /\ wf'[p] \in {"on", "draining", "gone"}
               /\ inst'[p].live \/ inst'[p].spawn \in {"attach", "replace"} => inst'[p].reg
               /\ inst'[p].orphan \/ inst'[p].spawn = "lost" => inst'[p].cut
    <3> DEFINE c == inst[p].cut \/ inst[p].spawn = "attach"
               i == Remove(inst[p])
    <3>1. /\ inst[p] \in InstRec /\ i \in InstRec /\ c \in BOOLEAN
          /\ i.spawn = Astray(inst[p].spawn) /\ i.orphan = inst[p].orphan
      BY <1>a, RemoveMoves DEF ProcType, InstRec
    <3>2. inst' = [inst EXCEPT ![p] = inst'[p]] /\ inst'[p] = [i EXCEPT !.reg = on, !.live = on, !.cut = c]
      BY <1>a, <2>2 DEF ProcType
    <3>3. (inst[p].orphan \/ inst[p].spawn = "lost" => inst[p].cut) /\ inst[p].cut \in BOOLEAN
      BY <1>a, <3>1 DEF Local, Gated, InstRec
    <3>4. /\ Astray(inst[p].spawn) \notin {"attach", "replace"}
          /\ Astray(inst[p].spawn) = "lost" \/ inst[p].orphan => c
      BY <3>3 DEF Astray
    <3> HIDE DEF c, i
    <3>5. /\ inst'[p] \in InstRec /\ inst'[p].reg = on /\ inst'[p].live = on /\ inst'[p].cut = c
          /\ inst'[p].spawn = i.spawn /\ inst'[p].orphan = i.orphan
      BY <3>1, <3>2 DEF InstRec
    <3>6. wf' = [wf EXCEPT ![p] = wf'[p]] /\ wf'[p] \in {"on", "draining", "gone"}
      BY <1>a, <2>2 DEF ProcType
    <3> QED
      BY <3>1, <3>2, <3>4, <3>5, <3>6
  <2> QED
    BY <2>1, <2>2 DEF DeployWorks
<1>4. Only(p) /\ Shares(p)
  BY <1>a, <1>c, <1>1, <1>3, Kept DEF Only, Shares, SharedType, Holds
<1>5. Registry(p)' /\ Gated(p)' /\ Controls(p)'
  BY <1>a, <1>c, <1>1, <1>2, <1>3 DEF Local, Controls, Gated, Registry, Cleanup, Holds
<1>6. Leased(p)'
  BY <1>a, <1>c, <1>1, <1>2 DEF Local, Leased, Works, At, Cleanup, Holds
<1>7. Owned(p)' /\ Hushed(p)
  BY <1>a, <1>c, <1>1, <1>2 DEF Owned, Operating, Hushed, Silent, At, Holds
<1> QED
  BY <1>4, <1>5, <1>6, <1>7 DEF Good, Local
-----------------------------------------------------------------------------
(* The cleanup takes the spawn gate, or gives up on it.                      *)
LEMMA GateGood ==
    ASSUME Inv, NEW p \in Procs, GatePassed(p)
    PROVE  Good(p)
<1>a. ProcType /\ Local(p) /\ Owned(p) /\ SharedType /\ Silent /\ task[p] \in TaskRec
  BY DEF Inv, ProcType
<1>c. /\ UNCHANGED <<requested, op, activity, up, flag, http, inst, obs, waiting, quiet>>
      /\ Cleanup(p) /\ task[p].pc = "gate"
  BY <1>a DEF GatePassed, shared
<1>1. Holds(p, task[p].kind, "wait") /\ task'[p].intent = task[p].intent
      /\ (task'[p].settled => inst[p].spawn = "none")
  <2>1. task' = [task EXCEPT ![p] = task'[p]]
    BY <1>a DEF GatePassed, ProcType, TaskRec
  <2>2. task'[p] = [task[p] EXCEPT !.pc = "wait", !.settled = (inst[p].spawn = "none")]
    BY <1>a DEF GatePassed, ProcType, TaskRec
  <2>3. task'[p] \in TaskRec /\ task'[p].kind = task[p].kind /\ task'[p].pc = "wait"
        /\ task'[p].intent = task[p].intent
    BY <1>a, <2>2 DEF TaskRec, Places
  <2>4. task'[p].settled => inst[p].spawn = "none"
    BY <1>a, <2>2 DEF TaskRec
  <2> QED
    BY <2>1, <2>3, <2>4 DEF Holds
<1>2. /\ wf' = [wf EXCEPT ![p] = wf'[p]] /\ wf'[p] \in {"on", "draining", "gone"}
      /\ wf'[p] # "gone" => wf[p] # "gone"
  BY <1>a DEF GatePassed, ProcType
<1>3. Only(p) /\ Shares(p)
  BY <1>a, <1>c, <1>1, <1>2, Kept DEF Only, Shares, SharedType, Holds
<1>4. Registry(p)' /\ Gated(p)' /\ Controls(p)'
  BY <1>a, <1>c, <1>1 DEF Local, Controls, Gated, Registry, Cleanup, Holds, Free
<1>5. Leased(p)'
  BY <1>a, <1>c, <1>1, <1>2 DEF Local, Leased, Works, At, Cleanup, Holds
<1>6. Owned(p)' /\ Hushed(p)
  BY <1>a, <1>c, <1>1 DEF Owned, Operating, Hushed, Silent, At, Holds, Cleanup
<1> QED
  BY <1>3, <1>4, <1>5, <1>6 DEF Good, Local

(* It stops the requests and, under the gate only, the instances.            *)
LEMMA StopGood ==
    ASSUME Inv, NEW p \in Procs, Stop(p)
    PROVE  Good(p)
<1>a. ProcType /\ Local(p) /\ Owned(p) /\ SharedType /\ Silent
      /\ task[p] \in TaskRec /\ inst[p] \in InstRec /\ http[p] \in HttpRec
  BY DEF Inv, ProcType
<1>c. /\ UNCHANGED <<requested, op, activity, up, flag, wf, obs, waiting, quiet>>
      /\ Cleanup(p) /\ task[p].pc = "wait"
  BY <1>a DEF Stop, shared
<1>1. Holds(p, task[p].kind, "report") /\ task'[p].intent = task[p].intent
      /\ task'[p].settled = task[p].settled /\ (~task'[p].failed => task[p].settled)
  <2>1. PICK b \in BOOLEAN : /\ task' = [task EXCEPT ![p].pc = "report", ![p].failed = b]
                             /\ ~b => task[p].settled
    <3>1. task[p].settled \in BOOLEAN
      BY <1>a DEF TaskRec
    <3> QED
      BY <3>1 DEF Stop
  <2>2. /\ task' = [task EXCEPT ![p] = task'[p]]
        /\ task'[p] = [task[p] EXCEPT !.pc = "report", !.failed = b]
    BY <1>a, <2>1 DEF ProcType, TaskRec
  <2>3. task'[p] \in TaskRec
    BY <1>a, <2>2 DEF TaskRec, Places
  <2>4. /\ task'[p].kind = task[p].kind /\ task'[p].pc = "report" /\ task'[p].failed = b
        /\ task'[p].intent = task[p].intent /\ task'[p].settled = task[p].settled
    BY <1>a, <2>2 DEF TaskRec
  <2> QED
    BY <2>1, <2>2, <2>3, <2>4 DEF Holds
<1>2. /\ inst' = [inst EXCEPT ![p] = inst'[p]] /\ inst'[p] \in InstRec
      /\ inst'[p].reg => inst[p].reg
      /\ inst'[p].spawn = inst[p].spawn
      /\ inst'[p].live \/ inst'[p].spawn \in {"attach", "replace"} => inst'[p].reg
      /\ inst'[p].orphan \/ inst'[p].spawn = "lost" => inst'[p].cut
  <2>1. CASE inst' = inst
    BY <1>a, <2>1, Kept DEF Local, Gated
  <2>2. CASE task[p].settled /\ inst' = [inst EXCEPT ![p] = Remove(inst[p])]
    <3>1. inst' = [inst EXCEPT ![p] = inst'[p]] /\ inst'[p] = Remove(inst[p])
      BY <1>a, <2>2 DEF ProcType
    <3>2. inst[p].spawn = "none" /\ Astray(inst[p].spawn) = "none"
      BY <1>a, <1>c, <2>2 DEF Local, Gated, Astray
    <3> QED
      BY <1>a, <3>1, <3>2, RemoveMoves DEF Local, Gated
  <2> QED
    BY <2>1, <2>2 DEF Stop
<1>3. /\ http' = [http EXCEPT ![p] = http'[p]] /\ http'[p] \in HttpRec
      /\ http'[p].active = http[p].active /\ Registry(p)'
  <2>1. /\ http' = [http EXCEPT ![p] = http'[p]]
        /\ http'[p] = http[p] \/ http'[p] = ForceDrain(http[p])
    BY <1>a DEF Stop, ProcType
  <2>2. CASE http'[p] = http[p]
    BY <1>a, <2>1, <2>2 DEF Local, Registry
  <2>3. CASE http'[p] = ForceDrain(http[p])
    <3>1. http'[p] \in HttpRec /\ http'[p].active = http[p].active /\ http'[p].long = http[p].long
          /\ http'[p].shut = http[p].shut \cup http[p].active
      BY <1>a, <2>3 DEF ForceDrain, HttpRec
    <3> QED
      BY <1>a, <2>1, <3>1 DEF Local, Registry
  <2> QED
    BY <2>1, <2>2, <2>3
<1>4. Only(p) /\ Shares(p)
  BY <1>a, <1>c, <1>1, <1>2, <1>3, Kept DEF Only, Shares, SharedType, Holds
<1>5. Gated(p)' /\ Controls(p)'
  BY <1>a, <1>c, <1>1, <1>2 DEF Local, Controls, Gated, Cleanup, Holds, Free
<1>6. Leased(p)'
  BY <1>a, <1>c, <1>1, <1>2, <1>3 DEF Local, Leased, Works, At, Cleanup, Holds
<1>7. Owned(p)' /\ Hushed(p)
  BY <1>a, <1>c, <1>1 DEF Owned, Operating, Hushed, Silent, At, Holds, Cleanup
<1> QED
  BY <1>3, <1>4, <1>5, <1>6, <1>7 DEF Good, Local

(* A complete report gives the lease back: nothing is left in the process,   *)
(* and nothing can come, for the spawn gate was passed with nobody behind it.*)
LEMMA ReportGood ==
    ASSUME Inv, NEW p \in Procs, Report(p)
    PROVE  Good(p)
<1>a. ProcType /\ Local(p) /\ Owned(p) /\ SharedType /\ Silent /\ task[p] \in TaskRec
  BY DEF Inv, ProcType
<1>c. /\ UNCHANGED <<requested, up, flag, http, inst, wf, waiting, quiet>>
      /\ Cleanup(p) /\ task[p].pc = "report"
      /\ activity' = IF Clean(p) THEN activity \ {p} ELSE activity
  BY <1>a DEF Report, proxy
<1>b. flag[p] /\ p \in up
  BY <1>a, <1>c DEF Local, Leased, Controls, Cleanup, Free
<1>1. \/ /\ Clean(p) /\ op' = op /\ obs' = obs
         /\ task'[p].intent = task[p].intent
         /\ \/ task[p].kind = "drain" /\ Holds(p, task[p].kind, "exclusive")
            \/ task[p].kind \in {"resume", "reopen"} /\ Holds(p, task[p].kind, "restore")
      \/ /\ Holds(p, "none", "idle") /\ task'[p] = Free
         /\ obs' = [obs EXCEPT ![p] = obs'[p]]
         /\ obs'[p] \in {"idle", "raise", "close", "check", "lock", "hold"}
         /\ IF task[p].kind = "observer" THEN op' = op ELSE ReleaseOp(p)
  <2>1. CASE Clean(p) /\ task[p].kind = "drain" /\ Leave(p, "exclusive") /\ UNCHANGED <<op, obs>>
    BY <1>a, <2>1, TaskMoves DEF Places
  <2>2. CASE Clean(p) /\ task[p].kind \in {"resume", "reopen"} /\ Leave(p, "restore")
             /\ UNCHANGED <<op, obs>>
    BY <1>a, <2>2, TaskMoves DEF Places
  <2>3. CASE Finish(p) /\ IF task[p].kind = "observer" THEN UNCHANGED op ELSE ReleaseOp(p)
    BY <1>a, <2>3, FinishMoves
  <2> QED
    BY <2>1, <2>2, <2>3 DEF Report
<1>2. Clean(p) => ~Works(p)
  BY <1>a, <1>c DEF Clean, Works, Local, Gated
<1>3. op' # op => op = p
  BY <1>1 DEF ReleaseOp
<1>4. op' \in {op, None}
  BY <1>1 DEF ReleaseOp
<1>5. Only(p)
  BY <1>a, <1>c, <1>1, Kept DEF Only, Holds
<1>6. Shares(p)
  BY <1>a, <1>c, <1>3, <1>4 DEF Shares, SharedType
<1>7. Gated(p)' /\ Controls(p)' /\ Registry(p)'
  BY <1>a, <1>b, <1>c, <1>1 DEF Local, Controls, Gated, Registry, Cleanup, Holds
<1>8. Works(p)' <=> Works(p)
  BY <1>c DEF Works
<1>9. Leased(p)'
  <2>1. CASE Clean(p)
    BY <1>b, <1>c, <1>1, <1>2, <1>8, <2>1 DEF Leased, At, Cleanup, Holds
  <2>2. CASE ~Clean(p)
    BY <1>a, <1>b, <1>c, <1>1, <1>8, <2>2 DEF Local, Leased, At, Cleanup, Holds
  <2> QED
    BY <2>1, <2>2
<1>10. Owned(p)'
  <2>1. CASE task'[p] = Free
    <3>1. p \in waiting => task[p].kind = "observer"
      BY <1>a, <1>c DEF Owned, Operating, Cleanup
    <3>2. p \in waiting => op' = op
      BY <1>a, <1>1, <3>1 DEF Owned, Operating, Holds
    <3> QED
      BY <1>a, <1>c, <2>1, <3>2 DEF Owned, Operating, Free
  <2>2. CASE task'[p] # Free
    BY <1>a, <1>c, <1>1, <2>2 DEF Owned, Operating, Holds
  <2> QED
    BY <2>1, <2>2
<1>11. Hushed(p)
  BY <1>a, <1>c DEF Hushed, Silent, At, Cleanup
<1> QED
  BY <1>5, <1>6, <1>7, <1>9, <1>10, <1>11 DEF Good, Local
-----------------------------------------------------------------------------
(* The drain command announces its intent under the operation lock.          *)
LEMMA PrepareGood ==
    ASSUME Inv, NEW p \in Procs, PrepareServerDrain(p)
    PROVE  Good(p)
<1>a. ProcType /\ Local(p) /\ Owned(p) /\ SharedType /\ Silent /\ http[p] \in HttpRec
  BY DEF Inv, ProcType
<1>c. /\ UNCHANGED <<activity, up, inst, wf, task, obs, quiet>>
      /\ op = None /\ op' = p /\ requested' = TRUE /\ waiting' = waiting \cup {p}
      /\ p \in up /\ task[p].kind # "startup"
      /\ flag' = [flag EXCEPT ![p] = flag'[p]] /\ flag'[p] = TRUE
  BY <1>a DEF PrepareServerDrain, Serving, ProcType
<1>1. op # p
  BY <1>c, NoneAssumption
<1>2. ~Operating(p)
  BY <1>a, <1>1 DEF Owned
<1>3. /\ http' = [http EXCEPT ![p] = http'[p]] /\ http'[p] \in HttpRec
      /\ http'[p].active = http[p].active /\ Registry(p)'
  <2>1. http' = [http EXCEPT ![p] = http'[p]] /\ http'[p] = ShutLong(http[p])
    BY <1>a DEF ProcType, PrepareServerDrain
  <2>2. http'[p] \in HttpRec /\ http'[p].active = http[p].active /\ http'[p].long = http[p].long
        /\ http[p].long \subseteq http'[p].shut
    BY <1>a, <2>1 DEF ShutLong, HttpRec
  <2> QED
    BY <1>a, <2>1, <2>2 DEF Local, Registry
<1>4. Only(p) /\ Shares(p)
  BY <1>a, <1>c, <1>3, Kept DEF Only, Shares, SharedType
<1>5. Gated(p)' /\ Controls(p)'
  BY <1>a, <1>c DEF Local, Controls, Gated, Cleanup
<1>6. Leased(p)'
  BY <1>a, <1>c, <1>2, <1>3 DEF Local, Leased, Works, At, Cleanup, Controls, Operating
<1>7. Owned(p)'
  BY <1>a, <1>c, <1>2 DEF Owned, Operating, Local, Controls
<1>8. Hushed(p)
  BY <1>a, <1>c DEF Hushed, Silent, At
<1> QED
  BY <1>3, <1>4, <1>5, <1>6, <1>7, <1>8 DEF Good, Local

(* A cleanup of kind k begins.                                               *)
LEMMA BeginGood ==
    ASSUME Inv, NEW p \in Procs, NEW k \in {"drain", "resume", "observer", "reopen"},
           NEW i \in BOOLEAN, EnterCleanup(p, k, i), task[p] = Free, p \in up,
           UNCHANGED <<requested, activity, up, inst, wf, quiet>>,
           obs' = [obs EXCEPT ![p] = obs'[p]], obs'[p] \in {"idle", "raise", "close", "check", "lock", "hold"},
           waiting' = IF k = "drain" THEN waiting \ {p} ELSE waiting,
           k = "drain" => p \in waiting /\ op' = op,
           k = "observer" => op' = op,
           k \in {"resume", "reopen"} => op = None /\ op' = p /\ (~i => ~requested)
    PROVE  Good(p)
<1>a. ProcType /\ Local(p) /\ Owned(p) /\ SharedType /\ Silent
  BY DEF Inv, ProcType
<1>b. k \in Kinds /\ Registry(p)
  BY <1>a DEF Kinds, Local
<1>1. /\ Holds(p, k, "gate") /\ task'[p].intent = i
      /\ flag' = [flag EXCEPT ![p] = flag'[p]] /\ flag'[p] = TRUE
      /\ http' = [http EXCEPT ![p] = http'[p]] /\ http'[p] \in HttpRec
      /\ http'[p].active = http[p].active /\ Registry(p)'
  BY <1>a, <1>b, CleanupMoves
<1>2. Only(p)
  BY <1>a, <1>1, Kept DEF Only, Holds
<1>3. Shares(p)
  BY <1>a DEF Shares, SharedType
<1>4. Gated(p)' /\ Controls(p)'
  BY <1>a, <1>1 DEF Local, Controls, Gated, Cleanup, Holds
<1>5. Leased(p)'
  BY <1>a, <1>1 DEF Local, Leased, Works, At, Cleanup, Holds
<1>6. Owned(p)'
  BY <1>a, <1>1, NoneAssumption DEF Owned, Operating, Holds
<1>7. Hushed(p)
  BY <1>a DEF Hushed, Silent, At, Free
<1> QED
  BY <1>1, <1>2, <1>3, <1>4, <1>5, <1>6, <1>7 DEF Good, Local

(* A prepared drain gets the management lock, or its deadline passes.        *)
LEMMA DrainLocksGood ==
    ASSUME Inv, NEW p \in Procs, DrainLocks(p)
    PROVE  Good(p)
<1>1. PICK i \in BOOLEAN : EnterCleanup(p, "drain", i)
  BY DEF DrainLocks
<1>2. /\ task[p] = Free /\ p \in up /\ p \in waiting /\ waiting' = waiting \ {p}
      /\ UNCHANGED <<requested, op, activity, up, inst, wf, quiet, obs>>
  BY DEF DrainLocks, Unlocked, shared
<1>3. obs' = [obs EXCEPT ![p] = obs'[p]] /\ obs'[p] \in {"idle", "raise", "close", "check", "lock", "hold"}
  BY <1>2, Kept DEF Inv
<1> QED
  BY <1>1, <1>2, <1>3, BeginGood

(* The deadline of a prepared drain passes.                                  *)
LEMMA DrainGivesUpGood ==
    ASSUME Inv, NEW p \in Procs, DrainGivesUp(p)
    PROVE  Good(p)
<1>a. ProcType /\ Local(p) /\ Owned(p) /\ SharedType /\ Silent /\ http[p] \in HttpRec
  BY DEF Inv, ProcType
<1>c. /\ UNCHANGED <<requested, activity, up, flag, inst, wf, task, obs, quiet>>
      /\ p \in waiting /\ waiting' = waiting \ {p}
  BY <1>a DEF DrainGivesUp
<1>1. ~Operating(p) /\ op = p /\ op' = None
  BY <1>a, <1>c DEF Owned, DrainGivesUp, ReleaseOp
<1>2. /\ http' = [http EXCEPT ![p] = http'[p]] /\ http'[p] \in HttpRec
      /\ http'[p].active = http[p].active /\ Registry(p)'
  <2>1. http' = [http EXCEPT ![p] = http'[p]] /\ http'[p] = ForceDrain(http[p])
    BY <1>a DEF ProcType, DrainGivesUp
  <2>2. http'[p] \in HttpRec /\ http'[p].active = http[p].active /\ http'[p].long = http[p].long
        /\ http'[p].shut = http[p].shut \cup http[p].active
    BY <1>a, <2>1 DEF ForceDrain, HttpRec
  <2> QED
    BY <1>a, <2>1, <2>2 DEF Local, Registry
<1>3. Only(p) /\ Shares(p)
  BY <1>a, <1>c, <1>1, <1>2, Kept DEF Only, Shares, SharedType
<1>4. Gated(p)' /\ Controls(p)'
  BY <1>a, <1>c DEF Local, Controls, Gated, Cleanup
<1>5. Leased(p)'
  BY <1>a, <1>c, <1>1, <1>2 DEF Local, Leased, Works, At, Cleanup, Controls, Operating
<1>6. Owned(p)' /\ Hushed(p)
  BY <1>a, <1>c, <1>1 DEF Owned, Operating, Hushed, Silent, At, Local, Controls
<1> QED
  BY <1>2, <1>3, <1>4, <1>5, <1>6 DEF Good, Local

(* A drain is reported: completed only when nobody holds the lease.          *)
LEMMA DrainReportsGood ==
    ASSUME Inv, NEW p \in Procs, DrainReports(p)
    PROVE  Good(p)
<1>a. ProcType /\ Local(p) /\ Owned(p) /\ SharedType /\ Silent
  BY DEF Inv, ProcType
<1>c. /\ UNCHANGED <<requested, activity, up, flag, http, inst, wf, obs, waiting>>
      /\ task[p].kind = "drain" /\ task[p].pc = "exclusive"
      /\ quiet' = quiet \/ (activity = {} /\ quiet' = TRUE)
  BY <1>a DEF DrainReports, At, proxy, Exclusive
<1>1. Holds(p, "none", "idle") /\ task'[p] = Free
  BY <1>a, TaskMoves DEF DrainReports
<1>2. op = p /\ op' = None /\ requested /\ p \notin waiting
  BY <1>a, <1>c DEF Owned, Operating, DrainReports, ReleaseOp
<1>3. p \in up /\ flag[p] /\ p \notin activity
  BY <1>a, <1>c DEF Local, Controls, Leased, Cleanup, Free
<1>4. Only(p)
  BY <1>a, <1>c, <1>1, Kept DEF Only, Holds
<1>5. Shares(p)
  BY <1>a, <1>c, <1>2 DEF Shares, SharedType
<1>6. Registry(p)' /\ Gated(p)' /\ Controls(p)'
  BY <1>a, <1>c, <1>1, <1>3 DEF Local, Controls, Gated, Registry, Cleanup, Holds
<1>7. Leased(p)'
  BY <1>a, <1>c, <1>1, <1>3 DEF Local, Leased, Works, At, Cleanup, Holds
<1>8. Owned(p)'
  BY <1>c, <1>1, <1>2 DEF Owned, Operating, Holds
<1>9. Hushed(p)
  BY <1>c, <1>2, <1>3 DEF Hushed
<1> QED
  BY <1>4, <1>5, <1>6, <1>7, <1>8, <1>9 DEF Good, Local
-----------------------------------------------------------------------------
(* The resume command begins with a cleanup of its own.                      *)
LEMMA ResumeGood ==
    ASSUME Inv, NEW p \in Procs, ResumeServer(p)
    PROVE  Good(p)
<1>a. ProcType /\ Local(p) /\ Owned(p) /\ SharedType /\ Silent
  BY DEF Inv, ProcType
<1>b. /\ task[p] = Free /\ p \in up
      /\ UNCHANGED <<requested, activity, up, inst, wf, quiet, obs, waiting>>
  BY DEF ResumeServer, Unlocked
<1>1. CASE UNCHANGED <<op, task, flag, http>>
  <2>1. Only(p) /\ Shares(p)
    BY <1>a, <1>b, <1>1, Kept DEF Only, Shares, SharedType
  <2>2. Local(p)'
    BY <1>a, <1>b, <1>1 DEF Local, Controls, Gated, Registry, Leased, Works, At, Cleanup
  <2>3. Owned(p)' /\ Hushed(p)
    BY <1>a, <1>b, <1>1 DEF Owned, Operating, Hushed, Silent, At
  <2> QED
    BY <2>1, <2>2, <2>3 DEF Good
<1>2. CASE op = None /\ op' = p /\ EnterCleanup(p, "resume", requested)
  <2>1. PICK i \in BOOLEAN : EnterCleanup(p, "resume", i) /\ (~i => ~requested)
    BY <1>a, <1>2 DEF SharedType
  <2>2. obs' = [obs EXCEPT ![p] = obs'[p]] /\ obs'[p] \in {"idle", "raise", "close", "check", "lock", "hold"}
    BY <1>a, <1>b, Kept
  <2> QED
    BY <1>b, <1>2, <2>1, <2>2, BeginGood
<1> QED
  BY <1>1, <1>2 DEF ResumeServer

(* The restore, with the lease of the process.                               *)
LEMMA RestoreGood ==
    ASSUME Inv, NEW p \in Procs, Restore(p)
    PROVE  Good(p)
<1>a. ProcType /\ Local(p) /\ Owned(p) /\ SharedType /\ Silent /\ task[p] \in TaskRec
  BY DEF Inv, ProcType
<1>b. /\ UNCHANGED <<requested, up, waiting>> /\ task[p].pc = "restore"
      /\ task[p].kind \in {"resume", "reopen"}
  BY <1>a DEF Restore, Local, Controls
<1>c. op = p /\ p \notin waiting /\ p \in up /\ flag[p] /\ ~Works(p)
  BY <1>a, <1>b DEF Owned, Operating, Local, Controls, Leased, Cleanup, Free
<1>1. CASE /\ Finish(p) /\ ReleaseOp(p)
           /\ UNCHANGED <<activity, inst, wf, quiet, faults, flag, http>>
  <2>1. /\ Holds(p, "none", "idle") /\ task'[p] = Free
        /\ obs' = [obs EXCEPT ![p] = obs'[p]]
        /\ obs'[p] \in {"idle", "raise", "close", "check", "lock", "hold"}
    BY <1>a, <1>1, FinishMoves
  <2>2. op' = None
    BY <1>1, <1>c DEF ReleaseOp
  <2>3. Only(p)
    BY <1>a, <1>1, <2>1, Kept DEF Only, Holds
  <2>4. Shares(p)
    BY <1>a, <1>b, <1>c, <1>1, <2>2 DEF Shares, SharedType
  <2>5. Registry(p)' /\ Gated(p)' /\ Controls(p)'
    BY <1>a, <1>b, <1>c, <1>1, <2>1 DEF Local, Controls, Gated, Registry, Cleanup, Holds
  <2>6. Leased(p)'
    BY <1>a, <1>b, <1>c, <1>1, <2>1 DEF Local, Leased, Works, At, Cleanup, Holds
  <2>7. Owned(p)' /\ Hushed(p)
    BY <1>a, <1>b, <1>c, <1>1, <2>1 DEF Owned, Operating, Holds, Hushed, Silent, At
  <2> QED
    BY <2>3, <2>4, <2>5, <2>6, <2>7 DEF Good, Local
<1>2. CASE /\ activity' = activity \cup {p} /\ quiet' = (quiet /\ ~task[p].intent)
           /\ RestoreApps(p) /\ UNCHANGED <<op, obs>>
           /\ \/ Goto(p, "open") /\ UNCHANGED <<faults, flag, http>>
              \/ EnterCleanup(p, "undo", FALSE)
  <2>1. /\ wf' = [wf EXCEPT ![p] = wf'[p]] /\ wf'[p] = "on"
        /\ inst' = [inst EXCEPT ![p] = inst'[p]] /\ inst'[p] \in InstRec
        /\ inst'[p].spawn = inst[p].spawn /\ (inst'[p].live => inst'[p].reg)
        /\ inst'[p].orphan = inst[p].orphan /\ inst'[p].cut = inst[p].cut
    BY <1>a, <1>2, RestoreMoves
  <2>2. ~quiet'
    BY <1>a, <1>b, <1>2 DEF Owned, Silent
  <2>3. inst[p].spawn = "none"
    BY <1>c DEF Works
  <2>4. /\ \/ Holds(p, task[p].kind, "open") /\ task'[p].intent = task[p].intent
           \/ Holds(p, "undo", "gate")
        /\ flag' = [flag EXCEPT ![p] = flag'[p]] /\ flag'[p] = TRUE
        /\ http' = [http EXCEPT ![p] = http'[p]] /\ http'[p] \in HttpRec
        /\ http'[p].active = http[p].active /\ Registry(p)'
    <3>1. CASE Goto(p, "open") /\ UNCHANGED <<faults, flag, http>>
      <4>1. Holds(p, task[p].kind, "open") /\ task'[p].intent = task[p].intent
        BY <1>a, <3>1, TaskMoves DEF Places
      <4>2. flag'[p] = TRUE
        BY <1>a, <1>c, <3>1 DEF ProcType
      <4> QED
        BY <1>a, <3>1, <4>1, <4>2, Kept DEF Local, Registry
    <3>2. CASE EnterCleanup(p, "undo", FALSE)
      <4>1. PICK i \in BOOLEAN : EnterCleanup(p, "undo", i)
        BY <3>2
      <4>2. "undo" \in Kinds /\ Registry(p)
        BY <1>a DEF Kinds, Local
      <4> QED
        BY ZenonT(40), <1>a, <4>1, <4>2, CleanupMoves
    <3> QED
      BY <1>2, <3>1, <3>2
  <2>5. Only(p)
    BY <1>a, <1>2, <2>1, <2>4, Kept DEF Only, Holds
  <2>6. Shares(p)
    BY <1>a, <1>b, <1>c, <1>2, <2>2 DEF Shares, SharedType
  <2>7. Gated(p)' /\ Controls(p)'
    BY <1>a, <1>c, <1>b, <2>1, <2>3, <2>4 DEF Local, Controls, Gated, Cleanup, Holds
  <2>8. Leased(p)'
    BY <1>2, <1>b, <2>1, <2>4 DEF Leased, At, Cleanup, Holds
  <2>9. Owned(p)' /\ Hushed(p)
    BY <1>a, <1>b, <1>c, <1>2, <2>2, <2>4 DEF Owned, Operating, Holds, Hushed
  <2> QED
    BY <2>4, <2>5, <2>6, <2>7, <2>8, <2>9 DEF Good, Local
<1> QED
  BY <1>1, <1>2 DEF Restore

(* Admission reopens and the intent is cleared, or the restored runtime is   *)
(* stopped again.                                                            *)
LEMMA ReopenGood ==
    ASSUME Inv, NEW p \in Procs, Reopen(p)
    PROVE  Good(p)
<1>a. ProcType /\ Local(p) /\ Owned(p) /\ SharedType /\ Silent /\ http[p] \in HttpRec
      /\ task[p] \in TaskRec
  BY DEF Inv, ProcType
<1>b. /\ UNCHANGED <<op, activity, up, inst, wf, obs, waiting, quiet>>
      /\ task[p].pc = "open" /\ task[p].kind \in {"resume", "reopen"}
  BY <1>a DEF Reopen, Local, Controls
<1>c. op = p /\ p \notin waiting /\ p \in up /\ flag[p] /\ ~quiet
  BY <1>a, <1>b DEF Owned, Operating, Local, Controls, Leased, Cleanup, Free
<1>1. CASE /\ http[p].active = {} /\ http' = [http EXCEPT ![p].open = TRUE]
           /\ requested' = (requested /\ ~task[p].intent) /\ Goto(p, "lower") /\ UNCHANGED flag
  <2>1. Holds(p, task[p].kind, "lower") /\ task'[p].intent = task[p].intent
    BY <1>a, <1>1, TaskMoves DEF Places
  <2>2. /\ http' = [http EXCEPT ![p] = http'[p]] /\ http'[p] \in HttpRec /\ http'[p].open
        /\ http'[p].active = http[p].active /\ http'[p].long = http[p].long
    <3>1. http' = [http EXCEPT ![p] = http'[p]] /\ http'[p] = [http[p] EXCEPT !.open = TRUE]
      BY <1>a, <1>1 DEF ProcType, HttpRec
    <3> QED
      BY <1>a, <3>1 DEF HttpRec
  <2>3. requested' \in BOOLEAN /\ (requested' => requested /\ ~task[p].intent)
    BY <1>a, <1>1 DEF SharedType, TaskRec
  <2>4. Only(p)
    BY <1>a, <1>b, <1>1, <2>1, <2>2, Kept DEF Only, Holds
  <2>5. Shares(p)
    BY <1>a, <1>b, <1>c, <2>3 DEF Shares, SharedType
  <2>6. Registry(p)' /\ Gated(p)' /\ Controls(p)'
    BY <1>a, <1>b, <1>c, <1>1, <2>1, <2>2 DEF Local, Controls, Gated, Registry, Cleanup, Holds
  <2>7. Leased(p)'
    BY <1>a, <1>b, <1>c, <1>1, <2>1, <2>2 DEF Local, Leased, Works, At, Cleanup, Holds
  <2>8. Owned(p)' /\ Hushed(p)
    BY <1>a, <1>b, <1>c, <2>1, <2>3 DEF Owned, Operating, Holds, Hushed
  <2> QED
    BY <2>4, <2>5, <2>6, <2>7, <2>8 DEF Good, Local
<1>2. CASE EnterCleanup(p, "undo", FALSE) /\ UNCHANGED requested
  <2>1. PICK i \in BOOLEAN : EnterCleanup(p, "undo", i)
    BY <1>2
  <2>2. "undo" \in Kinds /\ Registry(p)
    BY <1>a DEF Kinds, Local
  <2>3. /\ Holds(p, "undo", "gate")
        /\ flag' = [flag EXCEPT ![p] = flag'[p]] /\ flag'[p] = TRUE
        /\ http' = [http EXCEPT ![p] = http'[p]] /\ http'[p] \in HttpRec
        /\ http'[p].active = http[p].active /\ Registry(p)'
    BY ZenonT(40), <1>a, <2>1, <2>2, CleanupMoves
  <2>4. Only(p)
    BY <1>a, <1>b, <2>3, Kept DEF Only, Holds
  <2>5. Shares(p)
    BY <1>a, <1>b, <1>c, <1>2 DEF Shares, SharedType
  <2>6. Gated(p)' /\ Controls(p)'
    BY <1>a, <1>b, <1>c, <2>3 DEF Local, Controls, Gated, Cleanup, Holds
  <2>7. Leased(p)'
    BY <1>a, <1>b, <1>c, <2>3 DEF Local, Leased, Works, At, Cleanup, Holds
  <2>8. Owned(p)' /\ Hushed(p)
    BY <1>a, <1>b, <1>c, <2>3 DEF Owned, Operating, Holds, Hushed
  <2> QED
    BY <2>3, <2>4, <2>5, <2>6, <2>7, <2>8 DEF Good, Local
<1> QED
  BY <1>1, <1>2 DEF Reopen

(* The flag falls last.                                                      *)
LEMMA LowerGood ==
    ASSUME Inv, NEW p \in Procs, LowerFlag(p)
    PROVE  Good(p)
<1>a. ProcType /\ Local(p) /\ Owned(p) /\ SharedType /\ Silent
  BY DEF Inv, ProcType
<1>b. /\ UNCHANGED <<requested, activity, up, http, inst, wf, waiting, quiet>>
      /\ task[p].pc = "lower" /\ task[p].kind \in {"resume", "reopen"}
      /\ flag' = [flag EXCEPT ![p] = flag'[p]] /\ flag'[p] = FALSE
  BY <1>a DEF LowerFlag, Local, Controls, proxy, ProcType
<1>c. op = p /\ p \notin waiting /\ p \in up /\ p \in activity /\ ~quiet
  BY <1>a, <1>b DEF Owned, Operating, Local, Controls, Leased, Free
<1>1. /\ Holds(p, "none", "idle") /\ task'[p] = Free
      /\ obs' = [obs EXCEPT ![p] = obs'[p]]
      /\ obs'[p] \in {"idle", "raise", "close", "check", "lock", "hold"}
  BY <1>a, FinishMoves DEF LowerFlag
<1>2. op' = None
  BY <1>c DEF LowerFlag, ReleaseOp
<1>3. Only(p)
  BY <1>a, <1>b, <1>1, Kept DEF Only, Holds
<1>4. Shares(p)
  BY <1>a, <1>b, <1>c, <1>2 DEF Shares, SharedType
<1>5. Registry(p)' /\ Gated(p)' /\ Controls(p)'
  BY <1>a, <1>b, <1>c, <1>1 DEF Local, Controls, Gated, Registry, Cleanup, Holds
<1>6. Leased(p)'
  BY <1>a, <1>b, <1>c, <1>1 DEF Local, Leased, Works, At, Cleanup, Holds
<1>7. Owned(p)' /\ Hushed(p)
  BY <1>b, <1>c, <1>1 DEF Owned, Operating, Holds, Hushed
<1> QED
  BY <1>3, <1>4, <1>5, <1>6, <1>7 DEF Good, Local
-----------------------------------------------------------------------------
(* The observer reads the intent, raises the flag, closes admission and      *)
(* reads the flag again.                                                     *)
LEMMA ObserveGood ==
    ASSUME Inv, NEW p \in Procs,
           Observe(p) \/ ObserverRaises(p) \/ ObserverCloses(p) \/ ObserverChecks(p)
    PROVE  Good(p)
<1>a. ProcType /\ Local(p) /\ Owned(p) /\ SharedType /\ Silent /\ http[p] \in HttpRec
  BY DEF Inv, ProcType
<1>b. /\ UNCHANGED <<requested, op, activity, up, inst, wf, task, waiting, quiet>>
      /\ obs' = [obs EXCEPT ![p] = obs'[p]]
      /\ obs'[p] \in {"idle", "raise", "close", "check", "lock", "hold"}
      /\ p \in up /\ ~At(p, "startup", "read") /\ obs[p] # "lock"
      /\ obs[p] = "check" => obs'[p] = IF flag[p] THEN "lock" ELSE "idle"
  <2>1. CASE Observe(p)
    BY <1>a, <2>1 DEF Observe, ProcType, shared, proxy
  <2>2. CASE ObserverRaises(p)
    BY <1>a, <2>2 DEF ObserverRaises, ProcType, shared, proxy, Local, Leased, Controls
  <2>3. CASE ObserverCloses(p)
    BY <1>a, <2>3 DEF ObserverCloses, ProcType, shared, Local, Leased, Controls
  <2>4. CASE ObserverChecks(p)
    BY <1>a, <2>4 DEF ObserverChecks, ProcType, shared, proxy, Local, Leased, Controls
  <2> QED
    BY <2>1, <2>2, <2>3, <2>4
<1>1. /\ flag' = [flag EXCEPT ![p] = flag'[p]] /\ flag'[p] \in BOOLEAN /\ (flag[p] => flag'[p])
      /\ http' = [http EXCEPT ![p] = http'[p]] /\ http'[p] \in HttpRec
      /\ http'[p].active = http[p].active /\ Registry(p)'
      /\ http'[p].open = http[p].open \/ obs'[p] = "check"
  <2>1. CASE Observe(p) \/ ObserverChecks(p)
    <3>1. flag' = flag /\ http' = http
      BY <2>1 DEF Observe, ObserverChecks, proxy
    <3> QED
      BY <1>a, <3>1, Kept DEF Local, Registry
  <2>2. CASE ObserverRaises(p)
    <3>1. http' = http
      BY <2>2 DEF ObserverRaises, proxy
    <3>2. flag' = [flag EXCEPT ![p] = flag'[p]] /\ flag'[p] \in BOOLEAN /\ flag'[p]
      BY <1>a, <2>2 DEF ProcType, ObserverRaises
    <3> QED
      BY <1>a, <3>1, <3>2, Kept DEF Local, Registry
  <2>3. CASE ObserverCloses(p)
    <3>1. http' = [http EXCEPT ![p] = http'[p]] /\ http'[p] = ShutLong(http[p])
      BY <1>a, <2>3 DEF ProcType, ObserverCloses
    <3>2. http'[p] \in HttpRec /\ http'[p].active = http[p].active /\ http'[p].long = http[p].long
          /\ http[p].long \subseteq http'[p].shut
      BY <1>a, <3>1 DEF ShutLong, HttpRec
    <3>3. Registry(p)'
      BY <1>a, <3>2 DEF Local, Registry
    <3>4. flag' = flag /\ obs'[p] = "check"
      BY <1>a, <2>3 DEF ProcType, ObserverCloses
    <3> QED
      BY <1>a, <3>1, <3>2, <3>3, <3>4, Kept
  <2> QED
    BY <2>1, <2>2, <2>3
<1>2. Only(p) /\ Shares(p)
  BY <1>a, <1>b, <1>1, Kept DEF Only, Shares, SharedType
<1>3. Gated(p)' /\ Controls(p)'
  BY <1>a, <1>b DEF Local, Controls, Gated, Cleanup
<1>4. task[p].pc = "lower" => http'[p].open \/ obs'[p] \in {"check", "lock"}
  <2>1. task[p].pc = "lower" => flag[p] /\ (http[p].open \/ obs[p] \in {"check", "lock"})
    BY <1>a DEF Local, Leased, Controls, Cleanup
  <2> QED
    BY <1>b, <1>1, <2>1
<1>5. Leased(p)'
  BY <1>a, <1>b, <1>1, <1>4 DEF Local, Leased, Works, At, Cleanup
<1>6. Owned(p)' /\ Hushed(p)
  BY <1>a, <1>b DEF Owned, Operating, Hushed, Silent, At
<1> QED
  BY <1>1, <1>2, <1>3, <1>5, <1>6 DEF Good, Local

(* It gets the management lock.                                              *)
LEMMA ObserverLocksGood ==
    ASSUME Inv, NEW p \in Procs, ObserverLocks(p)
    PROVE  Good(p)
<1>a. ProcType /\ Local(p) /\ Owned(p) /\ SharedType /\ Silent
  BY DEF Inv, ProcType
<1>b. /\ task[p] = Free /\ p \in up
      /\ UNCHANGED <<requested, activity, up, inst, wf, quiet, waiting>>
      /\ obs' = [obs EXCEPT ![p] = obs'[p]] /\ obs'[p] \in {"idle", "hold"}
  BY <1>a DEF ObserverLocks, Unlocked, ProcType
<1>c. task[p].kind = "none" /\ task[p].pc = "idle"
  BY <1>b DEF Free
<1>1. CASE UNCHANGED <<op, task, flag, http>>
  <2>1. Only(p) /\ Shares(p)
    BY <1>a, <1>b, <1>1, Kept DEF Only, Shares, SharedType
  <2>2. Local(p)'
    BY <1>a, <1>b, <1>c, <1>1 DEF Local, Controls, Gated, Registry, Leased, Works, At, Cleanup
  <2>3. Owned(p)' /\ Hushed(p)
    BY <1>a, <1>b, <1>1 DEF Owned, Operating, Hushed, Silent, At
  <2> QED
    BY <2>1, <2>2, <2>3 DEF Good
<1>2. CASE UNCHANGED op /\ EnterCleanup(p, "observer", FALSE)
  <2>1. PICK i \in BOOLEAN : EnterCleanup(p, "observer", i)
    BY <1>2
  <2> QED
    BY <1>b, <1>2, <2>1, BeginGood
<1>3. CASE ~requested /\ op = None /\ op' = p /\ EnterCleanup(p, "reopen", FALSE)
  <2>1. PICK i \in BOOLEAN : EnterCleanup(p, "reopen", i)
    BY <1>3
  <2> QED
    BY <1>b, <1>3, <2>1, BeginGood
<1> QED
  BY <1>1, <1>2, <1>3 DEF ObserverLocks

(* A crash leaves nothing of the process.                                    *)
LEMMA CrashGood ==
    ASSUME Inv, NEW p \in Procs, Crash(p)
    PROVE  Good(p)
<1>a. ProcType /\ Local(p) /\ Owned(p) /\ SharedType /\ Silent
  BY DEF Inv, ProcType
<1>b. /\ UNCHANGED <<requested, quiet>> /\ up' = up \ {p} /\ activity' = activity \ {p}
      /\ waiting' = waiting \ {p} /\ ReleaseOp(p)
  BY DEF Crash
<1>1. /\ flag' = [flag EXCEPT ![p] = flag'[p]] /\ flag'[p] = FALSE
      /\ http' = [http EXCEPT ![p] = http'[p]] /\ http'[p] = NoHttp
      /\ inst' = [inst EXCEPT ![p] = inst'[p]] /\ inst'[p] = NoInst
      /\ wf' = [wf EXCEPT ![p] = wf'[p]] /\ wf'[p] = "gone"
      /\ task' = [task EXCEPT ![p] = task'[p]] /\ task'[p] = Free
      /\ obs' = [obs EXCEPT ![p] = obs'[p]] /\ obs'[p] = "idle"
  BY <1>a DEF Crash, ProcType
<1>2. Only(p)
  BY <1>1, FreshTypes DEF Only
<1>3. Shares(p)
  BY <1>a, <1>b DEF Shares, SharedType, ReleaseOp
<1>4. Local(p)'
  BY <1>b, <1>1 DEF Local, Controls, Gated, Registry, Leased, Works, At, Cleanup, Free, NoHttp, NoInst
<1>5. Owned(p)' /\ Hushed(p)
  BY <1>a, <1>b, <1>1 DEF Owned, Operating, Hushed, Silent, Free
<1> QED
  BY <1>2, <1>3, <1>4, <1>5 DEF Good
-----------------------------------------------------------------------------
(* Every step is good for the process that takes it.                         *)
LEMMA StepGood ==
    ASSUME Inv, Next
    PROVE  \E p \in Procs : Good(p)
<1>1. PICK p \in Procs :
        \/ RequestStep(p) \/ ColdStart(p) \/ Replace(p) \/ SpawnStep(p)
        \/ WorkersGone(p)
        \/ StartLeases(p) \/ StartStep(p)
        \/ Deploy(p) \/ DeployWorks(p)
        \/ CleanupStep(p)
        \/ PrepareServerDrain(p) \/ DrainLocks(p) \/ DrainGivesUp(p) \/ DrainReports(p)
        \/ ResumeServer(p) \/ RestoreStep(p)
        \/ ObserverStep(p)
        \/ Crash(p)
  BY DEF Next
<1>2. CASE RequestStep(p)
  BY <1>2, RequestGood DEF RequestStep
<1>3. CASE ColdStart(p) \/ Replace(p) \/ SpawnStep(p)
  BY <1>3, SpawnGood DEF SpawnStep
<1>4. CASE WorkersGone(p)
  BY <1>4, WorkersGood
<1>5. CASE StartLeases(p) \/ StartStep(p)
  BY <1>5, StartLeasesGood, StartReadsGood, StartRestoresGood DEF StartStep
<1>6. CASE Deploy(p) \/ DeployWorks(p)
  BY <1>6, DeployGood, DeployWorksGood
<1>7. CASE CleanupStep(p)
  BY <1>7, GateGood, StopGood, ReportGood DEF CleanupStep
<1>8. CASE PrepareServerDrain(p) \/ DrainLocks(p) \/ DrainGivesUp(p) \/ DrainReports(p)
  BY <1>8, PrepareGood, DrainLocksGood, DrainGivesUpGood, DrainReportsGood
<1>9. CASE ResumeServer(p) \/ RestoreStep(p)
  BY <1>9, ResumeGood, RestoreGood, ReopenGood, LowerGood DEF RestoreStep
<1>10. CASE ObserverStep(p) \/ Crash(p)
  BY <1>10, ObserveGood, ObserverLocksGood, CrashGood DEF ObserverStep
<1> QED
  BY <1>1, <1>2, <1>3, <1>4, <1>5, <1>6, <1>7, <1>8, <1>9, <1>10

(* The invariant is inductive.                                               *)
LEMMA InvStep == Inv /\ [Next]_vars => Inv'
<1> SUFFICES ASSUME Inv, [Next]_vars PROVE Inv'
  OBVIOUS
<1>1. CASE Next
  BY <1>1, StepGood, GoodStep
<1>2. CASE UNCHANGED vars
  BY <1>2 DEF vars, Inv, ProcType, SharedType, Local, Controls, Gated, Registry, Leased, Works, At,
              Cleanup, Owned, Operating, Silent
<1> QED
  BY <1>1, <1>2

(* It holds when no process runs.                                            *)
LEMMA InvInit == Init => Inv
<1> SUFFICES ASSUME Init PROVE Inv
  OBVIOUS
<1>1. ProcType /\ SharedType /\ Silent
  BY FreshTypes DEF Init, ProcType, SharedType, Silent
<1>2. ASSUME NEW p \in Procs PROVE Local(p) /\ Owned(p)
  <2>1. /\ flag[p] = FALSE /\ http[p] = NoHttp /\ inst[p] = NoInst /\ wf[p] = "gone"
        /\ task[p] = Free /\ obs[p] = "idle" /\ p \notin up /\ p \notin activity /\ p \notin waiting
    BY DEF Init
  <2> QED
    BY <2>1 DEF Local, Controls, Gated, Registry, Leased, Works, At, Cleanup, Owned, Operating, Free,
                NoHttp, NoInst
<1> QED
  BY <1>1, <1>2 DEF Inv

(* The invariant of the drain holds.                                         *)
THEOREM Invariance == Spec => []Inv
  BY InvInit, InvStep, PTL DEF Spec

(* The counters stay within their bounds.                                    *)
LEMMA BoundsStep ==
    ASSUME commands \in 0..MaxCommands, faults \in 0..MaxFaults, [Next]_vars
    PROVE  commands' \in 0..MaxCommands /\ faults' \in 0..MaxFaults
<1> DEFINE Counted ==
             /\ commands' = commands \/ (commands < MaxCommands /\ commands' = commands + 1)
             /\ faults' = faults \/ (faults < MaxFaults /\ faults' = faults + 1)
<1>1. ASSUME NEW p \in Procs,
             \/ RequestStep(p) \/ ColdStart(p) \/ Replace(p) \/ SpawnStep(p)
             \/ WorkersGone(p) \/ StartLeases(p) \/ StartStep(p)
      PROVE  Counted
  BY <1>1 DEF bounds, RequestStep, Register, MarkLongLived, EndRequest, ColdStart, Replace, SpawnStep,
              ColdAllocates, Replaces, SpawnEnds, WorkersGone, StartLeases, StartStep, StartReads,
              StartRestores
<1>2. ASSUME NEW p \in Procs,
             \/ Deploy(p) \/ DeployWorks(p) \/ GatePassed(p) \/ Report(p) \/ PrepareServerDrain(p)
             \/ DrainLocks(p) \/ DrainGivesUp(p) \/ DrainReports(p) \/ ResumeServer(p)
      PROVE  Counted
  BY <1>2 DEF bounds, Deploy, DeployWorks, GatePassed, Report, PrepareServerDrain, DrainLocks,
              DrainGivesUp, DrainReports, ResumeServer
<1>3. ASSUME NEW p \in Procs, Stop(p) \/ Restore(p) \/ Reopen(p)
      PROVE  Counted
  BY <1>3 DEF Stop, Restore, Reopen
<1>4. ASSUME NEW p \in Procs, LowerFlag(p) \/ ObserverStep(p) \/ Crash(p)
      PROVE  Counted
  BY <1>4 DEF bounds, LowerFlag, ObserverStep, Observe, ObserverRaises, ObserverCloses, ObserverChecks,
              ObserverLocks, Crash
<1>5. Counted
  <2>1. CASE Next
    BY <2>1, <1>1, <1>2, <1>3, <1>4 DEF Next, CleanupStep, RestoreStep
  <2>2. CASE UNCHANGED vars
    BY <2>2 DEF vars
  <2> QED
    BY <2>1, <2>2
<1> QED
  BY <1>5, BoundAssumption

(* The variables have their types.                                           *)
THEOREM TypeCorrect == Spec => []TypeOK
<1> DEFINE Bounded == commands \in 0..MaxCommands /\ faults \in 0..MaxFaults
<1>1. Init => Bounded
  BY BoundAssumption DEF Init
<1>2. Bounded /\ [Next]_vars => Bounded'
  BY BoundsStep
<1>3. Inv /\ Bounded => TypeOK
  BY DEF Inv, ProcType, SharedType, TypeOK, HttpRec, InstRec, TaskRec
<1> HIDE DEF Bounded
<1> QED
  BY <1>1, <1>2, <1>3, Invariance, PTL DEF Spec

(* A process with requests, an instance, a spawn that has one in hand or     *)
(* workflow workers holds the shared activity lease; only an orphan of a     *)
(* command may outlive it.                                                   *)
THEOREM WorkIsLeased == Spec => []LeaseCovers
<1>1. Inv => LeaseCovers
  BY DEF Inv, Local, Leased, Works, Gated, LeaseCovers
<1> QED
  BY <1>1, Invariance, PTL

(* A drain that was told "completed" is complete, in every process, until    *)
(* the server is resumed: no request, no worker, no instance, no spawn, and  *)
(* no other process than the orphans that commands had made before.          *)
THEOREM DrainIsComplete == Spec => []Quiescent
<1>1. Inv => Quiescent
  <2> SUFFICES ASSUME Inv, quiet, NEW p \in Procs
               PROVE  /\ http[p].active = {} /\ wf[p] = "gone"
                      /\ ~inst[p].reg /\ ~inst[p].live /\ inst[p].spawn = "none"
                      /\ inst[p].orphan => inst[p].cut
    BY DEF Quiescent
  <2>1. ~Works(p)
    <3>1. Works(p) => p \in activity /\ task[p].kind # "startup"
      BY DEF Inv, Local, Leased
    <3>2. p \in activity => task[p].kind = "startup"
      BY DEF Inv, Silent, At
    <3> QED
      BY <3>1, <3>2
  <2> QED
    BY <2>1 DEF Works, Inv, Local, Gated
<1> QED
  BY <1>1, Invariance, PTL

(* Every instance process is registered, also when a cleanup gives up on the *)
(* spawn that brings it, but for one whose instance a command removed before *)
(* its spawn had recorded the process.                                       *)
THEOREM InstancesRegistered == Spec => []NoOrphan
<1>1. Inv => NoOrphan
  BY DEF Inv, Local, Gated, NoOrphan
<1> QED
  BY <1>1, Invariance, PTL

(* While admission is closed every long-lived connection has been shut down. *)
THEOREM StreamsShut == Spec => []LongLivedShut
<1>1. Inv => LongLivedShut
  BY DEF Inv, Local, Registry, LongLivedShut
<1> QED
  BY <1>1, Invariance, PTL

(* In a process that goes on, the flag falls by LowerFlag only.              *)
LEMMA FlagFalls ==
    ASSUME Inv, Next, NEW q \in Procs, q \in up', flag[q], ~flag'[q]
    PROVE  LowerFlag(q)
<1>a. flag \in [Procs -> BOOLEAN] /\ requested \in BOOLEAN
  BY DEF Inv, ProcType, SharedType
<1>1. PICK p \in Procs :
        \/ RequestStep(p) \/ ColdStart(p) \/ Replace(p) \/ SpawnStep(p)
        \/ WorkersGone(p)
        \/ StartLeases(p) \/ StartStep(p)
        \/ Deploy(p) \/ DeployWorks(p)
        \/ CleanupStep(p)
        \/ PrepareServerDrain(p) \/ DrainLocks(p) \/ DrainGivesUp(p) \/ DrainReports(p)
        \/ ResumeServer(p) \/ RestoreStep(p)
        \/ ObserverStep(p)
        \/ Crash(p)
  BY DEF Next
<1>3. CASE \/ RequestStep(p) \/ ColdStart(p) \/ Replace(p) \/ ColdAllocates(p) \/ SpawnEnds(p)
           \/ WorkersGone(p) \/ StartLeases(p) \/ DeployWorks(p) \/ CleanupStep(p)
           \/ DrainGivesUp(p) \/ DrainReports(p) \/ Observe(p)
           \/ ObserverCloses(p) \/ ObserverChecks(p)
  <2>1. flag' = flag
    BY <1>3 DEF RequestStep, Register, MarkLongLived, EndRequest, ColdStart, Replace, ColdAllocates,
                SpawnEnds, WorkersGone, StartLeases, DeployWorks, CleanupStep, GatePassed, Stop,
                Report, DrainGivesUp, DrainReports, Observe, ObserverCloses, ObserverChecks
  <2> QED
    BY <2>1
<1>4. CASE Replaces(p) \/ StartRestores(p) \/ Deploy(p)
  <2>1. flag' = [flag EXCEPT ![p] = IsDraining(p)]
    BY <1>4 DEF Replaces, StartRestores, Deploy
  <2> QED
    BY <1>a, <2>1 DEF IsDraining
<1>5. CASE StartReads(p)
  <2>1. flag' = [flag EXCEPT ![p] = requested] /\ task[p].kind = "startup" /\ task[p].pc = "read"
    BY <1>5 DEF StartReads, At
  <2>2. ~flag[p]
    BY <2>1 DEF Inv, Local, Leased, At
  <2> QED
    BY <1>a, <2>1, <2>2
<1>6. CASE PrepareServerDrain(p) \/ DrainLocks(p) \/ ResumeServer(p) \/ Restore(p)
           \/ Reopen(p) \/ ObserverRaises(p) \/ ObserverLocks(p)
  <2>1. flag' = flag \/ flag' = [flag EXCEPT ![p] = TRUE]
    BY <1>6 DEF PrepareServerDrain, DrainLocks, ResumeServer, Restore, Reopen, ObserverRaises, ObserverLocks,
                EnterCleanup
  <2> QED
    BY <1>a, <2>1
<1>7. CASE Crash(p)
  <2>1. flag' = [flag EXCEPT ![p] = FALSE] /\ up' = up \ {p}
    BY <1>7 DEF Crash
  <2> QED
    BY <1>a, <2>1
<1>8. CASE LowerFlag(p)
  <2>1. flag' = [flag EXCEPT ![p] = FALSE]
    BY <1>8 DEF LowerFlag
  <2>2. q = p
    BY <1>a, <2>1
  <2> QED
    BY <1>8, <2>2
<1> QED
  BY <1>1, <1>3, <1>4, <1>5, <1>6, <1>7, <1>8 DEF SpawnStep, StartStep, RestoreStep, ObserverStep

(* A gate that opens opens on a restored runtime, and on an open admission   *)
(* unless the observer, between its two reads of the flag, has closed it.    *)
THEOREM GateOpensRestored == Spec => ReopensRestored
<1>1. Inv /\ [Next]_vars =>
        [\A p \in up \cap up' : flag[p] /\ ~flag'[p] =>
          p \in activity /\ wf[p] = "on" /\ (http[p].open \/ obs[p] \in {"check", "lock"})]_vars
  <2> SUFFICES ASSUME Inv, Next, NEW p \in up \cap up', flag[p], ~flag'[p]
               PROVE  p \in activity /\ wf[p] = "on" /\ (http[p].open \/ obs[p] \in {"check", "lock"})
    OBVIOUS
  <2>1. p \in Procs
    BY DEF Inv, SharedType
  <2>2. task[p].pc = "lower"
    BY <2>1, FlagFalls DEF LowerFlag
  <2> QED
    BY <2>1, <2>2 DEF Inv, Local, Leased
<1> QED
  BY <1>1, Invariance, PTL DEF Spec, ReopensRestored
=============================================================================
