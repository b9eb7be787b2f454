--------------------------- MODULE Upgrade_proofs ---------------------------
(***************************************************************************)
(* Theorems about Upgrade, for every set of controllers, every number of   *)
(* processes and every combination of disturbances.                        *)
(***************************************************************************)
EXTENDS Upgrade, FiniteSetTheorems, TLAPS

Stages == {"none", "gone"} \cup Booting \cup Accepting

ProcRec == [stage : Stages, mode : {"normal", "upgrading"},
            expected : Controllers \cup {NoOne}, owner : Controllers \cup {NoOne},
            child : BOOLEAN, by : Controllers \cup {NoOne}, hup : BOOLEAN,
            version : {"old", "new"}, op : {"none", "running", "unlisted"}]

(* The record of a process that ended, or was just spawned.                *)
LEMMA FreshType ==
    /\ Fresh \in ProcRec
    /\ [Fresh EXCEPT !.stage = "gone"] \in ProcRec
    /\ [Fresh EXCEPT !.stage = "ready"] \in ProcRec
    /\ \A child \in BOOLEAN, by \in Controllers \cup {NoOne}, v \in {"old", "new"} :
          [Fresh EXCEPT !.stage = "spawned", !.child = child, !.by = by, !.version = v]
              \in ProcRec
  BY DEF Fresh, ProcRec, Stages, Booting, Accepting

(* The end of a process.                                                   *)
LEMMA EndsType ==
    ASSUME NEW f \in [Procs -> ProcRec], NEW p
    PROVE  Ends(f, p) \in [Procs -> ProcRec]
  BY FreshType DEF Ends

(* The birth of a process.                                                 *)
LEMMA BornType ==
    ASSUME NEW f \in [Procs -> ProcRec], NEW child \in BOOLEAN,
           NEW by \in Controllers \cup {NoOne}, binary \in {"old", "new"}
    PROVE  Born(f, child, by) \in [Procs -> ProcRec]
  BY FreshType DEF Born

(* Writing one field of one process.                                       *)
LEMMA FieldType ==
    ASSUME NEW f \in [Procs -> ProcRec], NEW p
    PROVE  /\ \A st \in Stages : [f EXCEPT ![p].stage = st] \in [Procs -> ProcRec]
           /\ \A m \in {"normal", "upgrading"} : [f EXCEPT ![p].mode = m] \in [Procs -> ProcRec]
           /\ \A c \in Controllers \cup {NoOne} :
                 /\ [f EXCEPT ![p].expected = c] \in [Procs -> ProcRec]
                 /\ [f EXCEPT ![p].owner = c] \in [Procs -> ProcRec]
                 /\ [f EXCEPT ![p].by = c] \in [Procs -> ProcRec]
           /\ [f EXCEPT ![p].hup = TRUE] \in [Procs -> ProcRec]
<1>1. CASE p \notin Procs
  BY <1>1
<1>2. CASE p \in Procs
  <2>1. f[p] \in ProcRec
    BY <1>2
  <2>2. ASSUME NEW r \in ProcRec PROVE [f EXCEPT ![p] = r] \in [Procs -> ProcRec]
    BY <1>2
  <2>3. /\ \A st \in Stages : [f[p] EXCEPT !.stage = st] \in ProcRec
        /\ \A m \in {"normal", "upgrading"} : [f[p] EXCEPT !.mode = m] \in ProcRec
        /\ \A c \in Controllers \cup {NoOne} :
              /\ [f[p] EXCEPT !.expected = c] \in ProcRec
              /\ [f[p] EXCEPT !.owner = c] \in ProcRec
              /\ [f[p] EXCEPT !.by = c] \in ProcRec
        /\ [f[p] EXCEPT !.hup = TRUE] \in ProcRec
    BY <2>1 DEF ProcRec
  <2> QED
    BY <2>2, <2>3
<1> QED
  BY <1>1, <1>2

(* Every step keeps processes, files and database well typed.              *)
LEMMA TypeStep == TypeOK /\ [Next]_vars => TypeOK'
<1> SUFFICES ASSUME TypeOK, [Next]_vars PROVE TypeOK'
  OBVIOUS
<1> USE UpgradeAssumption
<1>a. proc \in [Procs -> ProcRec] /\ binary \in {"old", "new"}
  BY DEF TypeOK, ProcRec, Stages
<1>b. ASSUME proc' \in [Procs -> ProcRec], UNCHANGED <<unit, db, files, budget>>
      PROVE  TypeOK'
  BY <1>b DEF TypeOK, ProcRec, Stages, unit, db, files, budget
<1>c. ASSUME NEW p, Gone(p), UNCHANGED <<db, files>>, events' \in 0..MaxEvents, kinds' \subseteq Kinds
      PROVE  TypeOK'
  <2>1. proc' \in [Procs -> ProcRec]
    BY <1>a, <1>c, EndsType DEF Gone
  <2> QED
    BY <1>c, <2>1 DEF TypeOK, ProcRec, Stages, Gone, db, files
<1>d. UNCHANGED budget => events' \in 0..MaxEvents /\ kinds' \subseteq Kinds
  BY DEF budget, TypeOK
<1>e. ASSUME NEW kind, Disturbed(kind)
      PROVE  events' \in 0..MaxEvents /\ kinds' \subseteq Kinds
  BY <1>e DEF Disturbed, TypeOK
<1>f. ASSUME NEW by \in Controllers \cup {NoOne}, Hup(by), UNCHANGED <<db, files>>,
             events' \in 0..MaxEvents, kinds' \subseteq Kinds
      PROVE  TypeOK'
  <2>1. CASE UNCHANGED <<proc, unit>>
    BY <1>f, <2>1 DEF TypeOK, unit, db, files
  <2>2. CASE Spawn /\ proc' = Born([proc EXCEPT ![main].hup = TRUE], TRUE, by)
             /\ UNCHANGED <<main, symlink, generation>>
    <3>1. [proc EXCEPT ![main].hup = TRUE] \in [Procs -> ProcRec]
      BY <1>a, FieldType
    <3>2. proc' \in [Procs -> ProcRec]
      BY <1>a, <2>2, <3>1, BornType
    <3>3. spawned' \in Procs
      BY <2>2 DEF Spawn, TypeOK, Procs
    <3> QED
      BY <1>f, <2>2, <3>2, <3>3 DEF TypeOK, ProcRec, Stages, db, files
  <2> QED
    BY <1>f, <2>1, <2>2 DEF Hup
<1>g. ASSUME RestartUnit, UNCHANGED <<db, files>>, events' \in 0..MaxEvents, kinds' \subseteq Kinds
      PROVE  TypeOK'
  <2>1. CASE UNCHANGED <<proc, unit>>
    BY <1>g, <2>1 DEF TypeOK, unit, db, files
  <2>2. CASE Gone(main)
    BY <1>c, <1>g, <2>2
  <2>3. CASE proc' = [proc EXCEPT ![main].stage = "stopping"] /\ UNCHANGED unit
    <3>1. proc' \in [Procs -> ProcRec]
      BY <1>a, <2>3, FieldType DEF Stages, Accepting
    <3> QED
      BY <1>g, <2>3, <3>1 DEF TypeOK, ProcRec, Stages, unit, db, files
  <2> QED
    BY <1>g, <2>1, <2>2, <2>3 DEF RestartUnit
<1>1. CASE Boot
  <2>1. proc' \in [Procs -> ProcRec]
    BY <1>a, <1>1, BornType DEF Boot
  <2>2. spawned' \in Procs /\ main' \in Procs
    BY <1>1 DEF Boot, Spawn, TypeOK, Procs
  <2> QED
    BY <1>1, <2>1, <2>2 DEF TypeOK, ProcRec, Stages, Boot, db, files, budget
<1>2. ASSUME NEW p \in Procs, Startup(p)
      PROVE  TypeOK'
  <2>1. CASE Bind(p) \/ Claim(p)
    <3>1. proc' \in [Procs -> ProcRec]
      BY <1>a, <2>1 DEF Bind, Claim, ProcRec, Stages, Booting, Claiming
    <3> QED
      BY <2>1, <3>1 DEF Bind, Claim, TypeOK, ProcRec, Stages, db, files, budget
  <2>2. CASE ClaimTimesOut(p) \/ Stopped(p)
    BY <1>c, <1>d, <2>2 DEF ClaimTimesOut, Stopped
  <2>3. CASE TakeMarker(p)
    <3>a. "marked" \in Stages
      BY DEF Stages, Booting, Claiming, Accepting
    <3>b. [proc EXCEPT ![p].stage = "marked"] \in [Procs -> ProcRec]
      BY <1>a, <3>a, FieldType
    <3>c. PICK c \in Controllers \cup {NoOne} :
            proc' = [proc EXCEPT ![p].stage = "marked", ![p].expected = c]
      BY <2>3 DEF TakeMarker, TypeOK
    <3>1. proc' \in [Procs -> ProcRec]
      BY <3>b, <3>c, FieldType
    <3> QED
      BY <2>3, <3>1 DEF TakeMarker, TypeOK, ProcRec, Stages, unit, db, budget
  <2>4. CASE ReadMode(p)
    <3>a. "reading" \in Stages
      BY DEF Stages, Booting, Claiming, Accepting
    <3>b. [proc EXCEPT ![p].stage = "reading"] \in [Procs -> ProcRec]
      BY <1>a, <3>a, FieldType
    <3>1. proc' \in [Procs -> ProcRec]
      BY <2>4, <3>b, FieldType DEF ReadMode, TypeOK
    <3> QED
      BY <1>b, <2>4, <3>1 DEF ReadMode
  <2>5. CASE ReadOwner(p)
    <3>1. CASE Gone(p)
      BY <1>c, <1>d, <2>5, <3>1 DEF ReadOwner
    <3>2. CASE ~Gone(p)
      <4>1. PICK st \in {"restoring", "clearing"} :
              proc' = [proc EXCEPT ![p].stage = st, ![p].owner = upgrade_lock]
              /\ UNCHANGED unit
        BY <2>5, <3>2 DEF ReadOwner
      <4>a. [proc EXCEPT ![p].stage = st] \in [Procs -> ProcRec]
        BY <1>a, FieldType DEF Stages, Booting, Claiming
      <4>2. proc' \in [Procs -> ProcRec]
        BY <4>a, <4>1, FieldType DEF TypeOK
      <4> QED
        BY <1>b, <2>5, <4>1, <4>2 DEF ReadOwner
    <3> QED
      BY <3>1, <3>2
  <2>6. CASE ClearMode(p)
    <3>a. "unlocking" \in Stages
      BY DEF Stages, Booting, Claiming, Accepting
    <3>b. [proc EXCEPT ![p].stage = "unlocking"] \in [Procs -> ProcRec]
      BY <1>a, <3>a, FieldType
    <3>1. proc' \in [Procs -> ProcRec]
      BY <2>6, <3>b, FieldType DEF ClearMode
    <3> QED
      BY <2>6, <3>1 DEF ClearMode, TypeOK, ProcRec, Stages, unit, files, budget
  <2>7. CASE ClearLock(p)
    <3>1. proc' \in [Procs -> ProcRec]
      BY <1>a, <2>7 DEF ClearLock, ProcRec, Stages, Booting, Claiming
    <3>2. upgrade_lock' \in Controllers \cup {NoOne} /\ stale' \in BOOLEAN
      BY <2>7 DEF ClearLock, Release, TypeOK
    <3> QED
      BY <2>7, <3>1, <3>2 DEF ClearLock, TypeOK, ProcRec, Stages, unit, files, budget
  <2>8. CASE Publish(p)
    <3>a. "serving" \in Stages
      BY DEF Stages, Booting, Claiming, Accepting
    <3>b. [proc EXCEPT ![p].stage = "serving"] \in [Procs -> ProcRec]
      BY <1>a, <3>a, FieldType
    <3>c. [proc EXCEPT ![p].stage = "serving", ![p].owner = NoOne] \in [Procs -> ProcRec]
      BY <3>b, FieldType
    <3>d. [proc EXCEPT ![p].stage = "serving", ![p].owner = NoOne, ![p].expected = NoOne]
              \in [Procs -> ProcRec]
      BY <3>c, FieldType
    <3>1. proc' \in [Procs -> ProcRec]
      BY <2>8, <3>d, FieldType DEF Publish
    <3> QED
      BY <1>b, <2>8, <3>1 DEF Publish
  <2>9. CASE Ready(p)
    <3>1. proc' \in [Procs -> ProcRec]
      BY <1>a, <2>9 DEF Ready, ProcRec, Stages, Accepting
    <3> QED
      BY <2>9, <3>1 DEF Ready, TypeOK, ProcRec, Stages, db, files, budget
  <2> QED
    BY <1>2, <2>1, <2>2, <2>3, <2>4, <2>5, <2>6, <2>7, <2>8, <2>9 DEF Startup
<1>3. ASSUME NEW p \in Procs, Execute(p) \/ ExecuteUnlisted(p) \/ Finish(p)
      PROVE  TypeOK'
  <2>1. proc' \in [Procs -> ProcRec]
    BY <1>a, <1>3 DEF Execute, ExecuteUnlisted, Finish, ProcRec
  <2> QED
    BY <1>b, <1>3, <2>1 DEF Execute, ExecuteUnlisted, Finish
<1>4. ASSUME NEW p \in Procs, Crash(p)
      PROVE  TypeOK'
  BY <1>4, <1>c, <1>e DEF Crash
<1>5. ASSUME NEW c \in Controllers, Controller(c)
      PROVE  TypeOK'
  <2>1. CASE UNCHANGED <<proc, unit, db, files, budget>>
    BY <1>a, <1>b, <2>1
  <2>2. CASE EnterLock(c) \/ ExitLock(c) \/ UndoLock(c)
    <3>1. upgrade_lock' \in Controllers \cup {NoOne} /\ stale' \in BOOLEAN
      BY <2>2 DEF EnterLock, ExitLock, UndoLock, Release, TypeOK
    <3> QED
      BY <2>2, <3>1 DEF EnterLock, ExitLock, UndoLock, TypeOK, unit, files, budget
  <2>3. CASE EnterMode(c) \/ ExitMode(c) \/ UndoMode(c)
    <3>1. PICK m \in {"normal", "upgrading"} :
            proc' = [proc EXCEPT ![ctl[c].via].mode = m] /\ server_mode' = m
      BY <2>3 DEF EnterMode, ExitMode, UndoMode, Normal
    <3>2. proc' \in [Procs -> ProcRec]
      BY <1>a, <3>1, FieldType
    <3> QED
      BY <2>3, <3>1, <3>2 DEF EnterMode, ExitMode, UndoMode, TypeOK, ProcRec, Stages, unit,
                              files, budget
  <2>4. CASE Install(c) \/ Compare(c) \/ Cleanup(c) \/ Restore(c) \/ Unmark(c)
    BY <2>4 DEF Install, Compare, Cleanup, Restore, Unmark, TypeOK, unit, db, budget
  <2>5. CASE Reload(c)
    BY <1>d, <1>f, <1>a, <1>b, <2>5 DEF Reload
  <2>6. CASE Restart(c)
    BY <1>d, <1>g, <2>6 DEF Restart
  <2> QED
    BY <1>5, <2>1, <2>2, <2>3, <2>4, <2>5, <2>6
       DEF Controller, CheckVersion, Send, NoAnswer, EnterRefused, Info, WaitReady,
           WaitTimesOut, Recheck, ExitRefused, Restarted
<1>6. ASSUME NEW c \in Controllers, SshFails(c) \/ ExitFails(c) \/ AnswerLost(c) \/ Killed(c)
      PROVE  TypeOK'
  <2>1. events' \in 0..MaxEvents /\ kinds' \subseteq Kinds
    BY <1>6, <1>e DEF SshFails, ExitFails, AnswerLost, Killed
  <2> QED
    BY <1>6, <2>1 DEF SshFails, ExitFails, AnswerLost, Killed, TypeOK, unit, db, files
<1>7. CASE OperatorReload
  BY <1>7, <1>e, <1>f, <1>g DEF OperatorReload
<1>8. CASE GrowStale
  <2>1. events' \in 0..MaxEvents /\ kinds' \subseteq Kinds
    BY <1>8, <1>d, <1>e DEF GrowStale
  <2> QED
    BY <1>8, <2>1 DEF GrowStale, TypeOK, unit, files
<1>9. CASE UNCHANGED vars
  BY <1>9 DEF TypeOK, vars, unit, db, files, budget
<1> QED
  BY <1>1, <1>2, <1>3, <1>4, <1>5, <1>6, <1>7, <1>8, <1>9 DEF Next

(* The initial state is well typed.                                        *)
LEMMA TypeInit == Init => TypeOK
<1> SUFFICES ASSUME Init PROVE TypeOK
  OBVIOUS
<1>1. proc \in [Procs -> ProcRec]
  BY FreshType DEF Init
<1>2. 1 \in Procs /\ 0 \in 0..MaxEvents
  BY UpgradeAssumption DEF Procs
<1> QED
  BY <1>1, <1>2 DEF Init, TypeOK, ProcRec, Stages

(* Processes, files and database stay well typed.                          *)
THEOREM TypeCorrect == Spec => []TypeOK
  BY TypeInit, TypeStep, PTL DEF Spec
-----------------------------------------------------------------------------
(* The processes: at most one is on its way up, and it is the last that was  *)
(* spawned; without a main process nothing is alive; a main process that     *)
(* could still be reloaded has no child on its way up.                       *)
Rising == Booting \cup {"serving"}

OneStarting ==
    /\ \A p \in Procs : proc[p].stage \in Rising => p = spawned
    /\ \A p \in Procs : p > spawned => proc[p].stage = "none"
    /\ main = NoOne => \A p \in Procs : ~Alive(p)
    /\ main # NoOne => Alive(main)
    /\ MainReady /\ ~proc[main].hup => proc[spawned].stage \notin Rising

(* Socket and generation: the process that restores has both, one that is    *)
(* bound has the socket, and a process that is reached and accepts commands  *)
(* is the generation.                                                        *)
LatestServes ==
    /\ \A p \in Procs : proc[p].stage \in Claiming => symlink = p /\ generation = p
    /\ \A p \in Procs : proc[p].stage = "bound" => symlink = p
    /\ proc[symlink].stage \in Accepting => generation = symlink

(* Operations run in the process of the current generation only, and nobody  *)
(* restores or executes beside another.                                      *)
Executes(p) == proc[p].stage \in Claiming \/ proc[p].op # "none"

Exclusive ==
    /\ \A p \in Procs : proc[p].op # "none" => generation = p /\ proc[p].stage \in Accepting
    /\ \A p, q \in Procs : Executes(p) /\ Executes(q) => p = q

ProcInv == TypeOK /\ OneStarting /\ LatestServes /\ Exclusive

(* How the stages of a process are related.                                  *)
LEMMA StageSets ==
    /\ Booting = {"spawned", "bound"} \cup Claiming
    /\ "spawned" \notin Claiming /\ "bound" \notin Claiming /\ "serving" \notin Claiming
    /\ "ready" \notin Claiming /\ "stopping" \notin Claiming
    /\ "none" \notin Rising /\ "gone" \notin Rising /\ "ready" \notin Rising
    /\ "stopping" \notin Rising
    /\ Accepting = {"serving", "ready", "stopping"}
    /\ Accepting \cap Booting = {} /\ "none" \notin Claiming /\ "gone" \notin Claiming
    /\ Rising = {"spawned", "bound", "serving"} \cup Claiming
  BY DEF Booting, Claiming, Rising, Accepting

(* A step within the restoring of the state, or its end.                     *)
LEMMA RestoringStep ==
    ASSUME ProcInv, TypeOK', NEW p \in Procs, proc[p].stage \in Claiming, UNCHANGED unit,
           \A q \in Procs \ {p} : proc'[q] = proc[q],
           proc'[p].stage \in Claiming \cup {"serving"},
           proc'[p].op = proc[p].op, proc'[p].hup = proc[p].hup
    PROVE  ProcInv'
<1>1. /\ spawned' = spawned /\ main' = main /\ symlink' = symlink /\ generation' = generation
  BY DEF unit
<1>2. p = spawned /\ symlink = p /\ generation = p /\ Alive(p) /\ Alive(p)'
  BY StageSets DEF ProcInv, OneStarting, LatestServes, Rising, Alive
<1>3. OneStarting'
  <2>1. \A q \in Procs : proc'[q].stage \in Rising => q = spawned
    BY <1>2 DEF ProcInv, OneStarting
  <2>2. \A q \in Procs : q > spawned => proc'[q].stage = "none"
    BY <1>2 DEF ProcInv, OneStarting, TypeOK, Procs
  <2>3. main = NoOne => \A q \in Procs : ~Alive(q)'
    BY <1>2 DEF ProcInv, OneStarting, Alive
  <2>4. main # NoOne => proc'[main].stage \in Booting \cup Accepting
    <3>1. CASE main = p
      BY <3>1, <1>2 DEF Alive
    <3>2. CASE main # p
      BY <3>2 DEF ProcInv, OneStarting, Alive, TypeOK
    <3> QED
      BY <3>1, <3>2
  <2>5. main # NoOne /\ proc'[main].stage = "ready" => proc'[main].hup
    <3> SUFFICES ASSUME main # NoOne, proc'[main].stage = "ready" PROVE proc'[main].hup
      OBVIOUS
    <3>1. main # p
      BY StageSets
    <3>2. main \in Procs /\ proc'[main] = proc[main]
      BY <3>1 DEF ProcInv, TypeOK
    <3>3. proc[spawned].stage \in Rising
      BY <1>2, StageSets
    <3> QED
      BY <3>2, <3>3 DEF ProcInv, OneStarting, MainReady
  <2> QED
    BY <1>1, <2>1, <2>2, <2>3, <2>4, <2>5 DEF OneStarting, MainReady, Alive
<1>4. LatestServes'
  BY <1>1, <1>2, StageSets DEF ProcInv, LatestServes, TypeOK
<1>5. Exclusive'
  <2>1. \A q \in Procs : proc[q].op # "none" => q # p
    BY StageSets DEF ProcInv, Exclusive
  <2>2. \A q \in Procs : Executes(q) => q = p
    BY DEF ProcInv, Exclusive, Executes
  <2>3. \A q \in Procs : Executes(q)' => q = p
    BY <2>2 DEF Executes
  <2>4. \A q \in Procs : proc'[q].op = "none"
    BY <2>1, <2>2 DEF Executes
  <2> QED
    BY <2>3, <2>4 DEF Exclusive
<1> QED
  BY <1>3, <1>4, <1>5 DEF ProcInv

(* The end of a process, and of the unit with the main one.                  *)
LEMMA GoneStep ==
    ASSUME ProcInv, TypeOK', NEW p \in Procs, Alive(p), Gone(p)
    PROVE  ProcInv'
<1>1. /\ spawned' = spawned /\ symlink' = symlink /\ generation' = generation
      /\ main' = IF p = main THEN NoOne ELSE main
  BY DEF Gone
<1>2. \A q \in Procs : \/ proc'[q] = proc[q]
                       \/ proc'[q].stage = "gone" /\ proc'[q].op = "none"
  BY DEF Gone, Ends, Fresh
<1>3. \A q \in Procs : q # p /\ p # main => proc'[q] = proc[q]
  BY DEF Gone, Ends
<1>4. \A q \in Procs : p = main => proc'[q].stage \in {"none", "gone"}
  BY DEF Gone, Ends, Fresh
<1>5. \A q \in Procs : proc[q].stage = "none" => proc'[q] = proc[q]
  <2>1. proc[p].stage # "none"
    BY DEF Alive, Booting, Claiming, Accepting
  <2> QED
    BY <2>1 DEF Gone, Ends
<1>6. OneStarting'
  <2>1. \A q \in Procs : proc'[q].stage \in Rising => q = spawned
    BY <1>2, StageSets DEF ProcInv, OneStarting
  <2>2. \A q \in Procs : q > spawned => proc'[q].stage = "none"
    BY <1>5 DEF ProcInv, OneStarting
  <2>3. main' = NoOne => \A q \in Procs : ~Alive(q)'
    <3>1. CASE p = main
      BY <1>4, <3>1, StageSets DEF Alive
    <3>2. CASE p # main
      BY <1>1, <3>2 DEF ProcInv, OneStarting
    <3> QED
      BY <3>1, <3>2
  <2>4. main' # NoOne => main' = main /\ main # p /\ proc'[main] = proc[main] /\ main \in Procs
    BY <1>1, <1>3 DEF ProcInv, TypeOK
  <2>5. main' # NoOne => proc'[main'].stage \in Booting \cup Accepting
    BY <2>4 DEF ProcInv, OneStarting, Alive
  <2>6. main' # NoOne /\ proc'[main'].stage = "ready" /\ ~proc'[main'].hup
            => proc'[spawned].stage \notin Rising
    <3>1. proc'[spawned] = proc[spawned] \/ proc'[spawned].stage = "gone"
      BY <1>2 DEF ProcInv, TypeOK
    <3> QED
      BY <2>4, <3>1, StageSets DEF ProcInv, OneStarting, MainReady
  <2> QED
    BY <1>1, <2>1, <2>2, <2>3, <2>5, <2>6 DEF OneStarting, MainReady, Alive
<1>7. LatestServes'
  BY <1>1, <1>2, StageSets DEF ProcInv, LatestServes, TypeOK
<1>8. Exclusive'
  <2>1. \A q \in Procs : Executes(q)' => Executes(q)
    BY <1>2, StageSets DEF Executes
  <2> QED
    BY <1>1, <1>2, <2>1 DEF ProcInv, Exclusive
<1> QED
  BY <1>6, <1>7, <1>8 DEF ProcInv

(* A step that changes neither stage nor operation of any process, nor the   *)
(* unit: a mode, or nothing at all.                                          *)
LEMMA ModeStep ==
    ASSUME ProcInv, TypeOK', UNCHANGED unit,
           \A q \in Procs : /\ proc'[q].stage = proc[q].stage /\ proc'[q].op = proc[q].op
                            /\ proc'[q].hup = proc[q].hup
    PROVE  ProcInv'
<1>1. /\ spawned' = spawned /\ main' = main /\ symlink' = symlink /\ generation' = generation
  BY DEF unit
<1>2. \A q \in Procs : (Alive(q)' <=> Alive(q)) /\ (Executes(q)' <=> Executes(q))
  BY DEF Alive, Executes
<1>3. main # NoOne => main \in Procs
  BY DEF ProcInv, TypeOK
<1>4. spawned \in Procs /\ symlink \in Procs
  BY DEF ProcInv, TypeOK
<1>5. OneStarting'
  <2>1. main # NoOne => proc'[main].stage \in Booting \cup Accepting
    BY <1>3 DEF ProcInv, OneStarting, Alive
  <2> QED
    BY <1>1, <1>2, <1>3, <1>4, <2>1 DEF ProcInv, OneStarting, MainReady, Alive
<1>6. LatestServes'
  BY <1>1, <1>4 DEF ProcInv, LatestServes
<1>7. Exclusive'
  BY <1>1, <1>2 DEF ProcInv, Exclusive
<1> QED
  BY <1>5, <1>6, <1>7 DEF ProcInv

(* A new process: the unit is started, or its main process is reloaded.      *)
LEMMA SpawnStep ==
    ASSUME ProcInv, TypeOK', Spawn, symlink' = symlink, generation' = generation,
           \A q \in Procs : proc[q].stage \notin Rising,
           \A q \in Procs \ {spawned + 1} :
               proc'[q].stage = proc[q].stage /\ proc'[q].op = proc[q].op,
           proc'[spawned + 1].stage = "spawned", proc'[spawned + 1].op = "none",
           \/ main = NoOne /\ main' = spawned + 1
           \/ MainReady /\ main' = main /\ proc'[main].hup
    PROVE  ProcInv'
<1> DEFINE n == spawned + 1
<1>1. n \in Procs /\ spawned' = n /\ spawned \in Procs /\ n # spawned
  BY DEF Spawn, ProcInv, TypeOK, Procs
<1>2. proc[n].stage = "none" /\ proc[n].op = "none"
  <2>1. proc[n].stage = "none"
    BY <1>1 DEF ProcInv, OneStarting, Procs
  <2> QED
    BY <1>1, <2>1, StageSets DEF ProcInv, Exclusive, TypeOK
<1>3. MainReady => main \in Procs /\ main # n
  BY <1>2 DEF MainReady, ProcInv, TypeOK
<1>4. OneStarting'
  <2>1. \A q \in Procs : proc'[q].stage \in Rising => q = n
    OBVIOUS
  <2>2. \A q \in Procs : q > n => proc'[q].stage = "none"
    BY <1>1 DEF ProcInv, OneStarting, Procs
  <2>3. main' # NoOne
    BY UpgradeAssumption, <1>1 DEF MainReady, Procs
  <2>4. proc'[main'].stage \in Booting \cup Accepting
    BY <1>3, StageSets DEF MainReady
  <2>5. proc'[main'].stage = "ready" => proc'[main'].hup
    OBVIOUS
  <2> QED
    BY <1>1, <2>1, <2>2, <2>3, <2>4, <2>5 DEF OneStarting, MainReady, Alive
<1>5. LatestServes'
  <2>1. \A q \in Procs : proc'[q].stage \in Claiming \cup {"bound"} \cup Accepting =>
            q # n /\ proc[q].stage = proc'[q].stage
    BY StageSets
  <2> QED
    BY <2>1 DEF ProcInv, LatestServes, TypeOK
<1>6. Exclusive'
  <2>1. \A q \in Procs : Executes(q)' => Executes(q)
    BY StageSets DEF Executes
  <2> QED
    BY <2>1, <1>2 DEF ProcInv, Exclusive
<1> QED
  BY <1>4, <1>5, <1>6 DEF ProcInv

(* Boot.                                                                     *)
LEMMA BootStep ==
    ASSUME ProcInv, TypeOK', Boot
    PROVE  ProcInv'
<1>1. spawned + 1 \in Procs
  BY DEF Boot, Spawn, ProcInv, TypeOK, Procs
<1>2. proc \in [Procs -> ProcRec]
  BY DEF ProcInv, TypeOK, ProcRec, Stages
<1>3. /\ \A q \in Procs \ {spawned + 1} : proc'[q] = proc[q]
      /\ proc'[spawned + 1].stage = "spawned" /\ proc'[spawned + 1].op = "none"
  <2> DEFINE g == Born(proc, FALSE, NoOne)
  <2>1. /\ \A q \in Procs \ {spawned + 1} : g[q] = proc[q]
        /\ g[spawned + 1].stage = "spawned" /\ g[spawned + 1].op = "none"
    BY <1>1, <1>2 DEF Born, Fresh
  <2>2. proc' = g
    BY DEF Boot
  <2> HIDE DEF g
  <2> QED
    BY <2>1, <2>2
<1>4. \A q \in Procs : proc[q].stage \notin Rising
  BY StageSets DEF Boot, ProcInv, OneStarting, Alive, Rising
<1>5. /\ Spawn /\ symlink' = symlink /\ generation' = generation
      /\ main = NoOne /\ main' = spawned + 1
  BY DEF Boot
<1> QED
  BY <1>3, <1>4, <1>5, SpawnStep

(* A SIGHUP: the first spawns a child, later ones do nothing.                *)
LEMMA HupStep ==
    ASSUME ProcInv, TypeOK', NEW by, Hup(by)
    PROVE  ProcInv'
<1>1. CASE UNCHANGED <<proc, unit>>
  BY <1>1, ModeStep
<1>2. CASE /\ ~proc[main].hup /\ Spawn
           /\ proc' = Born([proc EXCEPT ![main].hup = TRUE], TRUE, by)
           /\ UNCHANGED <<main, symlink, generation>>
  <2>1. MainReady /\ main \in Procs
    BY DEF Hup, MainReady, ProcInv, TypeOK
  <2>2. \A q \in Procs : proc[q].stage \notin Rising
    BY <1>2, <2>1 DEF ProcInv, OneStarting
  <2>3. proc \in [Procs -> ProcRec]
    BY DEF ProcInv, TypeOK, ProcRec, Stages
  <2> DEFINE f == [proc EXCEPT ![main].hup = TRUE]
  <2>4. f \in [Procs -> ProcRec]
    BY <2>3, FieldType
  <2>5. /\ \A q \in Procs : f[q].stage = proc[q].stage /\ f[q].op = proc[q].op
        /\ f[main].hup
    BY <2>1, <2>3 DEF ProcRec
  <2>6. spawned + 1 \in Procs
    BY <1>2 DEF Spawn, ProcInv, TypeOK, Procs
  <2>7. proc' = Born(f, TRUE, by)
    BY <1>2
  <2> HIDE DEF f
  <2>8. /\ \A q \in Procs \ {spawned + 1} : proc'[q] = f[q]
        /\ proc'[spawned + 1].stage = "spawned" /\ proc'[spawned + 1].op = "none"
    <3> DEFINE g == Born(f, TRUE, by)
    <3>1. /\ \A q \in Procs \ {spawned + 1} : g[q] = f[q]
          /\ g[spawned + 1].stage = "spawned" /\ g[spawned + 1].op = "none"
      BY <2>4, <2>6 DEF Born, Fresh
    <3>2. proc' = g
      BY <2>7
    <3> HIDE DEF g
    <3> QED
      BY <3>1, <3>2
  <2>9. proc[spawned + 1].stage = "none"
    <3>1. spawned \in Nat /\ spawned + 1 > spawned
      BY DEF ProcInv, TypeOK, Procs
    <3> QED
      BY <2>6, <3>1 DEF ProcInv, OneStarting
  <2>10. main # spawned + 1
    BY <2>1, <2>9 DEF MainReady
  <2> QED
    BY <1>2, <2>1, <2>2, <2>5, <2>8, <2>10, SpawnStep
<1> QED
  BY <1>1, <1>2 DEF Hup

(* A restart of the unit.                                                    *)
LEMMA StopStep ==
    ASSUME ProcInv, TypeOK', RestartUnit
    PROVE  ProcInv'
<1>1. CASE UNCHANGED <<proc, unit>>
  BY <1>1, ModeStep
<1>2. CASE main # NoOne /\ proc[main].stage \in Booting /\ Gone(main)
  BY <1>2, GoneStep DEF ProcInv, TypeOK, Alive
<1>3. CASE main # NoOne /\ proc[main].stage \in Accepting
           /\ proc' = [proc EXCEPT ![main].stage = "stopping"] /\ UNCHANGED unit
  <2>1. main \in Procs
    BY <1>3 DEF ProcInv, TypeOK
  <2>2. /\ spawned' = spawned /\ main' = main /\ symlink' = symlink /\ generation' = generation
    BY <1>3 DEF unit
  <2>3. /\ proc'[main].stage = "stopping" /\ proc'[main].op = proc[main].op
        /\ \A q \in Procs \ {main} : proc'[q] = proc[q]
    BY <1>3, <2>1 DEF ProcInv, TypeOK
  <2>4. OneStarting'
    BY <1>3, <2>1, <2>2, <2>3, StageSets DEF ProcInv, OneStarting, MainReady, Alive
  <2>5. LatestServes'
    BY <1>3, <2>1, <2>2, <2>3, StageSets DEF ProcInv, LatestServes, TypeOK
  <2>6. Exclusive'
    <3>1. \A q \in Procs : Executes(q)' => Executes(q)
      BY <2>3, StageSets DEF Executes
    <3> QED
      BY <2>2, <2>3, <3>1, StageSets DEF ProcInv, Exclusive
  <2> QED
    BY <2>4, <2>5, <2>6 DEF ProcInv
<1> QED
  BY <1>1, <1>2, <1>3 DEF RestartUnit

(* The management socket is taken over.                                      *)
LEMMA BindStep ==
    ASSUME ProcInv, TypeOK', NEW p \in Procs, Bind(p)
    PROVE  ProcInv'
<1>1. /\ spawned' = spawned /\ main' = main /\ symlink' = p /\ generation' = generation
      /\ proc[p].stage = "spawned"
  BY DEF Bind
<1>2. /\ proc'[p].stage = "bound" /\ proc'[p].op = proc[p].op /\ proc'[p].hup = proc[p].hup
      /\ \A q \in Procs \ {p} : proc'[q] = proc[q]
  BY DEF Bind, ProcInv, TypeOK
<1>3. p = spawned /\ \A q \in Procs : proc[q].stage \in Rising => q = p
  BY <1>1, StageSets DEF ProcInv, OneStarting
<1>4. \A q \in Procs : (Alive(q)' <=> Alive(q))
  BY <1>1, <1>2, StageSets DEF Alive
<1>5. main = NoOne \/ main \in Procs
  BY DEF ProcInv, TypeOK
<1>6. OneStarting'
  <2>1. main # NoOne => proc'[main].stage \in Booting \cup Accepting
    BY <1>1, <1>2, <1>5, StageSets DEF ProcInv, OneStarting, Alive
  <2>2. main # NoOne /\ proc'[main].stage = "ready" => proc'[main].hup
    <3>1. main # NoOne /\ proc'[main].stage = "ready" => main # p /\ proc[main].stage = "ready"
                                                       /\ proc'[main].hup = proc[main].hup
      BY <1>2, <1>5
    <3>2. proc[spawned].stage \in Rising
      BY <1>1, <1>3, StageSets
    <3> QED
      BY <3>1, <3>2 DEF ProcInv, OneStarting, MainReady
  <2>3. \A q \in Procs : proc'[q].stage \in Rising => q = spawned
    BY <1>2, <1>3
  <2>4. \A q \in Procs : q > spawned => proc'[q].stage = "none"
    BY <1>1, <1>2, StageSets DEF ProcInv, OneStarting
  <2> QED
    BY <1>1, <1>4, <2>1, <2>2, <2>3, <2>4 DEF ProcInv, OneStarting, MainReady, Alive
<1>7. LatestServes'
  BY <1>1, <1>2, <1>3, StageSets DEF ProcInv, LatestServes, Rising
<1>8. Exclusive'
  <2>1. \A q \in Procs : Executes(q)' => Executes(q)
    BY <1>2, StageSets DEF Executes
  <2>2. proc[p].op = "none"
    BY <1>1, StageSets DEF ProcInv, Exclusive, TypeOK
  <2> QED
    BY <1>1, <1>2, <2>1, <2>2 DEF ProcInv, Exclusive
<1> QED
  BY <1>6, <1>7, <1>8 DEF ProcInv

(* The handoff is claimed: no operation runs and nobody restores.            *)
LEMMA ClaimStep ==
    ASSUME ProcInv, TypeOK', NEW p \in Procs, Claim(p)
    PROVE  ProcInv'
<1>1. /\ spawned' = spawned /\ main' = main /\ symlink' = symlink /\ generation' = p
      /\ proc[p].stage = "bound"
      /\ \A q \in Procs : proc[q].op = "none" /\ proc[q].stage \notin Claiming
  BY DEF Claim
<1>2. /\ proc'[p].stage = "claimed" /\ proc'[p].op = proc[p].op /\ proc'[p].hup = proc[p].hup
      /\ \A q \in Procs \ {p} : proc'[q] = proc[q]
  BY DEF Claim, ProcInv, TypeOK
<1>a. "claimed" \in Claiming /\ "claimed" \in Booting /\ "claimed" \in Rising
      /\ "claimed" \notin Accepting /\ "claimed" # "bound"
  BY DEF Claiming, Booting, Rising, Accepting
<1>3. p = spawned /\ symlink = p /\ \A q \in Procs : proc[q].stage \in Rising => q = p
  BY <1>1, StageSets DEF ProcInv, OneStarting, LatestServes
<1>4. \A q \in Procs : (Alive(q)' <=> Alive(q))
  BY <1>1, <1>2, <1>a, StageSets DEF Alive
<1>5. main = NoOne \/ main \in Procs
  BY DEF ProcInv, TypeOK
<1>6. OneStarting'
  <2>1. main # NoOne => proc'[main].stage \in Booting \cup Accepting
    BY <1>1, <1>2, <1>5, <1>a DEF ProcInv, OneStarting, Alive
  <2>2. main # NoOne /\ proc'[main].stage = "ready" => proc'[main].hup
    <3>1. main # NoOne /\ proc'[main].stage = "ready" => main # p /\ proc[main].stage = "ready"
                                                       /\ proc'[main].hup = proc[main].hup
      BY <1>2, <1>5
    <3>2. proc[spawned].stage \in Rising
      BY <1>1, <1>3, StageSets
    <3> QED
      BY <3>1, <3>2 DEF ProcInv, OneStarting, MainReady
  <2>3. \A q \in Procs : proc'[q].stage \in Rising => q = spawned
    BY <1>2, <1>3
  <2>4. \A q \in Procs : q > spawned => proc'[q].stage = "none"
    BY <1>1, <1>2, StageSets DEF ProcInv, OneStarting
  <2> QED
    BY <1>1, <1>4, <2>1, <2>2, <2>3, <2>4 DEF ProcInv, OneStarting, MainReady, Alive
<1>7. LatestServes'
  BY <1>1, <1>2, <1>3, <1>a, StageSets DEF ProcInv, LatestServes, Rising
<1>8. Exclusive'
  <2>1. \A q \in Procs : proc'[q].op = "none" /\ (Executes(q)' => q = p)
    BY <1>1, <1>2 DEF Executes
  <2> QED
    BY <2>1 DEF Exclusive
<1> QED
  BY <1>6, <1>7, <1>8 DEF ProcInv

(* The process on its way up is ready; the one it replaces is told to stop.  *)
LEMMA ReadyStep ==
    ASSUME ProcInv, TypeOK', NEW p \in Procs, Ready(p)
    PROVE  ProcInv'
<1>1. /\ spawned' = spawned /\ symlink' = symlink /\ generation' = generation
      /\ proc[p].stage = "serving"
      /\ main' = IF main # p /\ proc[main].stage = "stopping" THEN main ELSE p
  BY DEF Ready
<1>2. main \in Procs /\ main # NoOne
  BY <1>1, StageSets DEF ProcInv, OneStarting, TypeOK, Alive
<1>3. p = spawned /\ \A q \in Procs : proc[q].stage \in Rising => q = p
  BY <1>1, StageSets DEF ProcInv, OneStarting
<1>4. \A q \in Procs : /\ q = p => proc'[q].stage = "ready"
                       /\ q # p /\ q # main => proc'[q].stage = proc[q].stage
                       /\ q # p /\ q = main => proc'[q].stage \in {proc[q].stage, "stopping"}
                       /\ proc'[q].op = proc[q].op
  BY DEF Ready, ProcInv, TypeOK
<1>5. main # p => proc[main].stage \in Accepting
  <2>1. main # p => proc[main].stage \notin Booting
    BY <1>2, <1>3 DEF Rising
  <2> QED
    BY <1>2, <2>1 DEF ProcInv, OneStarting, Alive
<1>6. \A q \in Procs : proc'[q].stage \notin Rising
  BY <1>3, <1>4, StageSets
<1>7. \A q \in Procs : \/ proc'[q].stage = proc[q].stage
                       \/ proc[q].stage \in Accepting /\ proc'[q].stage \in Accepting
  BY <1>1, <1>4, <1>5, StageSets
<1>8. OneStarting'
  <2>1. \A q \in Procs : q > spawned => proc'[q].stage = "none"
    BY <1>7, StageSets DEF ProcInv, OneStarting
  <2>2. main' \in Procs /\ main' # NoOne
    BY <1>1, <1>2, UpgradeAssumption DEF Procs
  <2>3. proc'[main'].stage \in Booting \cup Accepting
    BY <1>1, <1>2, <1>4, <1>5, StageSets
  <2>4. proc'[spawned].stage \notin Rising
    BY <1>3, <1>6
  <2> QED
    BY <1>1, <1>6, <2>1, <2>2, <2>3, <2>4 DEF OneStarting, MainReady, Alive
<1>9. LatestServes'
  <2>1. symlink \in Procs
    BY DEF ProcInv, TypeOK
  <2> QED
    BY <1>1, <1>7, <2>1, StageSets DEF ProcInv, LatestServes
<1>10. Exclusive'
  <2>1. \A q \in Procs : Executes(q)' => Executes(q)
    BY <1>4, <1>7, StageSets DEF Executes
  <2> QED
    BY <1>1, <1>4, <1>7, <2>1 DEF ProcInv, Exclusive
<1> QED
  BY <1>8, <1>9, <1>10 DEF ProcInv

(* An operation is admitted, or ends.                                        *)
LEMMA OperationStep ==
    ASSUME ProcInv, TypeOK', NEW p \in Procs, Execute(p) \/ ExecuteUnlisted(p) \/ Finish(p)
    PROVE  ProcInv'
<1>1. /\ spawned' = spawned /\ main' = main /\ symlink' = symlink /\ generation' = generation
  BY DEF Execute, ExecuteUnlisted, Finish, unit
<1>2. /\ \A q \in Procs : proc'[q].stage = proc[q].stage /\ proc'[q].hup = proc[q].hup
      /\ \A q \in Procs \ {p} : proc'[q].op = proc[q].op
  BY DEF Execute, ExecuteUnlisted, Finish, ProcInv, TypeOK
<1>3. spawned \in Procs /\ symlink \in Procs /\ main \in Procs \cup {NoOne}
  BY DEF ProcInv, TypeOK
<1>4. OneStarting'
  <2>1. main # NoOne => proc'[main].stage \in Booting \cup Accepting
    BY <1>2, <1>3 DEF ProcInv, OneStarting, Alive
  <2> QED
    BY <1>1, <1>2, <1>3, <2>1 DEF ProcInv, OneStarting, MainReady, Alive
<1>5. LatestServes'
  BY <1>1, <1>2, <1>3 DEF ProcInv, LatestServes
<1>6. Exclusive'
  <2>1. CASE Execute(p) \/ ExecuteUnlisted(p)
    <3>1. /\ generation = p /\ proc[p].stage \in Accepting
          /\ \A q \in Procs : proc[q].stage \notin Claiming
      BY <2>1 DEF Execute, ExecuteUnlisted, Admitted
    <3>2. \A q \in Procs : proc'[q].op # "none" => q = p
      BY <1>2, <3>1 DEF ProcInv, Exclusive
    <3> QED
      BY <1>1, <1>2, <3>1, <3>2 DEF Exclusive, Executes
  <2>2. CASE Finish(p)
    <3>1. proc'[p].op = "none"
      BY <2>2 DEF Finish, ProcInv, TypeOK
    <3>2. \A q \in Procs : Executes(q)' => Executes(q)
      BY <1>2, <3>1 DEF Executes
    <3> QED
      BY <1>1, <1>2, <3>1, <3>2 DEF ProcInv, Exclusive
  <2> QED
    BY <2>1, <2>2
<1> QED
  BY <1>4, <1>5, <1>6 DEF ProcInv

(* The steps of a process that restores the state are such steps, or its end. *)
LEMMA RestoreStep ==
    ASSUME ProcInv, TypeOK', NEW p \in Procs,
           \/ TakeMarker(p) \/ ReadMode(p) \/ ReadOwner(p) \/ ClearMode(p) \/ ClearLock(p)
           \/ Publish(p)
    PROVE  ProcInv'
<1>1. proc[p].stage \in Claiming
  BY DEF TakeMarker, ReadMode, ReadOwner, ClearMode, ClearLock, Publish, Claiming
<1>2. CASE ReadOwner(p) /\ Gone(p)
  BY <1>1, <1>2, GoneStep DEF Alive, Booting
<1>3. CASE ~Gone(p)
  <2>1. UNCHANGED unit
    BY <1>3 DEF TakeMarker, ReadMode, ReadOwner, ClearMode, ClearLock, Publish
  <2>2. proc[p] \in ProcRec /\ proc \in [Procs -> ProcRec]
    BY DEF ProcInv, TypeOK, ProcRec, Stages
  <2>3. \A q \in Procs \ {p} : proc'[q] = proc[q]
    BY <1>3, <2>2 DEF TakeMarker, ReadMode, ReadOwner, ClearMode, ClearLock, Publish
  <2>4. /\ proc'[p].stage \in Claiming \cup {"serving"}
        /\ proc'[p].op = proc[p].op /\ proc'[p].hup = proc[p].hup
    <3>1. CASE TakeMarker(p)
      BY <2>2, <3>1 DEF TakeMarker, ProcRec, Claiming
    <3>2. CASE ReadMode(p)
      BY <2>2, <3>2 DEF ReadMode, ProcRec, Claiming
    <3>3. CASE ReadOwner(p)
      BY <1>3, <2>2, <3>3 DEF ReadOwner, ProcRec, Claiming
    <3>4. CASE ClearMode(p)
      BY <2>2, <3>4 DEF ClearMode, ProcRec, Claiming
    <3>5. CASE ClearLock(p)
      BY <2>2, <3>5 DEF ClearLock, ProcRec, Claiming
    <3>6. CASE Publish(p)
      BY <2>2, <3>6 DEF Publish, ProcRec, Claiming
    <3> QED
      BY <3>1, <3>2, <3>3, <3>4, <3>5, <3>6
  <2> QED
    BY <1>1, <2>1, <2>3, <2>4, RestoringStep
<1>4. CASE Gone(p) /\ ~ReadOwner(p)
  <2>2. proc[p] \in ProcRec /\ proc \in [Procs -> ProcRec]
    BY DEF ProcInv, TypeOK, ProcRec, Stages
  <2>3. proc'[p].stage = "gone"
    BY <1>4 DEF Gone, Ends, Fresh
  <2>4. proc'[p].stage # "gone"
    BY <1>4, <2>2 DEF TakeMarker, ReadMode, ClearMode, ClearLock, Publish, ProcRec
  <2> QED
    BY <2>3, <2>4
<1> QED
  BY <1>2, <1>3, <1>4

(* A controller reaches the processes by a reload, a restart, or the mode of *)
(* the process that handles its command; otherwise it leaves them alone.     *)
LEMMA ControllerFrame ==
    ASSUME ProcInv, NEW c \in Controllers,
           Controller(c) \/ SshFails(c) \/ ExitFails(c) \/ AnswerLost(c) \/ Killed(c)
    PROVE  \/ UNCHANGED <<proc, unit>>
           \/ Hup(c) \/ RestartUnit
           \/ /\ EnterMode(c) \/ ExitMode(c) \/ UndoMode(c)
              /\ UNCHANGED unit
              /\ \A q \in Procs : /\ proc'[q].stage = proc[q].stage /\ proc'[q].op = proc[q].op
                                  /\ proc'[q].hup = proc[q].hup
                                  /\ q # ctl[c].via => proc'[q] = proc[q]
<1>1. CASE EnterMode(c) \/ ExitMode(c) \/ UndoMode(c)
  <2>1. \E m \in {"normal", "upgrading"} : proc' = [proc EXCEPT ![ctl[c].via].mode = m]
    BY <1>1 DEF EnterMode, ExitMode, UndoMode, Normal
  <2>2. UNCHANGED unit
    BY <1>1 DEF EnterMode, ExitMode, UndoMode
  <2>3. proc \in [Procs -> ProcRec]
    BY DEF ProcInv, TypeOK, ProcRec, Stages
  <2>4. \A q \in Procs : /\ proc'[q].stage = proc[q].stage /\ proc'[q].op = proc[q].op
                         /\ proc'[q].hup = proc[q].hup
                         /\ q # ctl[c].via => proc'[q] = proc[q]
    BY <2>1, <2>3 DEF ProcRec
  <2> QED
    BY <1>1, <2>2, <2>4
<1>2. CASE Reload(c) \/ Restart(c)
  BY <1>2 DEF Reload, Restart
<1>3. CASE /\ ~EnterMode(c) /\ ~ExitMode(c) /\ ~UndoMode(c) /\ ~Reload(c) /\ ~Restart(c)
  BY <1>3 DEF Controller, SshFails, ExitFails, AnswerLost, Killed, CheckVersion, Send, NoAnswer,
              EnterLock,
              EnterRefused, Info, Install, Compare, WaitReady, WaitTimesOut, Recheck, ExitLock,
              ExitRefused, Cleanup, Restore, Restarted, UndoLock, Unmark
<1> QED
  BY <1>1, <1>2, <1>3

(* The invariant of the processes is inductive.                              *)
LEMMA ProcStep == ProcInv /\ [Next]_vars => ProcInv'
<1> SUFFICES ASSUME ProcInv, [Next]_vars PROVE ProcInv'
  OBVIOUS
<1>a. TypeOK'
  BY TypeStep DEF ProcInv
<1>1. CASE Boot
  BY <1>1, <1>a, BootStep
<1>2. ASSUME NEW p \in Procs, Startup(p)
      PROVE  ProcInv'
  <2>1. CASE Bind(p) \/ Claim(p) \/ Ready(p)
    BY <1>a, <2>1, BindStep, ClaimStep, ReadyStep
  <2>2. CASE ClaimTimesOut(p) \/ Stopped(p)
    <3>1. Alive(p) /\ Gone(p)
      BY <2>2, StageSets DEF ClaimTimesOut, Stopped, Alive
    <3> QED
      BY <1>a, <3>1, GoneStep
  <2>3. CASE \/ TakeMarker(p) \/ ReadMode(p) \/ ReadOwner(p) \/ ClearMode(p) \/ ClearLock(p)
             \/ Publish(p)
    BY <1>a, <2>3, RestoreStep
  <2> QED
    BY <1>2, <2>1, <2>2, <2>3 DEF Startup
<1>3. ASSUME NEW p \in Procs, Execute(p) \/ ExecuteUnlisted(p) \/ Finish(p)
      PROVE  ProcInv'
  BY <1>3, <1>a, OperationStep
<1>4. ASSUME NEW p \in Procs, Crash(p)
      PROVE  ProcInv'
  BY <1>4, <1>a, GoneStep DEF Crash
<1>5. ASSUME NEW c \in Controllers,
             Controller(c) \/ SshFails(c) \/ ExitFails(c) \/ AnswerLost(c) \/ Killed(c)
      PROVE  ProcInv'
  <2>1. CASE UNCHANGED <<proc, unit>>
    BY <1>a, <2>1, ModeStep
  <2>2. CASE Hup(c) \/ RestartUnit
    BY <1>a, <2>2, HupStep, StopStep
  <2>3. CASE /\ UNCHANGED unit
             /\ \A q \in Procs : /\ proc'[q].stage = proc[q].stage /\ proc'[q].op = proc[q].op
                                 /\ proc'[q].hup = proc[q].hup
    BY <1>a, <2>3, ModeStep
  <2> QED
    BY <1>5, <2>1, <2>2, <2>3, ControllerFrame
<1>6. CASE OperatorReload
  BY <1>6, <1>a, HupStep, StopStep DEF OperatorReload
<1>7. CASE GrowStale \/ UNCHANGED vars
  BY <1>7, <1>a, ModeStep DEF GrowStale, vars
<1> QED
  BY <1>1, <1>2, <1>3, <1>4, <1>5, <1>6, <1>7 DEF Next

(* It holds when the server is seen in normal operation.                     *)
LEMMA ProcInit == Init => ProcInv
<1> SUFFICES ASSUME Init PROVE ProcInv
  OBVIOUS
<1>1. 1 \in Procs /\ NoOne \notin Procs
  BY UpgradeAssumption DEF Procs
<1>2. /\ proc[1].stage = "ready" /\ proc[1].op = "none"
      /\ \A p \in Procs \ {1} : proc[p].stage = "none" /\ proc[p].op = "none"
  BY <1>1 DEF Init, Fresh
<1>3. spawned = 1 /\ main = 1 /\ symlink = 1 /\ generation = 1
  BY DEF Init
<1>4. OneStarting
  BY <1>1, <1>2, <1>3, StageSets DEF OneStarting, MainReady, Alive, Procs
<1>5. LatestServes
  BY <1>2, <1>3, StageSets DEF LatestServes
<1>6. Exclusive
  BY <1>2, StageSets DEF Exclusive, Executes
<1> QED
  BY <1>4, <1>5, <1>6, TypeInit DEF ProcInv

(* The invariant of the processes holds.                                     *)
THEOREM ProcessInvariance == Spec => []ProcInv
  BY ProcInit, ProcStep, PTL DEF Spec

(* Never do two processes restore the state or execute operations at a time, *)
(* whatever reloads, restarts and crashes happen during a handoff.           *)
THEOREM SingleExecutor == Spec => []OneExecutor
<1>1. ProcInv => OneExecutor
  <2> SUFFICES ASSUME ProcInv PROVE OneExecutor
    OBVIOUS
  <2> DEFINE E == {p \in Procs : proc[p].stage \in Claiming \/ proc[p].op # "none"}
  <2>1. \A p, q \in E : p = q
    BY DEF ProcInv, Exclusive, Executes
  <2>2. CASE E = {}
    BY <2>2, FS_EmptySet DEF OneExecutor
  <2>3. CASE E # {}
    <3>1. PICK p \in E : TRUE
      BY <2>3
    <3>2. E = {p}
      BY <2>1, <3>1
    <3>3. Cardinality({p}) = 1
      BY FS_Singleton
    <3>4. Cardinality(E) = 1
      BY <3>2, <3>3
    <3> QED
      BY <3>4 DEF OneExecutor
  <2> QED
    BY <2>2, <2>3
<1> QED
  BY <1>1, ProcessInvariance, PTL
-----------------------------------------------------------------------------
(* The controllers.                                                          *)
Pcs == {"start", "enter", "locked", "info", "install", "compare", "reload", "wait", "recheck",
        "exit", "unchanged", "released", "cleanup", "restore", "restart", "restarting",
        "undo", "undone", "unmark", "done", "dead"}

CtlRec == [pc : Pcs, via : Procs \cup {NoOne}, pid : Procs \cup {NoOne}, entered : BOOLEAN,
           direct : BOOLEAN, replaced : BOOLEAN, handoff : BOOLEAN,
           outcome : {"none", "upgraded", "already", "rollback failed", "rolled back", "failed"}]

CtlType == ctl \in [Controllers -> CtlRec]

(* Writing one field of one controller.                                      *)
LEMMA CtlField ==
    ASSUME NEW f \in [Controllers -> CtlRec], NEW c \in Controllers
    PROVE  /\ \A x \in Pcs : [f EXCEPT ![c].pc = x] \in [Controllers -> CtlRec]
           /\ \A x \in Procs \cup {NoOne} : /\ [f EXCEPT ![c].via = x] \in [Controllers -> CtlRec]
                                            /\ [f EXCEPT ![c].pid = x] \in [Controllers -> CtlRec]
           /\ \A x \in BOOLEAN : /\ [f EXCEPT ![c].entered = x] \in [Controllers -> CtlRec]
                                 /\ [f EXCEPT ![c].direct = x] \in [Controllers -> CtlRec]
                                 /\ [f EXCEPT ![c].replaced = x] \in [Controllers -> CtlRec]
                                 /\ [f EXCEPT ![c].handoff = x] \in [Controllers -> CtlRec]
           /\ \A x \in {"none", "upgraded", "already", "rollback failed", "rolled back", "failed"} :
                 [f EXCEPT ![c].outcome = x] \in [Controllers -> CtlRec]
<1>1. f[c] \in CtlRec
  OBVIOUS
<1>2. ASSUME NEW r \in CtlRec PROVE [f EXCEPT ![c] = r] \in [Controllers -> CtlRec]
  OBVIOUS
<1>3. /\ \A x \in Pcs : [f[c] EXCEPT !.pc = x] \in CtlRec
      /\ \A x \in Procs \cup {NoOne} : /\ [f[c] EXCEPT !.via = x] \in CtlRec
                                       /\ [f[c] EXCEPT !.pid = x] \in CtlRec
      /\ \A x \in BOOLEAN : /\ [f[c] EXCEPT !.entered = x] \in CtlRec
                            /\ [f[c] EXCEPT !.direct = x] \in CtlRec
                            /\ [f[c] EXCEPT !.replaced = x] \in CtlRec
                            /\ [f[c] EXCEPT !.handoff = x] \in CtlRec
      /\ \A x \in {"none", "upgraded", "already", "rollback failed", "rolled back", "failed"} :
            [f[c] EXCEPT !.outcome = x] \in CtlRec
  BY <1>1 DEF CtlRec
<1> QED
  BY <1>2, <1>3

(* A command is between its two statements in the process that handles it.   *)
Between == {"locked", "released", "undone"}

(* What the steps of a controller outside the database commands leave of it: *)
(* it is not in a command, it has not yet entered when it is about to, and   *)
(* it is behind the fence only if it was.                                    *)
Quieter(c) ==
    /\ ctl'[c].pc \notin Between \cup {"cleanup"}
    /\ ctl'[c].pc \in {"start", "enter"} => ~ctl'[c].entered
    /\ ctl'[c].entered /\ ctl'[c].direct =>
          (ctl[c].entered /\ ctl[c].direct) \/ ctl[c].pc = "cleanup"

PlainStep(c) ==
    \/ CheckVersion(c) \/ Send(c) \/ NoAnswer(c) \/ EnterRefused(c) \/ Info(c) \/ Install(c)
    \/ Compare(c) \/ Reload(c) \/ WaitReady(c) \/ WaitTimesOut(c) \/ Recheck(c)
    \/ ExitRefused(c) \/ Cleanup(c) \/ Restore(c) \/ Restart(c) \/ Restarted(c) \/ Unmark(c)
    \/ SshFails(c) \/ ExitFails(c) \/ AnswerLost(c) \/ Killed(c)

(* Such a step writes the record of its own controller, and no lock.         *)
LEMMA PlainFrame ==
    ASSUME TypeOK, CtlType, NEW c \in Controllers, PlainStep(c),
           ctl[c].pc \in {"start", "enter"} => ~ctl[c].entered
    PROVE  /\ CtlType' /\ upgrade_lock' = upgrade_lock
           /\ \A d \in Controllers \ {c} : ctl'[d] = ctl[d]
           /\ Quieter(c)
<1>a. ctl[c] \in CtlRec /\ symlink \in Procs
  BY DEF CtlType, TypeOK
<1>b. ASSUME ctl'[c] \in CtlRec, ctl' = [ctl EXCEPT ![c] = ctl'[c]]
      PROVE  CtlType' /\ \A d \in Controllers \ {c} : ctl'[d] = ctl[d]
  BY <1>b DEF CtlType
<1>c. Fails(c) => ctl'[c] \in CtlRec /\ Quieter(c)
  <2>1. ASSUME Fails(c)
        PROVE  ctl'[c] = [ctl[c] EXCEPT !.pc = Failed(ctl[c]), !.via = NoOne]
    BY <2>1 DEF Fails, CtlType, CtlRec
  <2>2. Failed(ctl[c]) \in {"restore", "undo", "unmark"}
    BY DEF Failed
  <2> QED
    BY <1>a, <2>1, <2>2 DEF CtlRec, Pcs, Quieter, Between
<1>d. RollbackFails(c) => ctl'[c] \in CtlRec /\ Quieter(c)
  <2>1. ASSUME RollbackFails(c)
        PROVE  \E x \in {"undo", "unmark"} :
                  ctl'[c] = [ctl[c] EXCEPT !.pc = x, !.outcome = "rollback failed"]
    BY <2>1 DEF RollbackFails, CtlType, CtlRec
  <2> QED
    BY ZenonT(40), <1>a, <2>1 DEF CtlRec, Pcs, Quieter, Between
<1>e. \A x \in {"unchanged", "wait", "exit", "restart", "unmark", "restore", "undo"} :
          Goto(c, x) => ctl'[c] \in CtlRec /\ Quieter(c)
  <2> SUFFICES ASSUME NEW x \in {"unchanged", "wait", "exit", "restart", "unmark", "restore", "undo"},
                      Goto(c, x)
               PROVE  ctl'[c] \in CtlRec /\ Quieter(c)
    OBVIOUS
  <2>1. ctl'[c] = [ctl[c] EXCEPT !.pc = x]
    BY DEF Goto, CtlType, CtlRec
  <2> QED
    BY <1>a, <2>1 DEF CtlRec, Pcs, Quieter, Between
<1>f. Report(c) => ctl'[c] \in CtlRec /\ Quieter(c)
  <2>1. ASSUME Report(c)
        PROVE  \E x \in {"upgraded", "already", "rollback failed", "rolled back", "failed"} :
                  ctl'[c] = [ctl[c] EXCEPT !.pc = "done", !.pid = NoOne, !.handoff = FALSE,
                                           !.outcome = x]
    <3> DEFINE x == IF ctl[c].outcome = "none" THEN "failed" ELSE ctl[c].outcome
    <3>1. ctl'[c] = [ctl[c] EXCEPT !.pc = "done", !.pid = NoOne, !.handoff = FALSE,
                                   !.outcome = x]
      BY <2>1 DEF Report, CtlType, CtlRec
    <3>2. x \in {"upgraded", "already", "rollback failed", "rolled back", "failed"}
      BY <1>a DEF CtlRec
    <3> QED
      BY <3>1, <3>2
  <2> QED
    BY ZenonT(40), <1>a, <2>1 DEF CtlRec, Pcs, Quieter, Between
<1>1. CASE CheckVersion(c)
  <2>1. ctl' = [ctl EXCEPT ![c] = ctl'[c]] /\ upgrade_lock' = upgrade_lock
    BY <1>1 DEF CheckVersion, CtlType, CtlRec, db
  <2>2. ctl'[c] \in CtlRec /\ Quieter(c)
    BY <1>1, <1>a DEF CheckVersion, CtlType, CtlRec, Pcs, Quieter, Between
  <2> QED
    BY <1>b, <2>1, <2>2
<1>2. CASE Send(c)
  <2>1. ctl' = [ctl EXCEPT ![c] = ctl'[c]] /\ upgrade_lock' = upgrade_lock
    BY <1>2 DEF Send, CtlType, CtlRec, db
  <2>2. ctl'[c] \in CtlRec /\ Quieter(c)
    BY <1>2, <1>a DEF Send, CtlType, CtlRec, Pcs, Quieter, Between
  <2> QED
    BY <1>b, <2>1, <2>2
<1>3. CASE NoAnswer(c)
  <2>1. ctl' = [ctl EXCEPT ![c] = ctl'[c]] /\ upgrade_lock' = upgrade_lock
    BY <1>3 DEF NoAnswer, Fails, Failed, CtlType, CtlRec, db
  <2>2. ctl'[c] \in CtlRec /\ Quieter(c)
    <3>1. CASE ctl' = [ctl EXCEPT ![c].pc = "unmark", ![c].via = NoOne]
      BY ZenonT(40), <1>a, <3>1 DEF CtlType, CtlRec, Pcs, Quieter, Between
    <3> QED
      BY <1>3, <1>c, <3>1 DEF NoAnswer
  <2> QED
    BY <1>b, <2>1, <2>2
<1>4. CASE EnterRefused(c)
  <2>1. ctl' = [ctl EXCEPT ![c] = ctl'[c]] /\ upgrade_lock' = upgrade_lock
    BY <1>4 DEF EnterRefused, Handles, Fails, Failed, CtlType, CtlRec, db
  <2>2. ctl'[c] \in CtlRec /\ Quieter(c)
    BY <1>4, <1>a DEF EnterRefused, Handles, Fails, Failed, CtlType, CtlRec, Pcs, Quieter, Between
  <2> QED
    BY <1>b, <2>1, <2>2
<1>5. CASE Info(c)
  <2>1. ctl' = [ctl EXCEPT ![c] = ctl'[c]] /\ upgrade_lock' = upgrade_lock
    BY <1>5 DEF Info, CtlType, CtlRec, db
  <2>2. ctl'[c] \in CtlRec /\ Quieter(c)
    BY <1>5, <1>a DEF Info, CtlType, CtlRec, Pcs, Quieter, Between
  <2> QED
    BY <1>b, <2>1, <2>2
<1>6. CASE Install(c)
  <2>1. ctl' = [ctl EXCEPT ![c] = ctl'[c]] /\ upgrade_lock' = upgrade_lock
    BY <1>6 DEF Install, CtlType, CtlRec, db
  <2>2. ctl'[c] \in CtlRec /\ Quieter(c)
    BY <1>6, <1>a DEF Install, CtlType, CtlRec, Pcs, Quieter, Between
  <2> QED
    BY <1>b, <2>1, <2>2
<1>7. CASE Compare(c)
  <2>1. ctl' = [ctl EXCEPT ![c] = ctl'[c]] /\ upgrade_lock' = upgrade_lock
    BY <1>7 DEF Compare, Goto, Fails, Failed, CtlType, CtlRec, db
  <2>2. ctl'[c] \in CtlRec /\ Quieter(c)
    <3>1. CASE ctl' = [ctl EXCEPT ![c].pc = "reload", ![c].handoff = TRUE]
      BY ZenonT(40), <1>a, <3>1 DEF CtlType, CtlRec, Pcs, Quieter, Between
    <3> QED
      BY <1>7, <1>c, <1>e, <3>1 DEF Compare
  <2> QED
    BY <1>b, <2>1, <2>2
<1>8. CASE Reload(c)
  <2>1. ctl' = [ctl EXCEPT ![c] = ctl'[c]] /\ upgrade_lock' = upgrade_lock
    BY <1>8 DEF Reload, Goto, Fails, Failed, CtlType, CtlRec, db
  <2>2. ctl'[c] \in CtlRec /\ Quieter(c)
    BY <1>8, <1>c, <1>e DEF Reload
  <2> QED
    BY <1>b, <2>1, <2>2
<1>9. CASE WaitReady(c)
  <2>1. ctl' = [ctl EXCEPT ![c] = ctl'[c]] /\ upgrade_lock' = upgrade_lock
    BY <1>9 DEF WaitReady, CtlType, CtlRec, db
  <2>2. ctl'[c] \in CtlRec /\ Quieter(c)
    BY <1>9, <1>a DEF WaitReady, CtlType, CtlRec, Pcs, Quieter, Between
  <2> QED
    BY <1>b, <2>1, <2>2
<1>10. CASE WaitTimesOut(c)
  <2>1. ctl' = [ctl EXCEPT ![c] = ctl'[c]] /\ upgrade_lock' = upgrade_lock
    BY <1>10 DEF WaitTimesOut, Fails, Failed, CtlType, CtlRec, db
  <2>2. ctl'[c] \in CtlRec /\ Quieter(c)
    BY <1>10, <1>a DEF WaitTimesOut, Fails, Failed, CtlType, CtlRec, Pcs, Quieter, Between
  <2> QED
    BY <1>b, <2>1, <2>2
<1>11. CASE Recheck(c)
  <2>1. ctl' = [ctl EXCEPT ![c] = ctl'[c]] /\ upgrade_lock' = upgrade_lock
    BY <1>11 DEF Recheck, Goto, Fails, Failed, CtlType, CtlRec, db
  <2>2. ctl'[c] \in CtlRec /\ Quieter(c)
    BY <1>11, <1>c, <1>e DEF Recheck
  <2> QED
    BY <1>b, <2>1, <2>2
<1>12. CASE ExitRefused(c)
  <2>1. ctl' = [ctl EXCEPT ![c] = ctl'[c]] /\ upgrade_lock' = upgrade_lock
    BY <1>12 DEF ExitRefused, Handles, Fails, Failed, CtlType, CtlRec, db
  <2>2. ctl'[c] \in CtlRec /\ Quieter(c)
    BY <1>12, <1>a DEF ExitRefused, Handles, Fails, Failed, CtlType, CtlRec, Pcs, Quieter, Between
  <2> QED
    BY <1>b, <2>1, <2>2
<1>13. CASE Cleanup(c)
  <2>1. ctl' = [ctl EXCEPT ![c] = ctl'[c]] /\ upgrade_lock' = upgrade_lock
    BY <1>13 DEF Cleanup, Goto, CtlType, CtlRec, db
  <2>2. ctl'[c] \in CtlRec /\ Quieter(c)
    BY <1>13, <1>a DEF Cleanup, Goto, CtlType, CtlRec, Pcs, Quieter, Between
  <2> QED
    BY <1>b, <2>1, <2>2
<1>14. CASE Restore(c)
  <2>1. ctl' = [ctl EXCEPT ![c] = ctl'[c]] /\ upgrade_lock' = upgrade_lock
    BY <1>14 DEF Restore, Goto, RollbackFails, CtlType, CtlRec, db
  <2>2. ctl'[c] \in CtlRec /\ Quieter(c)
    BY <1>14, <1>d, <1>e DEF Restore
  <2> QED
    BY <1>b, <2>1, <2>2
<1>15. CASE Restart(c)
  <2>1. ctl' = [ctl EXCEPT ![c] = ctl'[c]] /\ upgrade_lock' = upgrade_lock
    BY <1>15 DEF Restart, Goto, CtlType, CtlRec, db
  <2>2. ctl'[c] \in CtlRec /\ Quieter(c)
    BY <1>15, <1>a DEF Restart, Goto, CtlType, CtlRec, Pcs, Quieter, Between
  <2> QED
    BY <1>b, <2>1, <2>2
<1>16. CASE Restarted(c)
  <2>1. ctl' = [ctl EXCEPT ![c] = ctl'[c]] /\ upgrade_lock' = upgrade_lock
    BY <1>16 DEF Restarted, CtlType, CtlRec, db
  <2>2. ctl'[c] \in CtlRec /\ Quieter(c)
    BY <1>16, <1>a DEF Restarted, CtlType, CtlRec, Pcs, Quieter, Between
  <2> QED
    BY <1>b, <2>1, <2>2
<1>17. CASE Unmark(c)
  <2>1. ctl' = [ctl EXCEPT ![c] = ctl'[c]] /\ upgrade_lock' = upgrade_lock
    BY <1>17 DEF Unmark, Report, CtlType, CtlRec, db
  <2>2. ctl'[c] \in CtlRec /\ Quieter(c)
    BY <1>17, <1>f DEF Unmark
  <2> QED
    BY <1>b, <2>1, <2>2
<1>18. CASE SshFails(c) \/ ExitFails(c)
  <2>1. ctl' = [ctl EXCEPT ![c] = ctl'[c]] /\ upgrade_lock' = upgrade_lock
    BY <1>18 DEF SshFails, ExitFails, Fails, Failed, RollbackFails, Goto, Report, CtlType, CtlRec, db
  <2>2. ctl'[c] \in CtlRec /\ Quieter(c)
    BY <1>18, <1>c, <1>d, <1>e, <1>f DEF SshFails, ExitFails
  <2> QED
    BY <1>b, <2>1, <2>2
<1>19. CASE AnswerLost(c)
  <2>1. ctl' = [ctl EXCEPT ![c] = ctl'[c]] /\ upgrade_lock' = upgrade_lock
    BY <1>19 DEF AnswerLost, Goto, CtlType, CtlRec, db
  <2>2. ctl'[c] \in CtlRec /\ Quieter(c)
    <3>1. CASE ctl' = [ctl EXCEPT ![c].pc = "unmark", ![c].entered = FALSE]
      BY ZenonT(40), <1>a, <3>1 DEF CtlType, CtlRec, Pcs, Quieter, Between
    <3>2. CASE /\ ctl[c].pc = "cleanup"
               /\ ctl' = [ctl EXCEPT ![c].pc = "restore", ![c].entered = TRUE, ![c].outcome = "none"]
      BY <1>a, <3>2 DEF CtlType, CtlRec, Pcs, Quieter, Between
    <3>3. CASE ctl' = [ctl EXCEPT ![c].pc = "restore", ![c].handoff = FALSE]
      BY ZenonT(40), <1>a, <3>3 DEF CtlType, CtlRec, Pcs, Quieter, Between
    <3>4. CASE Goto(c, "undo") \/ Goto(c, "restore")
      BY <1>e, <3>4
    <3> QED
      BY <1>19, <3>1, <3>2, <3>3, <3>4 DEF AnswerLost
  <2> QED
    BY <1>b, <2>1, <2>2
<1>20. CASE Killed(c)
  <2>1. ctl' = [ctl EXCEPT ![c] = ctl'[c]] /\ upgrade_lock' = upgrade_lock
    BY <1>20 DEF Killed, Goto, CtlType, CtlRec, db
  <2>2. ctl'[c] \in CtlRec /\ Quieter(c)
    BY ZenonT(40), <1>20, <1>a DEF Killed, Goto, CtlType, CtlRec, Pcs, Quieter, Between
  <2> QED
    BY <1>b, <2>1, <2>2
<1> QED
  BY <1>1, <1>2, <1>3, <1>4, <1>5, <1>6, <1>7, <1>8, <1>9, <1>10, <1>11, <1>12, <1>13, <1>14,
     <1>15, <1>16, <1>17, <1>18, <1>19, <1>20 DEF PlainStep

(* Commands: a controller that is about to enter has not entered; one that   *)
(* gave the lock back does not have it again; the process that handles a     *)
(* command serves or is gone, handles one at a time, and runs no operation   *)
(* while it enters.                                                          *)
CommandInv ==
    /\ \A c \in Controllers : ctl[c].pc \in {"start", "enter", "locked"} => ~ctl[c].entered
    /\ \A c \in Controllers : ctl[c].pc \in {"released", "undone", "cleanup"} => upgrade_lock # c
    /\ \A c \in Controllers : ctl[c].pc \in Between =>
          ctl[c].via \in Procs /\ proc[ctl[c].via].stage \in Accepting \cup {"gone"}
    /\ \A c \in Controllers : ctl[c].pc = "locked" => proc[ctl[c].via].op # "running"
    /\ \A c, d \in Controllers :
          ctl[c].pc \in Between /\ ctl[d].pc \in Between /\ ctl[c].via = ctl[d].via => c = d

(* The fence: while its controller holds the lock, no operation runs; the    *)
(* process of the current generation knows of the upgrade, or it is about to *)
(* take the lock away; and nobody is about to reopen that process.           *)
Fenced(c) == upgrade_lock = c /\ ctl[c].entered /\ ctl[c].direct

FenceInv ==
    \A c \in Controllers : Fenced(c) =>
        /\ \A d \in Controllers : ctl[d].pc \in {"released", "undone"} => ctl[d].via # generation
        /\ proc[generation].stage \in Accepting \cup {"restoring"} =>
              proc[generation].mode = "upgrading"
        /\ proc[generation].stage \in {"clearing", "unlocking"} => proc[generation].owner = c
        /\ \A p \in Procs : proc[p].op # "running"

IInv == ProcInv /\ CtlType /\ CommandInv /\ FenceInv

(* Processes that serve go on to or are gone, and operations start only      *)
(* under the management lock.                                                *)
ProcFrame ==
    /\ \A q \in Procs : proc[q].stage \in Accepting \cup {"gone"} =>
                            proc'[q].stage \in Accepting \cup {"gone"}
    /\ \A q \in Procs : proc'[q].op = "running" => proc[q].op = "running" \/ Unlocked(q)

CtlFrame ==
    /\ CtlType'
    /\ \A c \in Controllers : ctl'[c] = ctl[c] \/ Quieter(c)
    /\ upgrade_lock' \in {upgrade_lock, NoOne}

(* Steps outside the commands keep what holds of commands.                   *)
LEMMA CommandKept ==
    ASSUME IInv, ProcFrame, CtlFrame
    PROVE  CommandInv'
<1>a. NoOne \notin Controllers
  BY UpgradeAssumption
<1>1. \A c \in Controllers : ctl'[c].pc \in Between => ctl'[c] = ctl[c]
  BY DEF CtlFrame, Quieter
<1>2. \A c \in Controllers : ctl'[c].pc \in {"start", "enter", "locked"} => ~ctl'[c].entered
  BY DEF CtlFrame, Quieter, IInv, CommandInv, Between
<1>3. \A c \in Controllers : ctl'[c].pc \in {"released", "undone", "cleanup"} => upgrade_lock' # c
  BY <1>a DEF CtlFrame, Quieter, IInv, CommandInv, Between
<1>4. \A c \in Controllers : ctl'[c].pc \in Between =>
          ctl'[c].via \in Procs /\ proc'[ctl'[c].via].stage \in Accepting \cup {"gone"}
  BY <1>1 DEF ProcFrame, IInv, CommandInv
<1>5. \A c \in Controllers : ctl'[c].pc = "locked" => proc'[ctl'[c].via].op # "running"
  <2> SUFFICES ASSUME NEW c \in Controllers, ctl'[c].pc = "locked",
                      proc'[ctl'[c].via].op = "running"
               PROVE  FALSE
    OBVIOUS
  <2>1. ctl'[c] = ctl[c] /\ ctl[c].pc = "locked" /\ ctl[c].via \in Procs
    BY <1>1 DEF Between, IInv, CommandInv
  <2>2. proc[ctl[c].via].op # "running"
    BY <2>1 DEF IInv, CommandInv
  <2>3. Unlocked(ctl[c].via)
    BY <2>1, <2>2 DEF ProcFrame
  <2> QED
    BY <2>1, <2>3 DEF Unlocked
<1>6. \A c, d \in Controllers :
          ctl'[c].pc \in Between /\ ctl'[d].pc \in Between /\ ctl'[c].via = ctl'[d].via => c = d
  BY <1>1 DEF IInv, CommandInv
<1> QED
  BY <1>2, <1>3, <1>4, <1>5, <1>6 DEF CommandInv

(* Nobody gets behind the fence outside the commands.                        *)
LEMMA FencedBefore ==
    ASSUME IInv, CtlFrame, NEW c \in Controllers, Fenced(c)'
    PROVE  Fenced(c)
<1>1. upgrade_lock = c
  BY UpgradeAssumption DEF CtlFrame, Fenced
<1>2. ctl[c].pc # "cleanup"
  BY <1>1 DEF IInv, CommandInv
<1> QED
  BY <1>1, <1>2 DEF CtlFrame, Quieter, Fenced

(* Steps outside the commands, other than the ones in which a process reads  *)
(* or clears the lock or starts an operation, keep the fence.                *)
LEMMA FenceKept ==
    ASSUME IInv, CtlFrame, generation' = generation,
           \A q \in Procs : proc'[q].op = "running" => proc[q].op = "running",
           proc'[generation].stage \in Accepting \cup {"restoring"} =>
               /\ proc[generation].stage \in Accepting \cup {"restoring"}
               /\ proc'[generation].mode = proc[generation].mode,
           proc'[generation].stage \in {"clearing", "unlocking"} =>
               /\ proc[generation].stage \in {"clearing", "unlocking"}
               /\ proc'[generation].owner = proc[generation].owner
    PROVE  FenceInv'
<1> SUFFICES ASSUME NEW c \in Controllers, Fenced(c)'
             PROVE  /\ \A d \in Controllers : ctl'[d].pc \in {"released", "undone"} =>
                           ctl'[d].via # generation
                    /\ proc'[generation].stage \in Accepting \cup {"restoring"} =>
                          proc'[generation].mode = "upgrading"
                    /\ proc'[generation].stage \in {"clearing", "unlocking"} =>
                          proc'[generation].owner = c
                    /\ \A p \in Procs : proc'[p].op # "running"
  BY DEF FenceInv
<1>1. Fenced(c)
  BY FencedBefore
<1>2. \A d \in Controllers : ctl'[d].pc \in {"released", "undone"} => ctl'[d] = ctl[d]
  BY DEF CtlFrame, Quieter, Between
<1> QED
  BY <1>1, <1>2 DEF IInv, FenceInv

(* The end of a process.                                                     *)
LEMMA GoneFence ==
    ASSUME IInv, CtlFrame, NEW p \in Procs, Gone(p)
    PROVE  CommandInv' /\ FenceInv'
<1>1. \A q \in Procs : \/ proc'[q] = proc[q]
                       \/ proc'[q].stage = "gone" /\ proc'[q].op = "none"
  BY DEF Gone, Ends, Fresh
<1>2. generation' = generation /\ generation \in Procs
  BY DEF Gone, IInv, ProcInv, TypeOK
<1>3. ProcFrame
  BY <1>1 DEF ProcFrame
<1>4. FenceInv'
  BY <1>1, <1>2, FenceKept, StageSets
<1> QED
  BY <1>3, <1>4, CommandKept

(* A step that leaves every process as it is, up to the SIGHUP it has had    *)
(* and a step from serving on to stopping.                                   *)
LEMMA ServingFence ==
    ASSUME IInv, CtlFrame, generation' = generation,
           \A q \in Procs : /\ proc'[q].mode = proc[q].mode /\ proc'[q].owner = proc[q].owner
                            /\ proc'[q].op = proc[q].op
                            /\ \/ proc'[q].stage = proc[q].stage
                               \/ proc[q].stage \in Accepting /\ proc'[q].stage \in Accepting
    PROVE  CommandInv' /\ FenceInv'
<1>1. generation \in Procs
  BY DEF IInv, ProcInv, TypeOK
<1>2. ProcFrame
  BY DEF ProcFrame
<1>3. "clearing" \notin Accepting /\ "unlocking" \notin Accepting
  BY DEF Accepting
<1>4. FenceInv'
  BY <1>1, <1>3, FenceKept
<1> QED
  BY <1>2, <1>4, CommandKept

(* The birth of a process.                                                   *)
LEMMA BirthFence ==
    ASSUME IInv, CtlFrame, Spawn, generation' = generation,
           \A q \in Procs \ {spawned + 1} :
               /\ proc'[q].stage = proc[q].stage /\ proc'[q].op = proc[q].op
               /\ proc'[q].mode = proc[q].mode /\ proc'[q].owner = proc[q].owner,
           proc'[spawned + 1].stage = "spawned", proc'[spawned + 1].op = "none"
    PROVE  CommandInv' /\ FenceInv'
<1>a. generation \in Procs /\ spawned \in Procs
  BY DEF IInv, ProcInv, TypeOK
<1>1. generation \in Procs /\ spawned + 1 \in Procs /\ spawned + 1 > spawned
  BY <1>a, UpgradeAssumption DEF Spawn, Procs
<1>2. proc[spawned + 1].stage = "none"
  BY <1>1 DEF IInv, ProcInv, OneStarting
<1>3. ProcFrame
  <2>1. "none" \notin Accepting \cup {"gone"}
    BY DEF Accepting
  <2> QED
    BY <1>1, <1>2, <2>1 DEF ProcFrame
<1>4. "spawned" \notin Accepting \cup {"restoring", "clearing", "unlocking"}
  BY DEF Accepting
<1>5. FenceInv'
  BY <1>1, <1>4, FenceKept
<1> QED
  BY <1>3, <1>5, CommandKept

(* A SIGHUP.                                                                 *)
LEMMA HupFence ==
    ASSUME IInv, CtlFrame, NEW by, Hup(by)
    PROVE  CommandInv' /\ FenceInv'
<1>1. CASE UNCHANGED <<proc, unit>>
  BY <1>1, ServingFence DEF unit
<1>2. CASE /\ Spawn
           /\ proc' = Born([proc EXCEPT ![main].hup = TRUE], TRUE, by)
           /\ UNCHANGED <<main, symlink, generation>>
  <2>1. proc \in [Procs -> ProcRec]
    BY DEF IInv, ProcInv, TypeOK, ProcRec, Stages
  <2> DEFINE f == [proc EXCEPT ![main].hup = TRUE]
  <2>2. f \in [Procs -> ProcRec]
    BY <2>1, FieldType
  <2>3. \A q \in Procs : /\ f[q].stage = proc[q].stage /\ f[q].op = proc[q].op
                         /\ f[q].mode = proc[q].mode /\ f[q].owner = proc[q].owner
    BY <2>1 DEF ProcRec
  <2>a. spawned \in Procs
    BY DEF IInv, ProcInv, TypeOK
  <2>4. spawned + 1 \in Procs
    BY <1>2, <2>a, UpgradeAssumption DEF Spawn, Procs
  <2>5. proc' = Born(f, TRUE, by)
    BY <1>2
  <2> HIDE DEF f
  <2>6. /\ \A q \in Procs \ {spawned + 1} : proc'[q] = f[q]
        /\ proc'[spawned + 1].stage = "spawned" /\ proc'[spawned + 1].op = "none"
    BY <2>2, <2>4, <2>5 DEF Born, Fresh
  <2> QED
    BY <1>2, <2>3, <2>6, BirthFence
<1> QED
  BY <1>1, <1>2 DEF Hup

(* A restart of the unit.                                                    *)
LEMMA RestartFence ==
    ASSUME IInv, CtlFrame, RestartUnit
    PROVE  CommandInv' /\ FenceInv'
<1>1. CASE UNCHANGED <<proc, unit>>
  BY <1>1, ServingFence DEF unit
<1>2. CASE main # NoOne /\ Gone(main)
  BY <1>2, GoneFence DEF IInv, ProcInv, TypeOK
<1>3. CASE main # NoOne /\ proc[main].stage \in Accepting
           /\ proc' = [proc EXCEPT ![main].stage = "stopping"] /\ UNCHANGED unit
  <2>1. main \in Procs /\ proc \in [Procs -> ProcRec]
    BY <1>3 DEF IInv, ProcInv, TypeOK, ProcRec, Stages
  <2>2. /\ \A q \in Procs \ {main} : proc'[q] = proc[q]
        /\ proc'[main].mode = proc[main].mode /\ proc'[main].owner = proc[main].owner
        /\ proc'[main].op = proc[main].op /\ proc'[main].stage = "stopping"
    BY <1>3, <2>1 DEF ProcRec
  <2> QED
    BY <1>3, <2>2, ServingFence, StageSets DEF unit
<1> QED
  BY <1>1, <1>2, <1>3 DEF RestartUnit

(* The steps of a process on its way up, from the claim on it alone.         *)
LEMMA StartupFence ==
    ASSUME IInv, NEW p \in Procs, Startup(p)
    PROVE  CommandInv' /\ FenceInv'
<1>a. ctl' = ctl /\ upgrade_lock' \in {upgrade_lock, NoOne}
  BY DEF Startup, Bind, Claim, ClaimTimesOut, TakeMarker, ReadMode, ReadOwner, ClearMode,
         ClearLock, Publish, Ready, Stopped, Release, db
<1>b. CtlFrame
  BY <1>a DEF CtlFrame, CtlType, IInv
<1>c. proc \in [Procs -> ProcRec] /\ proc[p] \in ProcRec /\ generation \in Procs
  BY DEF IInv, ProcInv, TypeOK, ProcRec, Stages
<1>d. proc[p].stage \in Claiming => generation = p
  BY DEF IInv, ProcInv, LatestServes
<1>e. /\ {"restoring", "clearing", "unlocking", "claimed", "marked", "reading"} \subseteq Claiming
      /\ Accepting \cap Claiming = {}
      /\ "gone" \notin Claiming /\ "bound" \notin Claiming \cup Accepting
      /\ "spawned" \notin Claiming \cup Accepting
  BY DEF Claiming, Accepting
<1>1. CASE Gone(p)
  BY <1>1, <1>b, GoneFence
<1>2. CASE Bind(p)
  <2>1. /\ proc[p].stage = "spawned" /\ proc'[p].stage = "bound" /\ proc'[p].op = proc[p].op
        /\ \A q \in Procs \ {p} : proc'[q] = proc[q]
        /\ generation' = generation
    BY <1>2, <1>c DEF Bind, ProcRec
  <2>2. ProcFrame
    BY <2>1, <1>e DEF ProcFrame
  <2>3. FenceInv'
    BY <1>b, <1>c, <1>e, <2>1, FenceKept
  <2> QED
    BY <1>b, <2>2, <2>3, CommandKept
<1>3. CASE Claim(p)
  <2>1. /\ proc[p].stage = "bound" /\ proc'[p].stage = "claimed" /\ proc'[p].op = proc[p].op
        /\ \A q \in Procs \ {p} : proc'[q] = proc[q]
        /\ generation' = p
    BY <1>3, <1>c DEF Claim, ProcRec
  <2>2. ProcFrame
    BY <2>1, <1>e DEF ProcFrame
  <2>3. ASSUME NEW c \in Controllers, Fenced(c)'
        PROVE  /\ \A d \in Controllers : ctl'[d].pc \in {"released", "undone"} =>
                      ctl'[d].via # p
               /\ \A q \in Procs : proc'[q].op # "running"
    <3>1. Fenced(c)
      BY <1>b, <2>3, FencedBefore
    <3>2. \A d \in Controllers : ctl[d].pc \in {"released", "undone"} => ctl[d].via # p
      BY <2>1, <1>e DEF IInv, CommandInv, Between
    <3> QED
      BY <1>a, <2>1, <3>1, <3>2 DEF IInv, FenceInv
  <2>4. FenceInv'
    BY <2>1, <2>3, <1>e DEF FenceInv
  <2> QED
    BY <1>b, <2>2, <2>4, CommandKept
<1>4. CASE TakeMarker(p) \/ ReadMode(p)
  <2>1. /\ proc[p].stage \in Claiming /\ proc'[p].stage \in {"marked", "reading"}
        /\ proc'[p].op = proc[p].op
        /\ \A q \in Procs \ {p} : proc'[q] = proc[q]
        /\ generation' = generation
    <3>1. CASE TakeMarker(p)
      BY <3>1, <1>c, <1>e DEF TakeMarker, ProcRec, unit
    <3>2. CASE ReadMode(p)
      BY <3>2, <1>c, <1>e DEF ReadMode, ProcRec, unit
    <3> QED
      BY <1>4, <3>1, <3>2
  <2>2. ProcFrame
    BY <2>1, <1>e DEF ProcFrame
  <2>3. FenceInv'
    BY <1>b, <1>c, <1>d, <1>e, <2>1, FenceKept
  <2> QED
    BY <1>b, <2>2, <2>3, CommandKept
<1>5. CASE ReadOwner(p) /\ ~Gone(p)
  <2>1. /\ proc[p].stage \in Claiming /\ proc'[p].op = proc[p].op
        /\ \A q \in Procs \ {p} : proc'[q] = proc[q]
        /\ generation' = generation /\ upgrade_lock' = upgrade_lock
    BY <1>5, <1>c, <1>e DEF ReadOwner, ProcRec, unit, db
  <2>2. \/ proc'[p].stage = "restoring" /\ proc'[p].mode = "upgrading"
        \/ proc'[p].stage = "clearing" /\ proc'[p].owner = upgrade_lock
    BY <1>5, <1>c DEF ReadOwner, ProcRec
  <2>3. ProcFrame
    BY <2>1, <1>e DEF ProcFrame
  <2>4. FenceInv'
    <3>1. ASSUME NEW c \in Controllers, Fenced(c)'
          PROVE  /\ \A d \in Controllers : ctl'[d].pc \in {"released", "undone"} =>
                        ctl'[d].via # p
                 /\ proc'[p].stage \in Accepting \cup {"restoring"} => proc'[p].mode = "upgrading"
                 /\ proc'[p].stage \in {"clearing", "unlocking"} => proc'[p].owner = c
                 /\ \A q \in Procs : proc'[q].op # "running"
      <4>1. Fenced(c)
        BY <1>b, <3>1, FencedBefore
      <4>2. upgrade_lock = c
        BY <4>1 DEF Fenced
      <4>3. "clearing" \notin Accepting \cup {"restoring"}
            /\ "restoring" \notin {"clearing", "unlocking"}
        BY DEF Accepting
      <4> QED
        BY <1>a, <1>d, <2>1, <2>2, <4>1, <4>2, <4>3 DEF IInv, FenceInv
    <3> QED
      BY <1>d, <2>1, <3>1 DEF FenceInv
  <2> QED
    BY <1>b, <2>3, <2>4, CommandKept
<1>6. CASE ClearMode(p)
  <2>1. /\ proc[p].stage = "clearing" /\ proc'[p].stage = "unlocking"
        /\ proc'[p].op = proc[p].op /\ proc'[p].owner = proc[p].owner
        /\ \A q \in Procs \ {p} : proc'[q] = proc[q]
        /\ generation' = generation
    BY <1>6, <1>c DEF ClearMode, ProcRec, unit
  <2>2. ProcFrame
    BY <2>1, <1>e DEF ProcFrame
  <2>3. FenceInv'
    BY <1>b, <1>c, <1>d, <1>e, <2>1, FenceKept
  <2> QED
    BY <1>b, <2>2, <2>3, CommandKept
<1>7. CASE ClearLock(p)
  <2>1. /\ proc[p].stage = "unlocking" /\ proc'[p].stage = "restoring"
        /\ proc'[p].op = proc[p].op
        /\ \A q \in Procs \ {p} : proc'[q] = proc[q]
        /\ generation' = generation
        /\ upgrade_lock' = IF proc[p].owner # NoOne /\ upgrade_lock = proc[p].owner
                             THEN NoOne ELSE upgrade_lock
    BY <1>7, <1>c DEF ClearLock, Release, ProcRec, unit
  <2>2. ProcFrame
    BY <2>1, <1>e DEF ProcFrame
  <2>3. ASSUME NEW c \in Controllers, Fenced(c)'
        PROVE  FALSE
    <3>1. Fenced(c)
      BY <1>b, <2>3, FencedBefore
    <3>2. generation = p
      BY <1>d, <1>e, <2>1
    <3>3. proc[p].owner = c /\ upgrade_lock = c
      BY <2>1, <3>1, <3>2 DEF IInv, FenceInv, Fenced
    <3>4. upgrade_lock' = NoOne
      BY <2>1, <3>3, UpgradeAssumption
    <3> QED
      BY <2>3, <3>4, UpgradeAssumption DEF Fenced
  <2>4. FenceInv'
    BY <2>3 DEF FenceInv
  <2> QED
    BY <1>b, <2>2, <2>4, CommandKept
<1>8. CASE Publish(p)
  <2>1. /\ proc[p].stage = "restoring" /\ proc'[p].stage = "serving"
        /\ proc'[p].op = proc[p].op /\ proc'[p].mode = proc[p].mode
        /\ \A q \in Procs \ {p} : proc'[q] = proc[q]
        /\ generation' = generation
    BY <1>8, <1>c DEF Publish, ProcRec, unit
  <2>2. ProcFrame
    BY <2>1, <1>e DEF ProcFrame
  <2>3. FenceInv'
    BY <1>b, <1>c, <1>d, <1>e, <2>1, FenceKept
  <2> QED
    BY <1>b, <2>2, <2>3, CommandKept
<1>9. CASE Ready(p)
  <2>1. main \in Procs => main = p \/ proc[main].stage \in Accepting
    BY <1>9, StageSets DEF Ready, IInv, ProcInv, OneStarting, Alive, Rising
  <2>2. \A q \in Procs : /\ proc'[q].mode = proc[q].mode /\ proc'[q].owner = proc[q].owner
                         /\ proc'[q].op = proc[q].op
                         /\ \/ proc'[q].stage = proc[q].stage
                            \/ q \in {p, main} /\ proc'[q].stage \in {"ready", "stopping"}
    BY <1>9, <1>c DEF Ready, ProcRec
  <2>3. proc[p].stage = "serving" /\ generation' = generation
    BY <1>9 DEF Ready
  <2> QED
    BY <1>b, <2>1, <2>2, <2>3, ServingFence, StageSets
<1> QED
  BY <1>1, <1>2, <1>3, <1>4, <1>5, <1>6, <1>7, <1>8, <1>9
     DEF Startup, ClaimTimesOut, Stopped

(* A command takes or frees the lock: the first of its two statements.       *)
LEMMA LockStep ==
    ASSUME IInv, TypeOK', NEW c \in Controllers, NEW x \in Between,
           ctl' = [ctl EXCEPT ![c].pc = x], UNCHANGED <<proc, unit>>,
           ctl[c].via \in Procs, proc[ctl[c].via].stage \in Accepting, Unlocked(ctl[c].via),
           IF x = "locked" THEN ctl[c].pc = "enter" /\ upgrade_lock' = c
                           ELSE upgrade_lock' = NoOne
    PROVE  CtlType' /\ CommandInv' /\ FenceInv'
<1>a. NoOne \notin Controllers /\ Between \subseteq Pcs
  BY UpgradeAssumption DEF Between, Pcs
<1>1. CtlType'
  BY <1>a, CtlField DEF IInv, CtlType
<1>2. /\ ctl'[c].pc = x /\ ctl'[c].via = ctl[c].via /\ ctl'[c].entered = ctl[c].entered
      /\ \A d \in Controllers \ {c} : ctl'[d] = ctl[d]
  BY DEF IInv, CtlType, CtlRec
<1>3. \A d \in Controllers \ {c} : ctl[d].pc \in Between => ctl[d].via # ctl[c].via
  BY DEF Unlocked, Between
<1>4. x = "locked" => ~ctl[c].entered
  BY DEF IInv, CommandInv
<1>5. CommandInv'
  <2>1. \A d \in Controllers : ctl'[d].pc \in {"start", "enter", "locked"} => ~ctl'[d].entered
    BY <1>2, <1>4 DEF IInv, CommandInv, Between
  <2>2. \A d \in Controllers : ctl'[d].pc \in {"released", "undone", "cleanup"} => upgrade_lock' # d
    BY <1>2, <1>a DEF IInv, CommandInv, Between
  <2>3. \A d \in Controllers : ctl'[d].pc \in Between =>
            ctl'[d].via \in Procs /\ proc'[ctl'[d].via].stage \in Accepting \cup {"gone"}
    BY <1>2 DEF IInv, CommandInv
  <2>4. \A d \in Controllers : ctl'[d].pc = "locked" => proc'[ctl'[d].via].op # "running"
    BY <1>2 DEF IInv, CommandInv, Unlocked
  <2>5. \A d, e \in Controllers :
            ctl'[d].pc \in Between /\ ctl'[e].pc \in Between /\ ctl'[d].via = ctl'[e].via => d = e
    BY <1>2, <1>3 DEF IInv, CommandInv
  <2> QED
    BY <2>1, <2>2, <2>3, <2>4, <2>5 DEF CommandInv
<1>6. ASSUME NEW d \in Controllers PROVE ~Fenced(d)'
  BY <1>a, <1>2, <1>4 DEF Fenced
<1> QED
  BY <1>1, <1>5, <1>6 DEF FenceInv

(* Entering: the mode of the process that handles the command goes up.  It   *)
(* is the generation if tako.sock leads to it, and then nothing runs.        *)
LEMMA EnterModeStep ==
    ASSUME IInv, TypeOK', NEW c \in Controllers, EnterMode(c)
    PROVE  CtlType' /\ CommandInv' /\ FenceInv'
<1> DEFINE v == ctl[c].via
<1>a. proc \in [Procs -> ProcRec] /\ ctl \in [Controllers -> CtlRec] /\ generation \in Procs
  BY DEF IInv, ProcInv, TypeOK, ProcRec, Stages, CtlType
<1>b. ctl[c].pc = "locked" /\ v \in Procs /\ proc[v].stage \in Accepting
  BY <1>a DEF EnterMode, Handles, CtlRec
<1>1. /\ proc'[v].stage = proc[v].stage /\ proc'[v].op = proc[v].op
      /\ proc'[v].mode = "upgrading" /\ proc'[v].owner = proc[v].owner
      /\ \A q \in Procs \ {v} : proc'[q] = proc[q]
  BY <1>a, <1>b DEF EnterMode, ProcRec
<1>2. /\ ctl'[c] = [ctl[c] EXCEPT !.pc = "info", !.via = NoOne, !.entered = TRUE,
                                  !.direct = (v = symlink)]
      /\ \A d \in Controllers \ {c} : ctl'[d] = ctl[d]
      /\ ctl' = [ctl EXCEPT ![c] = ctl'[c]]
  BY <1>a DEF EnterMode, CtlRec
<1>3. ctl'[c] \in CtlRec /\ ctl'[c].pc = "info" /\ (ctl'[c].direct => v = symlink)
  <2>1. ctl[c] \in CtlRec
    BY <1>a
  <2>3. CASE v = symlink
    <3>1. ctl'[c] = [ctl[c] EXCEPT !.pc = "info", !.via = NoOne, !.entered = TRUE, !.direct = TRUE]
      BY <1>2, <2>3
    <3>2. LET n == [ctl[c] EXCEPT !.pc = "info", !.via = NoOne, !.entered = TRUE, !.direct = TRUE]
          IN  n \in CtlRec /\ n.pc = "info"
      BY <2>1 DEF CtlRec, Pcs
    <3> QED
      BY <3>1, <3>2, <2>3
  <2>4. CASE v # symlink
    <3>1. ctl'[c] = [ctl[c] EXCEPT !.pc = "info", !.via = NoOne, !.entered = TRUE, !.direct = FALSE]
      BY <1>2, <2>4
    <3>2. LET n == [ctl[c] EXCEPT !.pc = "info", !.via = NoOne, !.entered = TRUE, !.direct = FALSE]
          IN  n \in CtlRec /\ n.pc = "info" /\ ~n.direct
      BY <2>1 DEF CtlRec, Pcs
    <3> QED
      BY <3>1, <3>2
  <2> QED
    BY <2>3, <2>4
<1>4. CtlType'
  BY <1>a, <1>2, <1>3 DEF CtlType
<1>5. generation' = generation /\ upgrade_lock' = upgrade_lock
  BY DEF EnterMode, unit
<1>c. "info" \notin Between \cup {"start", "enter", "cleanup"}
  BY DEF Between
<1>6. CommandInv'
  <2>1. \A d \in Controllers : ctl'[d].pc \in Between \cup {"start", "enter", "cleanup"} =>
            d # c /\ ctl'[d] = ctl[d]
    BY <1>2, <1>3, <1>c
  <2>2. \A q \in Procs : proc'[q].stage = proc[q].stage /\ proc'[q].op = proc[q].op
    BY <1>1
  <2>3. \A d \in Controllers : ctl'[d].pc \in {"start", "enter", "locked"} => ~ctl'[d].entered
    BY <2>1 DEF IInv, CommandInv, Between
  <2>4. \A d \in Controllers : ctl'[d].pc \in {"released", "undone", "cleanup"} => upgrade_lock' # d
    BY <1>5, <2>1 DEF IInv, CommandInv, Between
  <2>5. \A d \in Controllers : ctl'[d].pc \in Between =>
            ctl'[d].via \in Procs /\ proc'[ctl'[d].via].stage \in Accepting \cup {"gone"}
    BY <2>1, <2>2 DEF IInv, CommandInv
  <2>6. \A d \in Controllers : ctl'[d].pc = "locked" => proc'[ctl'[d].via].op # "running"
    <3>1. \A d \in Controllers : ctl'[d].pc = "locked" =>
              ctl'[d] = ctl[d] /\ ctl[d].via \in Procs /\ proc[ctl[d].via].op # "running"
      BY <2>1 DEF IInv, CommandInv, Between
    <3> QED
      BY <2>2, <3>1
  <2>7. \A d, e \in Controllers :
            ctl'[d].pc \in Between /\ ctl'[e].pc \in Between /\ ctl'[d].via = ctl'[e].via => d = e
    BY <2>1 DEF IInv, CommandInv
  <2> QED
    BY <2>3, <2>4, <2>5, <2>6, <2>7 DEF CommandInv
<1>7. FenceInv'
  <2> SUFFICES ASSUME NEW d \in Controllers, Fenced(d)'
               PROVE  /\ \A e \in Controllers : ctl'[e].pc \in {"released", "undone"} =>
                             ctl'[e].via # generation
                      /\ proc'[generation].stage \in Accepting \cup {"restoring"} =>
                            proc'[generation].mode = "upgrading"
                      /\ proc'[generation].stage \in {"clearing", "unlocking"} =>
                            proc'[generation].owner = d
                      /\ \A p \in Procs : proc'[p].op # "running"
    BY <1>5 DEF FenceInv
  <2>1. \A e \in Controllers : ctl'[e].pc \in {"released", "undone"} =>
            e # c /\ ctl'[e] = ctl[e] /\ ctl[e].via # v
    <3>1. \A e \in Controllers : ctl'[e].pc \in {"released", "undone"} => e # c /\ ctl'[e] = ctl[e]
      BY <1>2, <1>3
    <3>2. \A e \in Controllers : e # c /\ ctl[e].pc \in {"released", "undone"} => ctl[e].via # v
      BY <1>b DEF IInv, CommandInv, Between
    <3> QED
      BY <3>1, <3>2
  <2>2. CASE d = c
    <3>1. v = symlink
      BY <1>3, <2>2 DEF Fenced
    <3>2. generation = v
      BY <1>b, <3>1 DEF IInv, ProcInv, LatestServes
    <3>3. \A p \in Procs : proc[p].op # "none" => p = v
      BY <3>2 DEF IInv, ProcInv, Exclusive
    <3>4. proc[v].op # "running"
      BY <1>b DEF IInv, CommandInv
    <3>5. \A p \in Procs : proc'[p].op # "running"
      BY <1>1, <3>3, <3>4
    <3>6. proc'[v].stage \notin {"clearing", "unlocking"}
      BY <1>1, <1>b DEF Accepting
    <3> QED
      BY <1>1, <2>1, <3>2, <3>5, <3>6
  <2>3. CASE d # c
    <3>1. Fenced(d)
      BY <1>2, <1>5, <2>3 DEF Fenced
    <3>2. CASE generation = v
      BY <1>1, <2>1, <3>1, <3>2 DEF IInv, FenceInv
    <3>3. CASE generation # v
      BY <1>1, <1>a, <2>1, <3>1, <3>3 DEF IInv, FenceInv
    <3> QED
      BY <3>2, <3>3
  <2> QED
    BY <2>2, <2>3
<1> QED
  BY <1>4, <1>6, <1>7

(* Leaving: the mode of the process that handles the command goes down; it   *)
(* is not one that a fence relies on.                                        *)
LEMMA LeaveModeStep ==
    ASSUME IInv, TypeOK', NEW c \in Controllers, ExitMode(c) \/ UndoMode(c)
    PROVE  CtlType' /\ CommandInv' /\ FenceInv'
<1> DEFINE v == ctl[c].via
<1>a. proc \in [Procs -> ProcRec] /\ ctl \in [Controllers -> CtlRec] /\ generation \in Procs
  BY DEF IInv, ProcInv, TypeOK, ProcRec, Stages, CtlType
<1>b. ctl[c].pc \in {"released", "undone"} /\ v \in Procs
  BY <1>a DEF ExitMode, UndoMode, Handles, CtlRec
<1>1. \A q \in Procs : /\ proc'[q].stage = proc[q].stage /\ proc'[q].op = proc[q].op
                       /\ q # v => proc'[q] = proc[q]
  <2>1. proc' = [proc EXCEPT ![v].mode = "normal"]
    BY DEF ExitMode, UndoMode, Normal
  <2> QED
    BY <1>a, <1>b, <2>1 DEF ProcRec
<1>2. /\ ctl'[c] \in CtlRec /\ ctl'[c].pc \in {"cleanup", "unmark"} /\ ~ctl'[c].entered
      /\ ctl' = [ctl EXCEPT ![c] = ctl'[c]]
  <2>1. CASE ExitMode(c)
    <3>1. /\ ctl' = [ctl EXCEPT ![c] = ctl'[c]]
          /\ \E x \in {"upgraded", "already"} :
                ctl'[c] = [ctl[c] EXCEPT !.pc = "cleanup", !.via = NoOne, !.entered = FALSE,
                                         !.outcome = x]
      BY <1>a, <2>1 DEF ExitMode, CtlRec
    <3> QED
      BY <1>a, <3>1 DEF CtlRec, Pcs
  <2>2. CASE UndoMode(c)
    <3>1. /\ ctl' = [ctl EXCEPT ![c] = ctl'[c]]
          /\ ctl'[c] = [ctl[c] EXCEPT !.pc = "unmark", !.via = NoOne, !.entered = FALSE]
      BY <1>a, <2>2 DEF UndoMode, CtlRec
    <3>2. ctl[c] \in CtlRec
      BY <1>a
    <3>3. ctl'[c] \in CtlRec
      BY <3>1, <3>2 DEF CtlRec, Pcs
    <3>4. ctl'[c].pc = "unmark" /\ ~ctl'[c].entered
      BY <3>1, <3>2 DEF CtlRec
    <3> QED
      BY <3>1, <3>3, <3>4
  <2> QED
    BY <2>1, <2>2
<1>3. CtlType' /\ \A d \in Controllers \ {c} : ctl'[d] = ctl[d]
  BY <1>a, <1>2 DEF CtlType
<1>4. generation' = generation /\ upgrade_lock' = upgrade_lock
  BY DEF ExitMode, UndoMode, unit
<1>5. \A d \in Controllers : ctl'[d].pc \in Between \cup {"start", "enter"} =>
          d # c /\ ctl'[d] = ctl[d]
  BY <1>2, <1>3 DEF Between
<1>6. CommandInv'
  <2>1. \A d \in Controllers : ctl'[d].pc \in {"start", "enter", "locked"} => ~ctl'[d].entered
    BY <1>5 DEF IInv, CommandInv, Between
  <2>2. \A d \in Controllers : ctl'[d].pc \in {"released", "undone", "cleanup"} => upgrade_lock' # d
    BY <1>3, <1>4, <1>b DEF IInv, CommandInv
  <2>3. \A d \in Controllers : ctl'[d].pc \in Between =>
            ctl'[d].via \in Procs /\ proc'[ctl'[d].via].stage \in Accepting \cup {"gone"}
    BY <1>1, <1>5 DEF IInv, CommandInv
  <2>4. \A d \in Controllers : ctl'[d].pc = "locked" => proc'[ctl'[d].via].op # "running"
    <3>1. \A d \in Controllers : ctl'[d].pc = "locked" =>
              ctl'[d] = ctl[d] /\ ctl[d].via \in Procs /\ proc[ctl[d].via].op # "running"
      BY <1>5 DEF IInv, CommandInv, Between
    <3> QED
      BY <1>1, <3>1
  <2>5. \A d, e \in Controllers :
            ctl'[d].pc \in Between /\ ctl'[e].pc \in Between /\ ctl'[d].via = ctl'[e].via => d = e
    BY <1>5 DEF IInv, CommandInv
  <2> QED
    BY <2>1, <2>2, <2>3, <2>4, <2>5 DEF CommandInv
<1>7. FenceInv'
  <2> SUFFICES ASSUME NEW d \in Controllers, Fenced(d)'
               PROVE  /\ \A e \in Controllers : ctl'[e].pc \in {"released", "undone"} =>
                             ctl'[e].via # generation
                      /\ proc'[generation].stage \in Accepting \cup {"restoring"} =>
                            proc'[generation].mode = "upgrading"
                      /\ proc'[generation].stage \in {"clearing", "unlocking"} =>
                            proc'[generation].owner = d
                      /\ \A p \in Procs : proc'[p].op # "running"
    BY <1>4 DEF FenceInv
  <2>1. d # c
    BY <1>2 DEF Fenced
  <2>2. Fenced(d)
    BY <1>3, <1>4, <2>1 DEF Fenced
  <2>3. v # generation
    BY <1>b, <2>2 DEF IInv, FenceInv
  <2>4. proc'[generation] = proc[generation]
    BY <1>1, <1>a, <2>3
  <2> QED
    BY <1>1, <1>5, <2>2, <2>4 DEF IInv, FenceInv, Between
<1> QED
  BY <1>3, <1>6, <1>7
(* An operation starts in the process of the current generation only while   *)
(* that one is in normal mode, hence not behind a fence; it ends anywhere.   *)
LEMMA OperationFence ==
    ASSUME IInv, NEW p \in Procs, Execute(p) \/ ExecuteUnlisted(p) \/ Finish(p)
    PROVE  CtlType' /\ CommandInv' /\ FenceInv'
<1>a. proc \in [Procs -> ProcRec] /\ generation \in Procs
  BY DEF IInv, ProcInv, TypeOK, ProcRec, Stages
<1>b. ctl' = ctl /\ upgrade_lock' = upgrade_lock /\ generation' = generation
  BY DEF Execute, ExecuteUnlisted, Finish, db, unit
<1>c. CtlFrame /\ CtlType'
  BY <1>b DEF CtlFrame, CtlType, IInv
<1>1. \A q \in Procs : /\ proc'[q].stage = proc[q].stage /\ proc'[q].mode = proc[q].mode
                       /\ proc'[q].owner = proc[q].owner
                       /\ q # p => proc'[q] = proc[q]
  <2>1. \E x \in {"none", "running", "unlisted"} : proc' = [proc EXCEPT ![p].op = x]
    BY DEF Execute, ExecuteUnlisted, Finish
  <2> QED
    BY <1>a, <2>1 DEF ProcRec
<1>2. CASE ExecuteUnlisted(p) \/ Finish(p)
  <2>1. proc'[p].op # "running"
    BY <1>2, <1>a DEF ExecuteUnlisted, Finish, ProcRec
  <2>2. ProcFrame
    BY <1>1, <2>1 DEF ProcFrame
  <2>3. FenceInv'
    BY <1>1, <1>a, <1>b, <1>c, <2>1, FenceKept
  <2> QED
    BY <1>c, <2>2, <2>3, CommandKept
<1>3. CASE Execute(p)
  <2>1. ProcFrame
    BY <1>1, <1>3 DEF ProcFrame, Execute, Admitted
  <2>2. generation = p /\ proc[p].stage \in Accepting /\ proc[p].mode = "normal"
    BY <1>3 DEF Execute, Admitted
  <2>3. ASSUME NEW c \in Controllers, Fenced(c)'
        PROVE  FALSE
    <3>1. Fenced(c)
      BY <1>c, <2>3, FencedBefore
    <3> QED
      BY <2>2, <3>1 DEF IInv, FenceInv
  <2>4. FenceInv'
    BY <2>3 DEF FenceInv
  <2> QED
    BY <1>c, <2>1, <2>4, CommandKept
<1> QED
  BY <1>2, <1>3

(* The steps of a controller.                                                *)
LEMMA ControllerFence ==
    ASSUME IInv, TypeOK', NEW c \in Controllers,
           Controller(c) \/ SshFails(c) \/ ExitFails(c) \/ AnswerLost(c) \/ Killed(c)
    PROVE  CtlType' /\ CommandInv' /\ FenceInv'
<1>a. TypeOK /\ CtlType /\ (ctl[c].pc \in {"start", "enter"} => ~ctl[c].entered)
  BY DEF IInv, ProcInv, CommandInv
<1>b. ProcInv
  BY DEF IInv
<1>1. CASE PlainStep(c)
  <2>1. CtlFrame
    BY <1>1, <1>a, PlainFrame DEF CtlFrame
  <2>2. ~EnterMode(c) /\ ~ExitMode(c) /\ ~UndoMode(c) => \/ UNCHANGED <<proc, unit>>
                                                         \/ Hup(c) \/ RestartUnit
    BY <1>b, ControllerFrame
  <2>3. CASE UNCHANGED <<proc, unit>>
    BY <2>1, <2>3, ServingFence DEF CtlFrame, unit
  <2>4. CASE Hup(c) \/ RestartUnit
    BY <2>1, <2>4, HupFence, RestartFence DEF CtlFrame
  <2> QED
    BY <2>2, <2>3, <2>4, EnterModeStep, LeaveModeStep
<1>2. CASE EnterLock(c) \/ ExitLock(c) \/ (UndoLock(c) /\ upgrade_lock = c)
  <2>1. PICK x \in Between :
            /\ ctl' = [ctl EXCEPT ![c].pc = x]
            /\ IF x = "locked" THEN ctl[c].pc = "enter" /\ upgrade_lock' = c
                               ELSE upgrade_lock' = NoOne
    BY <1>2 DEF EnterLock, ExitLock, UndoLock, Goto, Release, Handles, Between
  <2>2. UNCHANGED <<proc, unit>> /\ ctl[c].via # NoOne /\ Unlocked(ctl[c].via)
        /\ proc[ctl[c].via].stage \in Accepting
    BY <1>2 DEF EnterLock, ExitLock, UndoLock, Handles
  <2>3. ctl[c].via \in Procs
    BY <1>a, <2>2 DEF CtlType, CtlRec
  <2> QED
    BY <2>1, <2>2, <2>3, LockStep
<1>3. CASE UndoLock(c) /\ upgrade_lock # c
  <2>1. /\ ctl' = [ctl EXCEPT ![c].pc = "unmark", ![c].via = NoOne]
        /\ upgrade_lock' = upgrade_lock /\ UNCHANGED <<proc, unit>>
    BY <1>3 DEF UndoLock
  <2>2. /\ ctl'[c] = [ctl[c] EXCEPT !.pc = "unmark", !.via = NoOne]
        /\ ctl' = [ctl EXCEPT ![c] = ctl'[c]]
        /\ \A d \in Controllers \ {c} : ctl'[d] = ctl[d]
    BY <1>a, <2>1 DEF CtlType, CtlRec
  <2>3. ctl[c] \in CtlRec
    BY <1>a DEF CtlType
  <2>4. ctl'[c] \in CtlRec /\ Quieter(c)
    BY <2>2, <2>3 DEF CtlRec, Pcs, Quieter, Between
  <2>5. CtlType'
    BY <1>a, <2>2, <2>4 DEF CtlType
  <2>6. CtlFrame
    BY <2>1, <2>2, <2>4, <2>5 DEF CtlFrame
  <2> QED
    BY <2>1, <2>5, <2>6, ServingFence DEF unit
<1>4. CASE EnterMode(c)
  BY <1>4, EnterModeStep
<1>5. CASE ExitMode(c) \/ UndoMode(c)
  BY <1>5, LeaveModeStep
<1> QED
  BY <1>1, <1>2, <1>3, <1>4, <1>5 DEF Controller, PlainStep

(* The whole invariant is inductive.                                         *)
LEMMA FenceStep == IInv /\ [Next]_vars => IInv'
<1> SUFFICES ASSUME IInv, [Next]_vars PROVE IInv'
  OBVIOUS
<1>a. ProcInv'
  BY ProcStep DEF IInv
<1>b. TypeOK'
  BY <1>a DEF ProcInv
<1>c. ctl' = ctl /\ upgrade_lock' = upgrade_lock => CtlFrame /\ CtlType'
  BY DEF CtlFrame, CtlType, IInv
<1>1. CASE Boot
  <2>1. /\ Spawn /\ generation' = generation /\ ctl' = ctl /\ upgrade_lock' = upgrade_lock
        /\ proc' = Born(proc, FALSE, NoOne)
    BY <1>1 DEF Boot, db
  <2>a. spawned \in Procs /\ proc \in [Procs -> ProcRec]
    BY DEF IInv, ProcInv, TypeOK, ProcRec, Stages
  <2>2. spawned + 1 \in Procs
    BY <2>1, <2>a, UpgradeAssumption DEF Spawn, Procs
  <2>3. /\ \A q \in Procs \ {spawned + 1} : proc'[q] = proc[q]
        /\ proc'[spawned + 1].stage = "spawned" /\ proc'[spawned + 1].op = "none"
    BY <2>1, <2>a, <2>2 DEF Born, Fresh
  <2>4. CommandInv' /\ FenceInv'
    BY <1>c, <2>1, <2>3, BirthFence
  <2> QED
    BY <1>a, <1>c, <2>1, <2>4 DEF IInv
<1>2. ASSUME NEW p \in Procs, Startup(p)
      PROVE  IInv'
  <2>1. ctl' = ctl
    BY <1>2 DEF Startup, Bind, Claim, ClaimTimesOut, TakeMarker, ReadMode, ReadOwner, ClearMode,
                ClearLock, Publish, Ready, Stopped
  <2>2. CtlType'
    BY <2>1 DEF CtlType, IInv
  <2> QED
    BY <1>2, <1>a, <2>2, StartupFence DEF IInv
<1>3. ASSUME NEW p \in Procs, Execute(p) \/ ExecuteUnlisted(p) \/ Finish(p)
      PROVE  IInv'
  BY <1>3, <1>a, OperationFence DEF IInv
<1>4. ASSUME NEW p \in Procs, Crash(p)
      PROVE  IInv'
  BY <1>4, <1>a, <1>c, GoneFence DEF Crash, db, IInv
<1>5. ASSUME NEW c \in Controllers,
             Controller(c) \/ SshFails(c) \/ ExitFails(c) \/ AnswerLost(c) \/ Killed(c)
      PROVE  IInv'
  BY <1>5, <1>a, <1>b, ControllerFence DEF IInv
<1>6. CASE OperatorReload
  BY <1>6, <1>a, <1>c, HupFence, RestartFence DEF OperatorReload, db, IInv
<1>7. CASE GrowStale \/ UNCHANGED vars
  <2>1. UNCHANGED <<proc, generation, ctl, upgrade_lock>>
    BY <1>7 DEF GrowStale, vars, unit, db
  <2> QED
    BY <1>a, <1>c, <2>1, ServingFence DEF IInv
<1> QED
  BY <1>1, <1>2, <1>3, <1>4, <1>5, <1>6, <1>7 DEF Next

(* It holds when no controller has begun.                                    *)
LEMMA FenceInit == Init => IInv
<1> SUFFICES ASSUME Init PROVE IInv
  OBVIOUS
<1>1. ctl = [c \in Controllers |->
               [pc |-> "start", via |-> NoOne, pid |-> NoOne, entered |-> FALSE, direct |-> FALSE,
                replaced |-> FALSE, handoff |-> FALSE, outcome |-> "none"]]
  BY DEF Init
<1>2. CtlType
  BY <1>1 DEF CtlType, CtlRec, Pcs
<1>3. \A c \in Controllers : ctl[c].pc = "start" /\ ~ctl[c].entered
  BY <1>1
<1>4. CommandInv
  BY <1>3 DEF CommandInv, Between
<1>5. FenceInv
  BY <1>3 DEF FenceInv, Fenced
<1> QED
  BY <1>2, <1>4, <1>5, ProcInit DEF IInv

(* The invariant of the upgrade holds.                                       *)
THEOREM Invariance == Spec => []IInv
  BY FenceInit, FenceStep, PTL DEF Spec

(* The upgrade fence: no operation that the dispatcher refuses while         *)
(* upgrading runs in any process while a controller that was let in by the   *)
(* process behind tako.sock holds the lock, one admitted before included.    *)
THEOREM FenceHolds == Spec => []QuietUpgrade
<1>1. IInv => QuietUpgrade
  BY UpgradeAssumption DEF IInv, ProcInv, TypeOK, FenceInv, Fenced, QuietUpgrade
<1> QED
  BY <1>1, Invariance, PTL

-----------------------------------------------------------------------------
(* What a controller reports.                                                *)

(* A controller that has replaced the binary and may yet put the saved one   *)
(* back.                                                                     *)
Live(c) ==
    ctl[c].pc \in {"compare", "reload", "wait", "recheck", "exit", "unchanged", "released",
                   "cleanup", "restore"}

Early == {"start", "enter", "locked", "info", "install"}

(* The installed binary stays the new one while somebody is at work on it:   *)
(* the old one is saved only while a single controller could put it back.    *)
BinaryInv ==
    /\ \A c \in Controllers :
          Live(c) \/ ctl[c].pc \in {"restart", "restarting"} => ctl[c].replaced
    /\ \A c \in Controllers : ctl[c].pc \in Early => ~ctl[c].replaced
    /\ \A c \in Controllers : Live(c) => binary = "new"
    /\ prev = "old" => \A c, d \in Controllers : Live(c) /\ Live(d) => c = d
    /\ (\A c \in Controllers : ~ctl[c].replaced) => binary = "old"
    /\ \A c \in Controllers : ~Others(c) /\ Live(c) => prev = "old"
    /\ \A c \in Controllers : ~Others(c) /\ ctl[c].pc \in {"restart", "restarting"} => binary = "old"

(* After the restart of a roll-back nothing of the new binary gets through.  *)
RollbackInv ==
    \A c \in Controllers : ~Others(c) /\ ctl[c].pc = "restarting" =>
        \/ main = NoOne \/ proc[main].stage = "stopping"
        \/ \A p \in Procs : Alive(p) => proc[p].version = "old"

(* Process ids follow the socket; only the child of a reload honours a       *)
(* marker; a process that is no child was started when nothing else ran.     *)
OrderInv ==
    /\ symlink <= spawned
    /\ \A p \in Procs : Alive(p) /\ proc[p].stage # "spawned" => p <= symlink
    /\ \A p \in Procs : ~proc[p].child => proc[p].expected = NoOne
    /\ \A p, q \in Procs : proc[p].stage \in Booting /\ ~proc[p].child /\ q < p => ~Alive(q)

(* A process that is going to take the lock of c away. *)
Clears(c, p) ==
    /\ ~proc[p].child /\ proc[p].stage \in Booting \ {"restoring"}
    /\ proc[p].stage \in {"clearing", "unlocking"} => proc[p].owner = c

(* The processes a controller may take for the one it waits for, or did.     *)
Late(c, p) ==
    \/ ctl[c].pc \in {"install", "compare", "reload", "wait"} /\ p > ctl[c].pid
    \/ ctl[c].pc \in {"recheck", "exit"} /\ p >= ctl[c].pid

Renewed(c, p) == proc[p].version = "new" \/ ~Alive(p) \/ Clears(c, p)

(* Unless somebody else reloads the server, a reload starts the new binary,  *)
(* and a process that answers a controller while its lock is held is new.    *)
NewInv ==
    "reload" \notin kinds =>
        /\ \A p \in Procs : proc[p].child => proc[p].version = "new"
        /\ \A c \in Controllers, p \in Procs : upgrade_lock = c /\ Late(c, p) => Renewed(c, p)
        /\ \A c \in Controllers :
              ctl[c].pc = "released" /\ ctl[c].handoff /\ proc[ctl[c].via].stage \in Accepting =>
                  proc[ctl[c].via].version = "new"

(* What a controller that waits remembers. *)
WaitInv ==
    \A c \in Controllers :
        /\ ctl[c].pc \in {"install", "compare", "reload", "wait", "recheck", "exit"} =>
              ctl[c].pid \in Procs /\ ctl[c].pid <= symlink
        /\ ctl[c].pc = "exit" /\ ctl[c].via # NoOne => ctl[c].pid <= ctl[c].via
        /\ ctl[c].pc \in {"start", "enter", "locked", "info", "install", "compare", "unchanged"} =>
              ~ctl[c].handoff
        /\ ctl[c].pc \in {"info", "install", "compare", "reload", "wait", "recheck"} =>
              ctl[c].via = NoOne

OutcomeInv == BinaryInv /\ RollbackInv /\ OrderInv /\ NewInv /\ WaitInv

(* How a controller gets to where it is.                                     *)
Arrives(c) ==
    /\ ctl'[c].pc \in {"start", "enter", "locked", "info"} =>
          ctl[c].pc \in {"start", "enter", "locked"}
    /\ ctl'[c].pc = "info" => ctl'[c].via = NoOne
    /\ ctl'[c].pc = "install" => Info(c)
    /\ ctl'[c].pc = "compare" => Install(c)
    /\ ctl'[c].pc = "reload" => Compare(c)
    /\ ctl'[c].pc = "wait" => Reload(c)
    /\ ctl'[c].pc = "recheck" => WaitReady(c)
    /\ ctl'[c].pc = "exit" => Recheck(c) \/ Send(c)
    /\ ctl'[c].pc = "unchanged" => Compare(c) \/ Send(c)
    /\ ctl'[c].pc = "released" => ExitLock(c)
    /\ ctl'[c].pc = "cleanup" => ExitMode(c)
    /\ ctl'[c].pc = "restore" => Live(c) \/ (ctl[c].pc \in Early /\ ctl[c].replaced)
    /\ ctl'[c].pc = "restart" => Restore(c)
    /\ ctl'[c].pc = "restarting" => Restart(c)
    /\ ctl'[c].replaced = ctl[c].replaced \/ (Install(c) /\ ctl'[c].replaced)
    /\ ctl'[c].pc \in {"start", "enter", "locked", "info", "install", "compare", "unchanged"} =>
          ctl'[c].handoff = ctl[c].handoff

(* Each step of a controller is one of those ways.                           *)
LEMMA ControllerArrives ==
    ASSUME TypeOK, CtlType, NEW c \in Controllers,
           Controller(c) \/ SshFails(c) \/ ExitFails(c) \/ AnswerLost(c) \/ Killed(c)
    PROVE  Arrives(c) /\ \A d \in Controllers \ {c} : ctl'[d] = ctl[d]
<1>a. ctl[c] \in CtlRec /\ ctl \in [Controllers -> CtlRec]
  BY DEF CtlType
<1>1. \A d \in Controllers \ {c} : ctl'[d] = ctl[d]
  BY <1>a DEF Controller, SshFails, ExitFails, AnswerLost, Killed, CheckVersion, Send, NoAnswer,
              EnterLock,
              EnterRefused, EnterMode, Info, Install, Compare, Reload, WaitReady, WaitTimesOut,
              Recheck, ExitLock, ExitRefused, ExitMode, Cleanup, Restore, Restart, Restarted,
              UndoLock, UndoMode, Unmark, Report, Goto, Fails, RollbackFails
<1> SUFFICES Arrives(c)
  BY <1>1
<1>2. Fails(c) /\ (Live(c) \/ ctl[c].pc \in Early) => Arrives(c)
  <2> SUFFICES ASSUME Fails(c), Live(c) \/ ctl[c].pc \in Early
               PROVE  Arrives(c)
    OBVIOUS
  <2>1. ctl'[c] = [ctl[c] EXCEPT !.pc = Failed(ctl[c]), !.via = NoOne]
    BY <1>a DEF Fails, CtlRec
  <2>2. Failed(ctl[c]) \in {"restore", "undo", "unmark"}
        /\ (Failed(ctl[c]) = "restore" => ctl[c].replaced)
    BY DEF Failed
  <2>3. ctl'[c].pc = Failed(ctl[c]) /\ ctl'[c].replaced = ctl[c].replaced
    BY <2>1, <1>a DEF CtlRec
  <2> QED
    BY <2>2, <2>3 DEF Arrives
<1>3. RollbackFails(c) => Arrives(c)
  <2> SUFFICES ASSUME RollbackFails(c)
               PROVE  Arrives(c)
    OBVIOUS
  <2>1. ctl'[c].pc \in {"undo", "unmark"} /\ ctl'[c].replaced = ctl[c].replaced
    BY <1>a DEF RollbackFails, CtlRec
  <2> QED
    BY <2>1 DEF Arrives
<1>4. CASE CheckVersion(c) \/ Send(c) \/ NoAnswer(c)
  <2>1. CASE CheckVersion(c)
    BY <1>a, <2>1 DEF CheckVersion, Arrives, CtlRec
  <2>2. CASE Send(c)
    BY <1>a, <2>2 DEF Send, Arrives, CtlRec
  <2>3. CASE NoAnswer(c)
    <3>1. CASE Fails(c) /\ ctl[c].pc \in {"enter", "locked", "exit", "released", "unchanged"}
      BY <1>2, <3>1 DEF Live, Early
    <3>2. CASE ctl' = [ctl EXCEPT ![c].pc = "unmark", ![c].via = NoOne]
      BY <1>a, <3>2 DEF Arrives, CtlRec
    <3> QED
      BY <2>3, <3>1, <3>2 DEF NoAnswer
  <2> QED
    BY <1>4, <2>1, <2>2, <2>3
<1>5. CASE EnterLock(c) \/ EnterRefused(c) \/ EnterMode(c)
  <2>1. CASE EnterLock(c)
    BY <1>a, <2>1 DEF EnterLock, Handles, Goto, Arrives, CtlRec
  <2>2. CASE EnterRefused(c)
    BY <1>2, <2>2 DEF EnterRefused, Handles, Early
  <2>3. CASE EnterMode(c)
    BY <1>a, <2>3 DEF EnterMode, Handles, Arrives, CtlRec
  <2> QED
    BY <1>5, <2>1, <2>2, <2>3
<1>6. CASE Info(c) \/ Install(c) \/ Compare(c) \/ Reload(c)
  <2>1. CASE Info(c)
    BY <1>a, <2>1 DEF Info, Arrives, CtlRec
  <2>2. CASE Install(c)
    BY <1>a, <2>2 DEF Install, Arrives, CtlRec
  <2>3. CASE Compare(c)
    <3>1. CASE Goto(c, "unchanged")
      BY <1>a, <2>3, <3>1 DEF Goto, Arrives, CtlRec
    <3>2. CASE Fails(c)
      BY <1>2, <2>3, <3>2 DEF Compare, Live
    <3>3. CASE ctl' = [ctl EXCEPT ![c].pc = "reload", ![c].handoff = TRUE]
      BY <1>a, <2>3, <3>3 DEF Arrives, CtlRec
    <3> QED
      BY <2>3, <3>1, <3>2, <3>3 DEF Compare
  <2>4. CASE Reload(c)
    <3>1. CASE Goto(c, "wait")
      BY <1>a, <2>4, <3>1 DEF Goto, Arrives, CtlRec
    <3>2. CASE Fails(c)
      BY <1>2, <2>4, <3>2 DEF Reload, Live
    <3> QED
      BY <2>4, <3>1, <3>2 DEF Reload
  <2> QED
    BY <1>6, <2>1, <2>2, <2>3, <2>4
<1>7. CASE WaitReady(c) \/ WaitTimesOut(c) \/ Recheck(c)
  <2>1. CASE WaitReady(c)
    BY <1>a, <2>1 DEF WaitReady, Arrives, CtlRec
  <2>2. CASE WaitTimesOut(c)
    BY <1>2, <2>2 DEF WaitTimesOut, Live
  <2>3. CASE Recheck(c)
    <3>1. CASE Goto(c, "exit")
      BY <1>a, <2>3, <3>1 DEF Goto, Arrives, CtlRec
    <3>2. CASE Fails(c)
      BY <1>2, <2>3, <3>2 DEF Recheck, Live
    <3> QED
      BY <2>3, <3>1, <3>2 DEF Recheck
  <2> QED
    BY <1>7, <2>1, <2>2, <2>3
<1>8. CASE ExitLock(c) \/ ExitRefused(c) \/ ExitMode(c) \/ Cleanup(c)
  <2>1. CASE ExitLock(c)
    BY <1>a, <2>1 DEF ExitLock, Goto, Arrives, CtlRec
  <2>2. CASE ExitRefused(c)
    BY <1>2, <2>2 DEF ExitRefused, Handles, Live
  <2>3. CASE ExitMode(c)
    BY <1>a, <2>3 DEF ExitMode, Arrives, CtlRec
  <2>4. CASE Cleanup(c)
    BY <1>a, <2>4 DEF Cleanup, Goto, Arrives, CtlRec
  <2> QED
    BY <1>8, <2>1, <2>2, <2>3, <2>4
<1>9. CASE Restore(c) \/ Restart(c) \/ Restarted(c) \/ UndoLock(c) \/ UndoMode(c) \/ Unmark(c)
  <2>1. CASE Restore(c)
    <3>1. CASE Goto(c, "restart")
      BY <1>a, <2>1, <3>1 DEF Goto, Arrives, CtlRec
    <3> QED
      BY <1>3, <2>1, <3>1 DEF Restore
  <2>2. CASE Restart(c)
    BY <1>a, <2>2 DEF Restart, Goto, Arrives, CtlRec
  <2>3. CASE Restarted(c)
    BY <1>a, <2>3 DEF Restarted, Arrives, CtlRec
  <2>4. CASE UndoLock(c)
    <3>1. ctl'[c].pc \in {"undone", "unmark"} /\ ctl'[c].replaced = ctl[c].replaced
      <4>1. CASE ctl' = [ctl EXCEPT ![c].pc = "undone"]
        BY <1>a, <4>1 DEF CtlRec
      <4>2. CASE ctl' = [ctl EXCEPT ![c].pc = "unmark", ![c].via = NoOne]
        BY <1>a, <4>2 DEF CtlRec
      <4> QED
        BY <2>4, <4>1, <4>2 DEF UndoLock, Goto
    <3> QED
      BY <3>1 DEF Arrives
  <2>5. CASE UndoMode(c)
    BY <1>a, <2>5 DEF UndoMode, Arrives, CtlRec
  <2>6. CASE Unmark(c)
    BY <1>a, <2>6 DEF Unmark, Report, Arrives, CtlRec
  <2> QED
    BY <1>9, <2>1, <2>2, <2>3, <2>4, <2>5, <2>6
<1>10. CASE SshFails(c) \/ ExitFails(c) \/ AnswerLost(c) \/ Killed(c)
  <2>1. CASE SshFails(c) \/ ExitFails(c)
    <3>1. Goto(c, "unmark") \/ Report(c) => Arrives(c)
      <4>1. ASSUME Goto(c, "unmark")
            PROVE  ctl'[c].pc = "unmark" /\ ctl'[c].replaced = ctl[c].replaced
        BY <1>a, <4>1 DEF Goto, CtlRec
      <4>2. ASSUME Report(c)
            PROVE  ctl'[c].pc = "done" /\ ctl'[c].replaced = ctl[c].replaced
        BY <1>a, <4>2 DEF Report, CtlRec
      <4> QED
        BY <4>1, <4>2 DEF Arrives
    <3> QED
      BY <1>2, <1>3, <2>1, <3>1 DEF SshFails, ExitFails, Live, Early
  <2>2. CASE AnswerLost(c)
    <3>1. /\ \/ ctl'[c].pc \in {"unmark", "undo"}
             \/ ctl'[c].pc = "restore" /\ ctl[c].pc \in {"reload", "wait", "cleanup"}
          /\ ctl'[c].replaced = ctl[c].replaced
      <4>1. CASE ctl' = [ctl EXCEPT ![c].pc = "unmark", ![c].entered = FALSE]
        BY <1>a, <4>1 DEF CtlRec
      <4>2. CASE /\ ctl[c].pc = "cleanup"
                 /\ ctl' = [ctl EXCEPT ![c].pc = "restore", ![c].entered = TRUE,
                                       ![c].outcome = "none"]
        BY <1>a, <4>2 DEF CtlRec
      <4>3. CASE /\ ctl[c].pc = "reload"
                 /\ ctl' = [ctl EXCEPT ![c].pc = "restore", ![c].handoff = FALSE]
        BY <1>a, <4>3 DEF CtlRec
      <4>4. CASE Goto(c, "undo")
        BY <1>a, <4>4 DEF Goto, CtlRec
      <4>5. CASE ctl[c].pc = "wait" /\ Goto(c, "restore")
        BY <1>a, <4>5 DEF Goto, CtlRec
      <4> QED
        BY <2>2, <4>1, <4>2, <4>3, <4>4, <4>5 DEF AnswerLost
    <3> QED
      BY <3>1 DEF Arrives, Live
  <2>3. CASE Killed(c)
    BY <1>a, <2>3 DEF Killed, Goto, Arrives, CtlRec
  <2> QED
    BY <1>10, <2>1, <2>2, <2>3
<1> QED
  BY <1>4, <1>5, <1>6, <1>7, <1>8, <1>9, <1>10 DEF Controller

(* A step of a controller, its failures included.                            *)
Steps(c) == Controller(c) \/ SshFails(c) \/ ExitFails(c) \/ AnswerLost(c) \/ Killed(c)

(* Only three steps touch the installed binary or the saved one.             *)
LEMMA BinaryFrame ==
    ASSUME NEW c \in Controllers, Steps(c)
    PROVE  UNCHANGED <<binary, prev>> \/ Install(c) \/ Restore(c) \/ Cleanup(c)
  BY DEF Steps, Controller, SshFails, ExitFails, AnswerLost, Killed, CheckVersion, Send, NoAnswer,
         EnterLock,
         EnterRefused, EnterMode, Info, Compare, Reload, WaitReady, WaitTimesOut,
         Recheck, ExitLock, ExitRefused, ExitMode, Restart, Restarted,
         UndoLock, UndoMode, Unmark, files

(* A controller that may put the saved binary back has installed the new one.*)
LEMMA LiveBefore ==
    ASSUME BinaryInv, CtlType, NEW c \in Controllers, Arrives(c)
    PROVE  /\ Live(c)' => Live(c) \/ Install(c)
           /\ ctl'[c].pc \in {"restart", "restarting"} =>
                 Restore(c) \/ Restart(c)
           /\ ctl'[c].pc \in Early => ctl[c].pc \in Early
           /\ ctl[c].replaced => ctl'[c].replaced
           /\ Restore(c) => ctl[c].replaced /\ Live(c)
           /\ Cleanup(c) => ctl[c].replaced
           /\ Install(c) => ~ctl[c].replaced /\ ctl'[c].replaced /\ ctl'[c].pc = "compare"
           /\ ctl'[c].replaced /\ ~ctl[c].replaced => Install(c)
<1>a. ctl[c] \in CtlRec
  BY DEF CtlType
<1>1. Live(c)' => Live(c) \/ Install(c)
  <2>1. ctl[c].pc \in Early => ~ctl[c].replaced
    BY DEF BinaryInv
  <2>2. Send(c) => ctl'[c].pc = ctl[c].pc
    BY <1>a DEF Send, CtlType, CtlRec
  <2>3. /\ Compare(c) => ctl[c].pc = "compare"
        /\ Reload(c) => ctl[c].pc = "reload"
        /\ WaitReady(c) => ctl[c].pc = "wait"
        /\ Recheck(c) => ctl[c].pc = "recheck"
        /\ ExitLock(c) => ctl[c].pc \in {"exit", "unchanged"}
        /\ ExitMode(c) => ctl[c].pc = "released"
    BY DEF Compare, Reload, WaitReady, Recheck, ExitLock, ExitMode, Handles
  <2> QED
    BY <2>1, <2>2, <2>3 DEF Live, Arrives
<1>2. ctl'[c].pc \in Early => ctl[c].pc \in Early
  BY DEF Arrives, Early, Info
<1>3. Install(c) => ~ctl[c].replaced /\ ctl'[c].replaced /\ ctl'[c].pc = "compare"
  <2>1. Install(c) => ctl'[c].replaced /\ ctl'[c].pc = "compare"
    BY ZenonT(40), <1>a DEF Install, CtlType, CtlRec
  <2>2. Install(c) => ~ctl[c].replaced
    BY DEF BinaryInv, Early, Install
  <2> QED
    BY <2>1, <2>2
<1>4. Restore(c) \/ Cleanup(c) => ctl[c].replaced /\ Live(c)
  BY DEF BinaryInv, Restore, Cleanup, Live
<1>5. ctl'[c].pc \in {"restart", "restarting"} => Restore(c) \/ Restart(c)
  BY DEF Arrives
<1>6. ctl'[c].replaced = ctl[c].replaced \/ (Install(c) /\ ctl'[c].replaced)
  BY DEF Arrives
<1> QED
  BY <1>1, <1>2, <1>3, <1>4, <1>5, <1>6

(* What a step of a controller does to the installed binary and the saved    *)
(* one.                                                                      *)
LEMMA BinaryStep ==
    ASSUME TypeOK, CtlType, BinaryInv, NEW c \in Controllers, Steps(c), Arrives(c),
           \A d \in Controllers \ {c} : ctl'[d] = ctl[d]
    PROVE  BinaryInv'
<1>a. ctl[c] \in CtlRec /\ ctl \in [Controllers -> CtlRec]
  BY DEF CtlType
<1>b. UNCHANGED <<binary, prev>> \/ Install(c) \/ Restore(c) \/ Cleanup(c)
  BY BinaryFrame
<1>c. /\ Live(c)' => Live(c) \/ Install(c)
      /\ ctl'[c].pc \in {"restart", "restarting"} => Restore(c) \/ Restart(c)
      /\ ctl'[c].pc \in Early => ctl[c].pc \in Early
      /\ ctl[c].replaced => ctl'[c].replaced
      /\ Restore(c) => ctl[c].replaced /\ Live(c)
      /\ Cleanup(c) => ctl[c].replaced
      /\ Install(c) => ~ctl[c].replaced /\ ctl'[c].replaced /\ ctl'[c].pc = "compare"
      /\ ctl'[c].replaced /\ ~ctl[c].replaced => Install(c)
  BY LiveBefore
<1>d. \A d \in Controllers \ {c} : ctl'[d] = ctl[d] /\ (Live(d)' <=> Live(d))
  BY DEF Live
<1>e. \A d \in Controllers : ctl[d].replaced => ctl'[d].replaced
  BY <1>c, <1>d
<1>f. \A d \in Controllers : Others(d) => Others(d)'
  BY <1>e DEF Others
<1>g. \A d \in Controllers \ {c} : Install(c) \/ Restore(c) \/ Cleanup(c) => Others(d)'
  BY <1>c, <1>e DEF Others
<1>h. /\ Install(c) => prev' = binary /\ binary' = "new"
      /\ Restore(c) => /\ ctl[c].pc = "restore" /\ prev' = prev
                       /\ binary' = IF prev = "none" THEN binary ELSE prev
      /\ Cleanup(c) => prev' = "none" /\ binary' = binary /\ ctl'[c].pc = "unmark"
  <2>1. Restore(c) => binary' = IF prev = "none" THEN binary ELSE prev
    BY DEF Restore
  <2>2. Cleanup(c) => ctl'[c].pc = "unmark"
    BY <1>a DEF Cleanup, Goto, CtlRec
  <2> QED
    BY <2>1, <2>2 DEF Install, Restore, Cleanup
<1>i. Restart(c) => ctl[c].pc = "restart" /\ UNCHANGED <<binary, prev>>
  BY DEF Restart, files
<1>1. \A d \in Controllers :
          Live(d)' \/ ctl'[d].pc \in {"restart", "restarting"} => ctl'[d].replaced
  BY <1>c, <1>d, <1>e, <1>i DEF BinaryInv
<1>2. \A d \in Controllers : ctl'[d].pc \in Early => ~ctl'[d].replaced
  <2>1. ctl'[c].pc \in Early => ~ctl'[c].replaced
    <3>1. "compare" \notin Early
      BY DEF Early
    <3> QED
      BY <1>c, <3>1 DEF BinaryInv
  <2> QED
    BY <1>d, <2>1 DEF BinaryInv
<1>j. \A d \in Controllers : Live(d)' => Live(d) \/ (d = c /\ Install(c))
  BY <1>c, <1>d
<1>k. ~(Restore(c) /\ Live(c)' /\ prev # "none")
  <2>1. Restore(c) /\ prev # "none" => ctl'[c].pc = "restart"
    BY <1>a DEF Restore, Goto, CtlRec
  <2> QED
    BY <2>1 DEF Live
<1>l. ~(Cleanup(c) /\ Live(c)')
  BY <1>h DEF Live
<1>m. binary \in {"old", "new"} /\ prev \in {"none", "old", "new"}
  BY DEF TypeOK
<1>3. \A d \in Controllers : Live(d)' => binary' = "new"
  <2> SUFFICES ASSUME NEW d \in Controllers, Live(d)', ~Install(c)
               PROVE  binary' = "new"
    BY <1>h
  <2>1. Live(d) /\ binary = "new"
    BY <1>j DEF BinaryInv
  <2>2. CASE Restore(c) /\ prev = "old"
    <3>1. d = c
      BY <1>c, <2>1, <2>2 DEF BinaryInv
    <3> QED
      BY <1>k, <2>2, <3>1
  <2> QED
    BY <1>b, <1>h, <1>m, <2>1, <2>2
<1>4. prev' = "old" => \A d, e \in Controllers : Live(d)' /\ Live(e)' => d = e
  <2> SUFFICES ASSUME prev' = "old", NEW d \in Controllers, NEW e \in Controllers,
                      Live(d)', Live(e)'
               PROVE  d = e
    OBVIOUS
  <2>1. CASE Install(c)
    <3>1. ~Live(d) /\ ~Live(e)
      BY <1>h, <2>1 DEF BinaryInv
    <3> QED
      BY <1>j, <3>1
  <2>2. CASE ~Install(c)
    <3>1. Live(d) /\ Live(e) /\ prev = "old"
      BY <1>b, <1>h, <1>j, <2>2
    <3> QED
      BY <3>1 DEF BinaryInv
  <2> QED
    BY <2>1, <2>2
<1>5. (\A d \in Controllers : ~ctl'[d].replaced) => binary' = "old"
  <2> SUFFICES ASSUME \A d \in Controllers : ~ctl'[d].replaced
               PROVE  binary' = "old"
    OBVIOUS
  <2>1. ~Install(c) /\ ~Restore(c) /\ \A d \in Controllers : ~ctl[d].replaced
    BY <1>c, <1>e
  <2> QED
    BY <1>b, <1>h, <2>1 DEF BinaryInv
<1>6. \A d \in Controllers : ~Others(d)' /\ Live(d)' => prev' = "old"
  <2> SUFFICES ASSUME NEW d \in Controllers, ~Others(d)', Live(d)'
               PROVE  prev' = "old"
    OBVIOUS
  <2>1. CASE Install(c)
    <3>1. d = c
      BY <1>g, <2>1
    <3>2. \A e \in Controllers : ~ctl[e].replaced
      BY <1>c, <1>f, <2>1, <3>1 DEF Others
    <3> QED
      BY <1>h, <2>1, <3>2 DEF BinaryInv
  <2>2. CASE ~Install(c)
    <3>1. Live(d) /\ ~Others(d) /\ prev = "old"
      BY <1>f, <1>j, <2>2 DEF BinaryInv
    <3>2. CASE Cleanup(c)
      BY <1>g, <1>l, <3>2
    <3> QED
      BY <1>b, <1>h, <2>2, <3>1, <3>2
  <2> QED
    BY <2>1, <2>2
<1>7. \A d \in Controllers :
          ~Others(d)' /\ ctl'[d].pc \in {"restart", "restarting"} => binary' = "old"
  <2> SUFFICES ASSUME NEW d \in Controllers, ~Others(d)',
                      ctl'[d].pc \in {"restart", "restarting"}
               PROVE  binary' = "old"
    OBVIOUS
  <2>0. ~Others(d)
    BY <1>f
  <2>1. CASE d = c
    <3>1. CASE Restore(c)
      <4>1. prev = "old"
        BY <1>c, <2>0, <2>1, <3>1 DEF BinaryInv
      <4> QED
        BY <1>h, <3>1, <4>1
    <3>2. CASE Restart(c)
      BY <1>i, <2>0, <2>1, <3>2 DEF BinaryInv
    <3> QED
      BY <1>c, <2>1, <3>1, <3>2
  <2>2. CASE d # c
    <3>1. UNCHANGED <<binary, prev>> /\ ctl[d].pc \in {"restart", "restarting"}
      BY <1>b, <1>d, <1>g, <2>2
    <3> QED
      BY <2>0, <3>1 DEF BinaryInv
  <2> QED
    BY <2>1, <2>2
<1> QED
  BY <1>1, <1>2, <1>3, <1>4, <1>5, <1>6, <1>7 DEF BinaryInv

(* What a step leaves of a process that it does not bring further up.        *)
Ages(q) ==
    \/ proc'[q].stage = "gone" /\ ~proc'[q].child /\ proc'[q].expected = NoOne
    \/ /\ proc'[q].version = proc[q].version /\ proc'[q].child = proc[q].child
       /\ proc'[q].expected = proc[q].expected /\ proc'[q].owner = proc[q].owner
       /\ proc'[q].stage = proc[q].stage \/ {proc[q].stage, proc'[q].stage} \subseteq Accepting

(* A main process that is stopping, or none at all, gives way to none.       *)
MainAges ==
    /\ main = NoOne => main' = NoOne
    /\ main # NoOne /\ proc[main].stage = "stopping" =>
          main' = NoOne \/ (main' = main /\ proc'[main].stage = "stopping")

(* No process starts or gets further.                                        *)
Steady == UNCHANGED <<spawned, symlink>> /\ MainAges /\ \A q \in Procs : Ages(q)

(* A process starts.                                                         *)
Births(child) ==
    /\ Spawn /\ UNCHANGED symlink
    /\ \A q \in Procs : q # spawned + 1 => Ages(q)
    /\ /\ proc'[spawned + 1].stage = "spawned" /\ proc'[spawned + 1].child = child
       /\ proc'[spawned + 1].version = binary /\ proc'[spawned + 1].expected = NoOne

(* A process gets one step further in its startup.                           *)
Rises(p) ==
    /\ UNCHANGED <<spawned, main, ctl, binary, kinds>>
    /\ proc[p].stage \in Booting /\ proc'[p].stage \in Rising \ {"spawned"}
    /\ symlink' = p
    /\ \A q \in Procs : q # p => proc'[q] = proc[q]
    /\ proc'[p].version = proc[p].version /\ proc'[p].child = proc[p].child
    /\ ~proc[p].child => proc'[p].expected = NoOne
    /\ \A c \in Controllers : Clears(c, p) /\ upgrade_lock' = c => Clears(c, p)'

(* The end of a process.                                                     *)
LEMMA GoneAges ==
    ASSUME ProcInv, NEW p \in Procs, Gone(p)
    PROVE  Steady
<1>1. \A q \in Procs : Ages(q)
  <2> SUFFICES ASSUME NEW q \in Procs
               PROVE  Ages(q)
    OBVIOUS
  <2>1. proc'[q] = [Fresh EXCEPT !.stage = "gone"] \/ proc'[q] = proc[q]
    BY DEF Gone, Ends
  <2>2. CASE proc'[q] = [Fresh EXCEPT !.stage = "gone"]
    BY <2>2 DEF Ages, Fresh
  <2>3. CASE proc'[q] = proc[q]
    BY <2>3 DEF Ages
  <2> QED
    BY <2>1, <2>2, <2>3
<1>2. MainAges
  <2>1. main = NoOne => main' = NoOne
    BY DEF Gone
  <2>2. main # NoOne /\ p # main => proc'[main] = proc[main]
    BY DEF Gone, Ends, ProcInv, TypeOK
  <2> QED
    BY <2>1, <2>2 DEF MainAges, Gone
<1> QED
  BY <1>1, <1>2 DEF Steady, Gone

(* One field is written that no process's rise depends on.                   *)
LEMMA FieldAges ==
    ASSUME ProcInv, NEW f, UNCHANGED <<spawned, main, symlink>>,
           \/ proc' = proc
           \/ \E m : proc' = [proc EXCEPT ![f].mode = m]
           \/ \E o : proc' = [proc EXCEPT ![f].op = o]
    PROVE  Steady
<1>a. proc \in [Procs -> ProcRec] /\ main \in Procs \cup {NoOne}
  BY DEF ProcInv, TypeOK, ProcRec, Stages
<1>1. \A q \in Procs :
          /\ proc'[q].version = proc[q].version /\ proc'[q].child = proc[q].child
          /\ proc'[q].expected = proc[q].expected /\ proc'[q].owner = proc[q].owner
          /\ proc'[q].stage = proc[q].stage
  <2> SUFFICES ASSUME NEW q \in Procs
               PROVE  /\ proc'[q].version = proc[q].version /\ proc'[q].child = proc[q].child
                      /\ proc'[q].expected = proc[q].expected /\ proc'[q].owner = proc[q].owner
                      /\ proc'[q].stage = proc[q].stage
    OBVIOUS
  <2>a. proc[q] \in ProcRec
    BY <1>a
  <2>1. CASE \E m : proc' = [proc EXCEPT ![f].mode = m]
    <3>1. PICK m : proc' = [proc EXCEPT ![f].mode = m]
      BY <2>1
    <3>2. proc'[q] = proc[q] \/ proc'[q] = [proc[q] EXCEPT !.mode = m]
      BY <1>a, <3>1
    <3> QED
      BY <2>a, <3>2 DEF ProcRec
  <2>2. CASE \E o : proc' = [proc EXCEPT ![f].op = o]
    <3>1. PICK o : proc' = [proc EXCEPT ![f].op = o]
      BY <2>2
    <3>2. proc'[q] = proc[q] \/ proc'[q] = [proc[q] EXCEPT !.op = o]
      BY <1>a, <3>1
    <3> QED
      BY <2>a, <3>2 DEF ProcRec
  <2> QED
    BY <2>1, <2>2
<1> QED
  BY <1>a, <1>1 DEF Steady, MainAges, Ages

(* A process reports that it is ready, and its parent stops.                 *)
LEMMA ReadyAges ==
    ASSUME ProcInv, NEW p \in Procs, Ready(p)
    PROVE  Steady
<1>a. proc \in [Procs -> ProcRec] /\ main \in Procs \cup {NoOne}
  BY DEF ProcInv, TypeOK, ProcRec, Stages
<1>b. proc[p].stage = "serving" /\ Alive(p) /\ main # NoOne
  BY StageSets DEF Ready, ProcInv, OneStarting, Alive
<1>c. main \in Procs /\ Alive(main)
  BY <1>a, <1>b DEF ProcInv, OneStarting
<1>d. main # p => proc[main].stage \in Accepting
  <2>1. p = spawned
    BY <1>b, StageSets DEF ProcInv, OneStarting
  <2>2. main # p => proc[main].stage \notin Rising
    BY <1>c, <2>1 DEF ProcInv, OneStarting
  <2> QED
    BY <1>c, <2>2, StageSets DEF Alive
<1>1. \A q \in Procs : Ages(q)
  <2> SUFFICES ASSUME NEW q \in Procs
               PROVE  Ages(q)
    OBVIOUS
  <2>a. proc[q] \in ProcRec
    BY <1>a
  <2>1. CASE q = p
    <3>1. proc'[q] = [proc[q] EXCEPT !.stage = "ready"]
      BY <2>1 DEF Ready
    <3> QED
      BY <1>b, <2>1, <2>a, <3>1 DEF Ages, ProcRec, Accepting
  <2>2. CASE q # p /\ q = main /\ proc[p].child
    <3>1. proc'[q] = [proc[q] EXCEPT !.stage = "stopping"]
      BY <2>2 DEF Ready
    <3> QED
      BY <1>d, <2>2, <2>a, <3>1 DEF Ages, ProcRec, Accepting
  <2>3. CASE q # p /\ ~(q = main /\ proc[p].child)
    <3>1. proc'[q] = proc[q]
      BY <2>3 DEF Ready
    <3> QED
      BY <3>1 DEF Ages
  <2> QED
    BY <2>1, <2>2, <2>3
<1>2. MainAges
  <2> SUFFICES ASSUME proc[main].stage = "stopping"
               PROVE  main' = main /\ proc'[main].stage = "stopping"
    BY <1>b DEF MainAges
  <2>1. main # p /\ main' = main
    BY <1>b DEF Ready
  <2>2. proc'[main] = [proc[main] EXCEPT !.stage = "stopping"] \/ proc'[main] = proc[main]
    BY <1>c, <2>1 DEF Ready
  <2> QED
    BY <1>a, <1>c, <2>1, <2>2 DEF ProcRec
<1> QED
  BY <1>1, <1>2 DEF Steady, Ready

(* A restart of the unit.                                                    *)
LEMMA RestartAges ==
    ASSUME ProcInv, RestartUnit
    PROVE  /\ Steady
           /\ main' = NoOne \/ proc'[main'].stage = "stopping"
<1>a. proc \in [Procs -> ProcRec] /\ main \in Procs \cup {NoOne}
  BY DEF ProcInv, TypeOK, ProcRec, Stages
<1>1. CASE main = NoOne /\ UNCHANGED <<proc, unit>>
  BY <1>1, FieldAges DEF unit
<1>2. CASE main # NoOne /\ Gone(main)
  BY <1>2, <1>a, GoneAges DEF Gone
<1>3. CASE /\ main # NoOne /\ proc[main].stage \in Accepting
           /\ proc' = [proc EXCEPT ![main].stage = "stopping"]
           /\ UNCHANGED unit
  <2>1. proc'[main].stage = "stopping" /\ main \in Procs
    BY <1>3, <1>a DEF ProcRec
  <2>2. \A q \in Procs : Ages(q)
    <3> SUFFICES ASSUME NEW q \in Procs
                 PROVE  Ages(q)
      OBVIOUS
    <3>1. proc[q] \in ProcRec
      BY <1>a
    <3>2. CASE q = main
      <4>1. proc'[q] = [proc[q] EXCEPT !.stage = "stopping"]
        BY <1>3, <1>a, <3>2
      <4> QED
        BY <1>3, <3>1, <3>2, <4>1 DEF Ages, ProcRec, Accepting
    <3>3. CASE q # main
      <4>1. proc'[q] = proc[q]
        BY <1>3, <1>a, <3>3
      <4> QED
        BY <4>1 DEF Ages
    <3> QED
      BY <3>2, <3>3
  <2> QED
    BY <1>3, <2>1, <2>2 DEF Steady, MainAges, unit
<1> QED
  BY <1>1, <1>2, <1>3 DEF RestartUnit

(* A process is born in a state f that differs from the present one in       *)
(* nothing that matters.                                                     *)
LEMMA BornBirths ==
    ASSUME ProcInv, NEW f \in [Procs -> ProcRec], NEW child \in BOOLEAN,
           NEW by \in Controllers \cup {NoOne},
           Spawn, UNCHANGED symlink, proc' = Born(f, child, by),
           \A q \in Procs : f[q] = proc[q] \/ f[q] = [proc[q] EXCEPT !.hup = TRUE]
    PROVE  Births(child)
<1>a. proc \in [Procs -> ProcRec] /\ spawned + 1 \in Procs
  <2>1. proc \in [Procs -> ProcRec]
    BY DEF ProcInv, TypeOK, ProcRec, Stages
  <2>2. spawned + 1 \in Procs
    BY UpgradeAssumption DEF ProcInv, TypeOK, Spawn, Procs
  <2> QED
    BY <2>1, <2>2
<1>1. proc'[spawned + 1] = [Fresh EXCEPT !.stage = "spawned", !.child = child, !.by = by,
                                        !.version = binary]
  BY <1>a DEF Born
<1>2. /\ proc'[spawned + 1].stage = "spawned" /\ proc'[spawned + 1].child = child
      /\ proc'[spawned + 1].version = binary /\ proc'[spawned + 1].expected = NoOne
  BY <1>1 DEF Fresh
<1>3. \A q \in Procs : q # spawned + 1 => Ages(q)
  <2> SUFFICES ASSUME NEW q \in Procs, q # spawned + 1
               PROVE  Ages(q)
    OBVIOUS
  <2>1. proc'[q] = proc[q] \/ proc'[q] = [proc[q] EXCEPT !.hup = TRUE]
    BY DEF Born
  <2>2. proc[q] \in ProcRec
    BY <1>a
  <2> QED
    BY <2>1, <2>2 DEF Ages, ProcRec
<1> QED
  BY <1>2, <1>3 DEF Births

(* A signal to the main process.                                             *)
LEMMA HupBirths ==
    ASSUME ProcInv, NEW by \in Controllers \cup {NoOne}, Hup(by)
    PROVE  Steady \/ (Births(TRUE) /\ MainReady /\ UNCHANGED main)
<1>a. proc \in [Procs -> ProcRec] /\ main \in Procs
  BY DEF ProcInv, TypeOK, ProcRec, Stages, Hup, MainReady
<1>1. CASE UNCHANGED <<proc, unit>>
  BY <1>1, FieldAges DEF unit
<1>2. CASE /\ Spawn /\ UNCHANGED <<main, symlink, generation>>
           /\ proc' = Born([proc EXCEPT ![main].hup = TRUE], TRUE, by)
  <2> DEFINE f == [proc EXCEPT ![main].hup = TRUE]
  <2>1. f \in [Procs -> ProcRec]
    BY <1>a, FieldType
  <2>2. \A q \in Procs : f[q] = proc[q] \/ f[q] = [proc[q] EXCEPT !.hup = TRUE]
    BY <1>a
  <2>3. proc' = Born(f, TRUE, by)
    BY <1>2
  <2> HIDE DEF f
  <2>4. Births(TRUE)
    BY <1>2, <2>1, <2>2, <2>3, BornBirths
  <2> QED
    BY <1>2, <2>4 DEF Hup
<1> QED
  BY <1>1, <1>2 DEF Hup

(* The unit is started.                                                      *)
LEMMA BootBirths ==
    ASSUME ProcInv, Boot
    PROVE  Births(FALSE)
<1>a. proc \in [Procs -> ProcRec]
  BY DEF ProcInv, TypeOK, ProcRec, Stages
<1> QED
  BY <1>a, BornBirths DEF Boot

(* The steps of a startup, and its ends.                                     *)
LEMMA StartupRises ==
    ASSUME IInv, OrderInv, NEW p \in Procs, Startup(p)
    PROVE  Steady \/ Rises(p)
<1>a. proc \in [Procs -> ProcRec] /\ proc[p] \in ProcRec /\ ProcInv
  BY DEF IInv, ProcInv, TypeOK, ProcRec, Stages
<1>b. /\ {"spawned", "bound", "claimed", "marked", "reading", "clearing", "unlocking", "restoring"}
             = Booting
      /\ Rising = Booting \cup {"serving"}
  BY DEF Booting, Claiming, Rising
<1>c. ~proc[p].child => proc[p].expected = NoOne
  BY DEF OrderInv
<1>d. NoOne \notin Controllers
  BY UpgradeAssumption
<1>1. CASE Gone(p)
  BY <1>1, <1>a, GoneAges
<1>2. CASE Ready(p)
  BY <1>2, <1>a, ReadyAges
<1>3. CASE ~Gone(p) /\ ~Ready(p)
  <2>1. UNCHANGED <<spawned, main, ctl, binary, kinds>>
    BY <1>3 DEF Startup, Bind, Claim, ClaimTimesOut, TakeMarker, ReadMode, ReadOwner, ClearMode,
                ClearLock, Publish, Stopped, unit, files, budget
  <2>2. symlink' = p /\ proc[p].stage \in Booting
    <3>1. CASE Bind(p)
      BY <1>b, <3>1 DEF Bind
    <3>2. CASE ~Bind(p)
      <4>1. proc[p].stage \in Claiming \cup {"bound"} /\ symlink' = symlink
        BY <1>3, <3>2 DEF Startup, Claim, ClaimTimesOut, TakeMarker, ReadMode, ReadOwner,
                          ClearMode, ClearLock, Publish, Stopped, unit, Claiming
      <4> QED
        BY <1>a, <4>1 DEF ProcInv, LatestServes, Booting
    <3> QED
      BY <3>1, <3>2
  <2>3. \A q \in Procs : q # p => proc'[q] = proc[q]
    BY <1>3, <1>a DEF Startup, Bind, Claim, ClaimTimesOut, TakeMarker, ReadMode, ReadOwner,
                      ClearMode, ClearLock, Publish, Stopped
  <2>4. /\ proc'[p].stage \in Rising \ {"spawned"}
        /\ proc'[p].version = proc[p].version /\ proc'[p].child = proc[p].child
        /\ ~proc[p].child => proc'[p].expected = NoOne
    <3>1. CASE Bind(p) \/ Claim(p) \/ ClearLock(p)
      <4>1. \E x \in {"bound", "claimed", "restoring"} : proc'[p] = [proc[p] EXCEPT !.stage = x]
        BY <3>1, <1>a DEF Bind, Claim, ClearLock
      <4> QED
        BY <1>a, <1>b, <1>c, <4>1 DEF ProcRec
    <3>2. CASE TakeMarker(p)
      <4>1. proc'[p] = [proc[p] EXCEPT !.stage = "marked",
                                       !.expected = IF proc[p].child THEN marker ELSE NoOne]
        BY <3>2, <1>a DEF TakeMarker
      <4> QED
        BY <1>a, <1>b, <1>c, <4>1 DEF ProcRec
    <3>3. CASE ReadMode(p) \/ ClearMode(p)
      <4>1. \E x \in {"reading", "unlocking"}, m \in {"normal", server_mode} :
                proc'[p] = [proc[p] EXCEPT !.stage = x, !.mode = m]
        BY <3>3, <1>a DEF ReadMode, ClearMode
      <4> QED
        BY <1>a, <1>b, <1>c, <4>1 DEF ProcRec
    <3>4. CASE ReadOwner(p)
      <4>1. \E x \in {"restoring", "clearing"} :
                proc'[p] = [proc[p] EXCEPT !.stage = x, !.owner = upgrade_lock]
        BY <1>3, <3>4, <1>a DEF ReadOwner
      <4> QED
        BY <1>a, <1>b, <1>c, <4>1 DEF ProcRec
    <3>5. CASE Publish(p)
      <4>1. proc'[p] = [proc[p] EXCEPT !.stage = "serving", !.owner = NoOne, !.expected = NoOne,
                                       !.by = NoOne]
        BY <3>5, <1>a DEF Publish
      <4> QED
        BY <1>a, <1>b, <1>c, <4>1 DEF ProcRec
    <3> QED
      BY <1>3, <3>1, <3>2, <3>3, <3>4, <3>5 DEF Startup, ClaimTimesOut, Stopped
  <2>5. ASSUME NEW c \in Controllers, Clears(c, p), upgrade_lock' = c
        PROVE  Clears(c, p)'
    <3>0. ~proc'[p].child /\ proc[p].stage \in Booting \ {"restoring"}
      BY <2>4, <2>5 DEF Clears
    <3> SUFFICES /\ proc'[p].stage \in Booting \ {"restoring"}
                 /\ proc'[p].stage \in {"clearing", "unlocking"} => proc'[p].owner = c
      BY <3>0 DEF Clears
    <3>1. CASE Bind(p) \/ Claim(p) \/ TakeMarker(p) \/ ReadMode(p)
      <4>1. proc'[p].stage \in {"bound", "claimed", "marked", "reading"}
        BY <3>1, <1>a DEF Bind, Claim, TakeMarker, ReadMode, ProcRec
      <4> QED
        BY <1>b, <4>1
    <3>2. CASE ReadOwner(p)
      <4>1. proc[p].expected = NoOne
        BY <1>c, <2>5 DEF Clears
      <4>2. proc'[p] = [proc[p] EXCEPT !.stage = "clearing", !.owner = upgrade_lock]
        BY <1>3, <3>2, <4>1, <1>a DEF ReadOwner
      <4>3. upgrade_lock = c
        BY <2>5, <3>2 DEF ReadOwner, db
      <4> QED
        BY <1>a, <1>b, <4>2, <4>3 DEF ProcRec
    <3>3. CASE ClearMode(p)
      <4>1. proc'[p] = [proc[p] EXCEPT !.stage = "unlocking", !.mode = "normal"]
            /\ proc[p].stage = "clearing"
        BY <3>3, <1>a DEF ClearMode
      <4> QED
        BY <1>a, <1>b, <2>5, <4>1 DEF ProcRec, Clears
    <3>4. CASE ClearLock(p)
      <4>1. proc[p].owner = c
        BY <2>5, <3>4 DEF Clears, ClearLock
      <4> QED
        BY <1>d, <2>5, <3>4, <4>1 DEF ClearLock, Release
    <3>5. CASE Publish(p)
      BY <3>0, <3>5 DEF Publish
    <3> QED
      BY <1>3, <3>1, <3>2, <3>3, <3>4, <3>5 DEF Startup, ClaimTimesOut, Stopped
  <2> QED
    BY <2>1, <2>2, <2>3, <2>4, <2>5 DEF Rises
<1> QED
  BY <1>1, <1>2, <1>3

(* What a step does to the processes.                                        *)
Reborn == Births(TRUE) /\ MainReady /\ UNCHANGED main
          /\ ("reload" \in kinds' \/ \E c \in Controllers : Reload(c) /\ UNCHANGED files)

ProcessStep ==
    \/ Steady
    \/ Boot /\ Births(FALSE)
    \/ Reborn
    \/ \E p \in Procs : Rises(p)

(* Every step is one of these.                                               *)
LEMMA NextProcesses ==
    ASSUME IInv, OrderInv, [Next]_vars
    PROVE  ProcessStep
<1>a. ProcInv
  BY DEF IInv
<1>1. CASE Boot
  BY <1>1, <1>a, BootBirths DEF ProcessStep
<1>2. ASSUME NEW p \in Procs, Startup(p)
      PROVE  ProcessStep
  BY <1>2, StartupRises DEF ProcessStep
<1>3. ASSUME NEW p \in Procs, Execute(p) \/ ExecuteUnlisted(p) \/ Finish(p)
      PROVE  ProcessStep
  <2>1. \E o : proc' = [proc EXCEPT ![p].op = o]
    BY <1>3 DEF Execute, ExecuteUnlisted, Finish
  <2>2. UNCHANGED <<spawned, main, symlink>>
    BY <1>3 DEF Execute, ExecuteUnlisted, Finish, unit
  <2> QED
    BY <1>a, <2>1, <2>2, FieldAges DEF ProcessStep
<1>4. ASSUME NEW p \in Procs, Crash(p)
      PROVE  ProcessStep
  BY <1>4, <1>a, GoneAges DEF Crash, ProcessStep
<1>5. ASSUME NEW c \in Controllers, Steps(c)
      PROVE  ProcessStep
  <2>1. CASE EnterMode(c) \/ ExitMode(c) \/ UndoMode(c)
    <3>1. \E m : proc' = [proc EXCEPT ![ctl[c].via].mode = m]
      BY <2>1 DEF EnterMode, ExitMode, UndoMode, Normal
    <3>2. UNCHANGED <<spawned, main, symlink>>
      BY <2>1 DEF EnterMode, ExitMode, UndoMode, unit
    <3> QED
      BY <1>a, <3>1, <3>2, FieldAges DEF ProcessStep
  <2>2. CASE Reload(c)
    <3>1. CASE Hup(c)
      <4>1. Steady \/ (Births(TRUE) /\ MainReady /\ UNCHANGED main)
        BY <1>a, <3>1, HupBirths
      <4> QED
        BY <2>2, <4>1 DEF ProcessStep, Reborn, Reload
    <3>2. CASE UNCHANGED <<proc, unit>>
      BY <1>a, <3>2, FieldAges DEF ProcessStep, unit
    <3> QED
      BY <2>2, <3>1, <3>2 DEF Reload
  <2>3. CASE Restart(c)
    BY <1>a, <2>3, RestartAges DEF Restart, ProcessStep
  <2>4. CASE UNCHANGED <<proc, unit>>
    BY <1>a, <2>4, FieldAges DEF ProcessStep, unit
  <2> QED
    BY <1>5, <2>1, <2>2, <2>3, <2>4
       DEF Steps, Controller, SshFails, ExitFails, AnswerLost, Killed, CheckVersion, Send,
           NoAnswer, EnterLock,
           EnterRefused, Info, Install, Compare, WaitReady, WaitTimesOut, Recheck, ExitLock,
           ExitRefused, Cleanup, Restore, Restarted, UndoLock, Unmark
<1>6. CASE OperatorReload
  <2>1. "reload" \in kinds'
    BY <1>6 DEF OperatorReload, Disturbed
  <2>2. CASE Hup(NoOne)
    <3>1. Steady \/ (Births(TRUE) /\ MainReady /\ UNCHANGED main)
      BY <1>a, <2>2, HupBirths
    <3> QED
      BY <2>1, <3>1 DEF ProcessStep, Reborn
  <2>3. CASE RestartUnit
    BY <1>a, <2>3, RestartAges DEF ProcessStep
  <2> QED
    BY <1>6, <2>2, <2>3 DEF OperatorReload
<1>7. CASE GrowStale \/ UNCHANGED vars
  <2>1. UNCHANGED <<proc, spawned, main, symlink>>
    BY <1>7 DEF GrowStale, vars, unit
  <2> QED
    BY <1>a, <2>1, FieldAges DEF ProcessStep
<1> QED
  BY <1>1, <1>2, <1>3, <1>4, <1>5, <1>6, <1>7 DEF Next, Steps

(* The order of the processes is kept.                                       *)
LEMMA OrderStep ==
    ASSUME IInv, IInv', OrderInv, ProcessStep
    PROVE  OrderInv' /\ symlink <= symlink'
<1>a. /\ symlink \in Procs /\ spawned \in Procs /\ spawned \in Nat /\ symlink \in Nat
      /\ \A p \in Procs : p \in Nat
  BY DEF IInv, ProcInv, TypeOK, Procs
<1>b. OneStarting
  BY DEF IInv, ProcInv
<1>1. CASE Steady
  <2>1. /\ \A p \in Procs : Alive(p)' =>
              Alive(p) /\ (proc[p].stage = "spawned" => proc'[p].stage = "spawned")
        /\ \A p \in Procs : proc'[p].stage \in Booting =>
              proc[p].stage \in Booting /\ proc'[p].child = proc[p].child
    BY <1>1, StageSets DEF Steady, Ages, Alive
  <2>2. \A p \in Procs : ~proc'[p].child => proc'[p].expected = NoOne
    BY <1>1 DEF Steady, Ages, OrderInv
  <2> QED
    BY <1>1, <1>a, <2>1, <2>2 DEF Steady, OrderInv
<1>2. ASSUME NEW child \in BOOLEAN, Births(child), child \/ Boot
      PROVE  OrderInv' /\ symlink <= symlink'
  <2> DEFINE n == spawned + 1
  <2>0. n \in Procs /\ spawned' = n /\ symlink' = symlink
    BY <1>2, <1>a DEF Births, Spawn, IInv, ProcInv, TypeOK
  <2>1. /\ \A p \in Procs \ {n} : Alive(p)' =>
              Alive(p) /\ (proc[p].stage = "spawned" => proc'[p].stage = "spawned")
        /\ \A p \in Procs \ {n} : proc'[p].stage \in Booting =>
              proc[p].stage \in Booting /\ proc'[p].child = proc[p].child
    BY <1>2, StageSets DEF Births, Ages, Alive
  <2>2. \A p \in Procs : ~proc'[p].child => proc'[p].expected = NoOne
    BY <1>2 DEF Births, Ages, OrderInv
  <2>3. symlink' <= spawned'
    BY <1>a, <2>0 DEF OrderInv
  <2>4. \A p \in Procs : Alive(p)' /\ proc'[p].stage # "spawned" => p <= symlink'
    BY <1>2, <2>0, <2>1 DEF OrderInv, Births
  <2>5. ASSUME NEW p \in Procs, NEW q \in Procs, proc'[p].stage \in Booting, ~proc'[p].child, q < p
        PROVE  ~Alive(q)'
    <3>1. CASE p = n
      <4>1. ~child
        BY <1>2, <2>5, <3>1 DEF Births
      <4>2. ~Alive(q)
        BY <1>2, <1>b, <4>1 DEF Boot, OneStarting
      <4> QED
        BY <1>a, <2>1, <2>5, <3>1, <4>2
    <3>2. CASE p # n
      <4>1. p <= spawned
        BY <1>a, <1>b, <2>1, <2>5, <3>2, StageSets DEF OneStarting, Rising
      <4>2. q # n
        BY <1>a, <2>5, <4>1
      <4> QED
        BY <2>1, <2>5, <3>2, <4>2 DEF OrderInv
    <3> QED
      BY <3>1, <3>2
  <2> QED
    BY <1>a, <2>0, <2>2, <2>3, <2>4, <2>5 DEF OrderInv
<1>3. ASSUME NEW p \in Procs, Rises(p)
      PROVE  OrderInv' /\ symlink <= symlink'
  <2>0. p = spawned /\ spawned' = spawned /\ symlink' = p /\ Alive(p)
    BY <1>3, <1>b DEF Rises, OneStarting, Rising, Alive
  <2>1. /\ \A q \in Procs : Alive(q)' => Alive(q)
        /\ \A q \in Procs : proc'[q].stage \in Booting =>
              proc[q].stage \in Booting /\ proc'[q].child = proc[q].child
    BY <1>3, <2>0 DEF Rises, Alive
  <2>2. \A q \in Procs : ~proc'[q].child => proc'[q].expected = NoOne
    BY <1>3 DEF Rises, OrderInv
  <2>3. \A q \in Procs : Alive(q) => q <= spawned
    BY <1>a, <1>b, StageSets DEF OneStarting, Alive, Rising
  <2> QED
    BY <1>a, <2>0, <2>1, <2>2, <2>3 DEF OrderInv
<1> QED
  BY <1>1, <1>2, <1>3 DEF ProcessStep, Reborn

(* What a controller remembers when it gets to where it is.                  *)
LEMMA WaitMoves ==
    ASSUME TypeOK, CtlType, NEW c \in Controllers, Arrives(c)
    PROVE  /\ ctl'[c].pc = "install" =>
                 ctl[c].pc = "info" /\ ctl'[c].pid = symlink /\ ctl'[c].via = ctl[c].via
           /\ ctl'[c].pc = "compare" =>
                 ctl[c].pc = "install" /\ ctl'[c].pid = ctl[c].pid /\ ctl'[c].via = ctl[c].via
           /\ ctl'[c].pc = "reload" =>
                 ctl[c].pc = "compare" /\ ctl'[c].pid = ctl[c].pid /\ ctl'[c].via = ctl[c].via
           /\ ctl'[c].pc = "wait" =>
                 ctl[c].pc = "reload" /\ ctl'[c].pid = ctl[c].pid /\ ctl'[c].via = ctl[c].via
           /\ ctl'[c].pc = "recheck" =>
                 /\ ctl[c].pc = "wait" /\ ctl'[c].pid = symlink /\ symlink # ctl[c].pid
                 /\ ctl'[c].via = ctl[c].via
           /\ ctl'[c].pc = "exit" =>
                 /\ ctl'[c].pid = ctl[c].pid
                 /\ \/ ctl[c].pc = "recheck" /\ ctl'[c].via = ctl[c].via
                    \/ ctl[c].pc = "exit" /\ ctl'[c].via = symlink
           /\ ctl'[c].pc = "unchanged" => ctl[c].pc \in {"compare", "unchanged"}
           /\ ctl'[c].pc = "released" =>
                 ctl'[c].handoff = ctl[c].handoff /\ ctl'[c].via = ctl[c].via
<1>a. ctl[c] \in CtlRec /\ ctl \in [Controllers -> CtlRec]
  BY DEF CtlType
<1>1. Info(c) => ctl[c].pc = "info" /\ ctl'[c].pid = symlink /\ ctl'[c].via = ctl[c].via
  BY ZenonT(40), <1>a DEF Info, CtlRec
<1>2. Install(c) =>
          ctl[c].pc = "install" /\ ctl'[c].pid = ctl[c].pid /\ ctl'[c].via = ctl[c].via
  <2>1. Install(c) => ctl'[c] = [ctl[c] EXCEPT !.pc = "compare", !.replaced = TRUE]
    BY <1>a DEF Install
  <2> QED
    BY <1>a, <2>1 DEF Install, CtlRec
<1>3. Compare(c) =>
          /\ ctl[c].pc = "compare"
          /\ ctl'[c].pc = "reload" => ctl'[c].pid = ctl[c].pid /\ ctl'[c].via = ctl[c].via
  <2> SUFFICES ASSUME Compare(c)
               PROVE  ctl'[c].pc = "reload" =>
                          ctl'[c].pid = ctl[c].pid /\ ctl'[c].via = ctl[c].via
    BY DEF Compare
  <2>1. CASE Goto(c, "unchanged")
    BY <1>a, <2>1 DEF Goto, CtlRec
  <2>2. CASE Fails(c)
    <3>1. ctl'[c] = [ctl[c] EXCEPT !.pc = Failed(ctl[c]), !.via = NoOne]
      BY <1>a, <2>2 DEF Fails, CtlRec
    <3>2. Failed(ctl[c]) # "reload"
      BY DEF Failed
    <3> QED
      BY <1>a, <3>1, <3>2 DEF CtlRec
  <2>3. CASE ctl' = [ctl EXCEPT ![c].pc = "reload", ![c].handoff = TRUE]
    BY <1>a, <2>3 DEF CtlRec
  <2> QED
    BY <2>1, <2>2, <2>3 DEF Compare
<1>4. Reload(c) =>
          /\ ctl[c].pc = "reload"
          /\ ctl'[c].pc = "wait" => ctl'[c].pid = ctl[c].pid /\ ctl'[c].via = ctl[c].via
  <2> SUFFICES ASSUME Reload(c)
               PROVE  ctl'[c].pc = "wait" =>
                          ctl'[c].pid = ctl[c].pid /\ ctl'[c].via = ctl[c].via
    BY DEF Reload
  <2>1. CASE Goto(c, "wait")
    BY <1>a, <2>1 DEF Goto, CtlRec
  <2>2. CASE Fails(c)
    <3>1. ctl'[c] = [ctl[c] EXCEPT !.pc = Failed(ctl[c]), !.via = NoOne]
      BY <1>a, <2>2 DEF Fails, CtlRec
    <3>2. Failed(ctl[c]) # "wait"
      BY DEF Failed
    <3> QED
      BY <1>a, <3>1, <3>2 DEF CtlRec
  <2> QED
    BY <2>1, <2>2 DEF Reload
<1>5. WaitReady(c) =>
          /\ ctl[c].pc = "wait" /\ ctl'[c].pid = symlink /\ symlink # ctl[c].pid
          /\ ctl'[c].via = ctl[c].via
  BY ZenonT(40), <1>a DEF WaitReady, Answers, CtlRec
<1>6. Recheck(c) =>
          /\ ctl[c].pc = "recheck"
          /\ ctl'[c].pc = "exit" => ctl'[c].pid = ctl[c].pid /\ ctl'[c].via = ctl[c].via
  <2> SUFFICES ASSUME Recheck(c)
               PROVE  ctl'[c].pc = "exit" =>
                          ctl'[c].pid = ctl[c].pid /\ ctl'[c].via = ctl[c].via
    BY DEF Recheck
  <2>1. CASE Goto(c, "exit")
    BY <1>a, <2>1 DEF Goto, CtlRec
  <2>2. CASE Fails(c)
    <3>1. ctl'[c] = [ctl[c] EXCEPT !.pc = Failed(ctl[c]), !.via = NoOne]
      BY <1>a, <2>2 DEF Fails, CtlRec
    <3>2. Failed(ctl[c]) # "exit"
      BY DEF Failed
    <3> QED
      BY <1>a, <3>1, <3>2 DEF CtlRec
  <2> QED
    BY <2>1, <2>2 DEF Recheck
<1>7. Send(c) => ctl'[c].pc = ctl[c].pc /\ ctl'[c].pid = ctl[c].pid /\ ctl'[c].via = symlink
  BY <1>a DEF Send, CtlRec
<1>8. ExitLock(c) => ctl'[c].handoff = ctl[c].handoff /\ ctl'[c].via = ctl[c].via
  BY <1>a DEF ExitLock, Goto, CtlRec
<1> QED
  BY <1>1, <1>2, <1>3, <1>4, <1>5, <1>6, <1>7, <1>8 DEF Arrives

(* What a waiting controller remembers stays true.                           *)
LEMMA WaitStep ==
    ASSUME IInv, OrderInv, WaitInv, symlink <= symlink', symlink' \in Procs,
           \A c \in Controllers : ctl'[c] = ctl[c] \/ Arrives(c)
    PROVE  WaitInv'
<1> SUFFICES ASSUME NEW c \in Controllers
             PROVE
        /\ ctl'[c].pc \in {"install", "compare", "reload", "wait", "recheck", "exit"} =>
              ctl'[c].pid \in Procs /\ ctl'[c].pid <= symlink'
        /\ ctl'[c].pc = "exit" /\ ctl'[c].via # NoOne => ctl'[c].pid <= ctl'[c].via
        /\ ctl'[c].pc \in {"start", "enter", "locked", "info", "install", "compare", "unchanged"} =>
              ~ctl'[c].handoff
        /\ ctl'[c].pc \in {"info", "install", "compare", "reload", "wait", "recheck"} =>
              ctl'[c].via = NoOne
  BY DEF WaitInv
<1>a. TypeOK /\ CtlType
  BY DEF IInv, ProcInv
<1>b. symlink \in Procs /\ \A p \in Procs : p \in Nat
  BY <1>a DEF TypeOK, Procs
<1>c. \A p \in Procs : p <= symlink => p <= symlink'
  BY <1>b
<1>1. CASE ctl'[c] = ctl[c]
  BY <1>1, <1>c DEF WaitInv
<1>2. CASE Arrives(c)
  <2>m. /\ ctl'[c].pc = "install" =>
              ctl[c].pc = "info" /\ ctl'[c].pid = symlink /\ ctl'[c].via = ctl[c].via
        /\ ctl'[c].pc = "compare" =>
              ctl[c].pc = "install" /\ ctl'[c].pid = ctl[c].pid /\ ctl'[c].via = ctl[c].via
        /\ ctl'[c].pc = "reload" =>
              ctl[c].pc = "compare" /\ ctl'[c].pid = ctl[c].pid /\ ctl'[c].via = ctl[c].via
        /\ ctl'[c].pc = "wait" =>
              ctl[c].pc = "reload" /\ ctl'[c].pid = ctl[c].pid /\ ctl'[c].via = ctl[c].via
        /\ ctl'[c].pc = "recheck" =>
              /\ ctl[c].pc = "wait" /\ ctl'[c].pid = symlink /\ symlink # ctl[c].pid
              /\ ctl'[c].via = ctl[c].via
        /\ ctl'[c].pc = "exit" =>
              /\ ctl'[c].pid = ctl[c].pid
              /\ \/ ctl[c].pc = "recheck" /\ ctl'[c].via = ctl[c].via
                 \/ ctl[c].pc = "exit" /\ ctl'[c].via = symlink
        /\ ctl'[c].pc = "unchanged" => ctl[c].pc \in {"compare", "unchanged"}
    BY <1>2, <1>a, WaitMoves
  <2>w. /\ ctl[c].pc \in {"install", "compare", "reload", "wait", "recheck", "exit"} =>
              ctl[c].pid \in Procs /\ ctl[c].pid <= symlink
        /\ ctl[c].pc \in {"start", "enter", "locked", "info", "install", "compare", "unchanged"} =>
              ~ctl[c].handoff
        /\ ctl[c].pc \in {"info", "install", "compare", "reload", "wait", "recheck"} =>
              ctl[c].via = NoOne
    BY DEF WaitInv
  <2>1. ctl'[c].pc \in {"install", "compare", "reload", "wait", "recheck", "exit"} =>
              ctl'[c].pid \in Procs /\ ctl'[c].pid <= symlink'
    BY <1>b, <1>c, <2>m, <2>w
  <2>2. ctl'[c].pc = "exit" /\ ctl'[c].via # NoOne => ctl'[c].pid <= ctl'[c].via
    BY <2>m, <2>w
  <2>3. ctl'[c].pc \in {"start", "enter", "locked", "info", "install", "compare", "unchanged"} =>
              ~ctl'[c].handoff
    BY <1>2, <2>m, <2>w DEF Arrives
  <2>4. ctl'[c].pc \in {"info", "install", "compare", "reload", "wait", "recheck"} =>
              ctl'[c].via = NoOne
    BY <1>2, <2>m, <2>w DEF Arrives
  <2> QED
    BY <2>1, <2>2, <2>3, <2>4
<1> QED
  BY <1>1, <1>2

(* The roll-back's restart lets nothing of the new binary through.           *)
LEMMA RollbackStep ==
    ASSUME IInv, OutcomeInv, ProcessStep,
           \A c \in Controllers : ctl'[c] = ctl[c] \/ (Arrives(c) /\ Steps(c)),
           \A c \in Controllers : Others(c) => Others(c)'
    PROVE  RollbackInv'
<1> SUFFICES ASSUME NEW c \in Controllers, ~Others(c)', ctl'[c].pc = "restarting"
             PROVE  \/ main' = NoOne \/ proc'[main'].stage = "stopping"
                    \/ \A p \in Procs : Alive(p)' => proc'[p].version = "old"
  BY DEF RollbackInv
<1>a. ProcInv /\ main \in Procs \cup {NoOne} /\ ~Others(c)
  BY DEF IInv, ProcInv, TypeOK
<1>1. CASE Restart(c)
  BY <1>1, <1>a, RestartAges DEF Restart
<1>2. CASE ctl'[c] = ctl[c]
  <2>1. binary = "old" /\ ctl[c].pc = "restarting"
    BY <1>2, <1>a DEF OutcomeInv, BinaryInv
  <2>2. \/ main = NoOne \/ (main # NoOne /\ proc[main].stage = "stopping")
        \/ \A p \in Procs : Alive(p) => proc[p].version = "old"
    BY <1>a, <2>1 DEF OutcomeInv, RollbackInv
  <2>3. CASE Steady
    <3>1. CASE main = NoOne \/ (main # NoOne /\ proc[main].stage = "stopping")
      BY <2>3, <3>1 DEF Steady, MainAges
    <3>2. CASE \A p \in Procs : Alive(p) => proc[p].version = "old"
      <4>1. \A p \in Procs : Alive(p)' => Alive(p) /\ proc'[p].version = proc[p].version
        BY <2>3, StageSets DEF Steady, Ages, Alive
      <4> QED
        BY <3>2, <4>1
    <3> QED
      BY <2>2, <3>1, <3>2
  <2>4. ASSUME NEW child, Births(child), \A p \in Procs : Alive(p) => proc[p].version = "old"
        PROVE  \A p \in Procs : Alive(p)' => proc'[p].version = "old"
    <3>1. \A p \in Procs \ {spawned + 1} :
              Alive(p)' => Alive(p) /\ proc'[p].version = proc[p].version
      BY <2>4, StageSets DEF Births, Ages, Alive
    <3>2. proc'[spawned + 1].version = "old"
      BY <2>1, <2>4 DEF Births
    <3> QED
      BY <2>4, <3>1, <3>2
  <2>5. CASE Boot /\ Births(FALSE)
    <3>1. \A p \in Procs : ~Alive(p)
      BY <2>5, <1>a DEF Boot, ProcInv, OneStarting
    <3> QED
      BY <2>4, <2>5, <3>1
  <2>6. CASE Reborn
    <3>1. main # NoOne /\ proc[main].stage # "stopping"
      BY <2>6 DEF Reborn, MainReady
    <3> QED
      BY <2>2, <2>4, <2>6, <3>1 DEF Reborn
  <2>7. ASSUME NEW p \in Procs, Rises(p)
        PROVE  \/ main' = NoOne \/ proc'[main'].stage = "stopping"
               \/ \A q \in Procs : Alive(q)' => proc'[q].version = "old"
    <3>1. CASE main = NoOne \/ (main # NoOne /\ proc[main].stage = "stopping")
      <4>1. main' = main /\ (main # p => main = NoOne \/ proc'[main] = proc[main])
        BY <2>7, <1>a DEF Rises
      <4>2. main = p => proc[main].stage # "stopping"
        BY <2>7, StageSets DEF Rises, Booting, Claiming
      <4>3. p # NoOne
        BY UpgradeAssumption DEF Procs
      <4> QED
        BY <3>1, <4>1, <4>2, <4>3
    <3>2. CASE \A q \in Procs : Alive(q) => proc[q].version = "old"
      <4>1. \A q \in Procs : Alive(q)' => Alive(q) /\ proc'[q].version = proc[q].version
        BY <2>7 DEF Rises, Alive
      <4> QED
        BY <3>2, <4>1
    <3> QED
      BY <2>2, <3>1, <3>2
  <2> QED
    BY <2>3, <2>5, <2>6, <2>7 DEF ProcessStep
<1> QED
  BY <1>1, <1>2 DEF Arrives

(* A controller gets the lock in one way only.                               *)
LEMMA LockBefore ==
    ASSUME CtlType, [Next]_vars, NEW c \in Controllers, upgrade_lock' = c
    PROVE  upgrade_lock = c \/ ctl'[c].pc = "locked"
<1>a. NoOne \notin Controllers /\ ctl \in [Controllers -> CtlRec]
  BY UpgradeAssumption DEF CtlType
<1>1. ASSUME NEW d \in Controllers, EnterLock(d)
      PROVE  upgrade_lock = c \/ ctl'[c].pc = "locked"
  BY <1>1, <1>a DEF EnterLock, Goto, CtlRec
<1>2. ASSUME NEW owner, Release(owner)
      PROVE  upgrade_lock = c
  BY <1>2, <1>a DEF Release
<1>3. ASSUME NEW d \in Controllers, ExitLock(d) \/ UndoLock(d)
      PROVE  upgrade_lock = c
  BY <1>2, <1>3 DEF ExitLock, UndoLock
<1>4. ASSUME NEW p \in Procs, ClearLock(p)
      PROVE  upgrade_lock = c
  BY <1>2, <1>4 DEF ClearLock
<1>5. ASSUME NEW p \in Procs, Startup(p) \/ Execute(p) \/ ExecuteUnlisted(p) \/ Finish(p) \/ Crash(p)
      PROVE  upgrade_lock = c
  BY <1>4, <1>5 DEF Startup, Bind, Claim, ClaimTimesOut, TakeMarker, ReadMode, ReadOwner,
                    ClearMode, Publish, Ready, Stopped, Execute, ExecuteUnlisted, Finish, Crash, db
<1>6. ASSUME NEW d \in Controllers, Steps(d)
      PROVE  upgrade_lock = c \/ ctl'[c].pc = "locked"
  BY <1>1, <1>3, <1>6
     DEF Steps, Controller, SshFails, ExitFails, AnswerLost, Killed, CheckVersion, Send, NoAnswer,
         EnterRefused, EnterMode, Info, Install, Compare, Reload, WaitReady, WaitTimesOut,
         Recheck, ExitRefused, ExitMode, Cleanup, Restore, Restart, Restarted, UndoMode,
         Unmark, db
<1> QED
  BY <1>5, <1>6 DEF Next, Steps, Boot, OperatorReload, GrowStale, vars, db

(* The disturbances that have happened stay on record.                       *)
LEMMA KindsGrow ==
    ASSUME [Next]_vars
    PROVE  kinds \subseteq kinds'
<1>1. ASSUME NEW kind, Disturbed(kind)
      PROVE  kinds \subseteq kinds'
  BY <1>1 DEF Disturbed
<1>2. ASSUME NEW p \in Procs, Startup(p) \/ Execute(p) \/ ExecuteUnlisted(p) \/ Finish(p) \/ Crash(p)
      PROVE  kinds \subseteq kinds'
  BY <1>1, <1>2 DEF Startup, Bind, Claim, ClaimTimesOut, TakeMarker, ReadMode, ReadOwner,
                    ClearMode, ClearLock, Publish, Ready, Stopped, Execute, ExecuteUnlisted,
                    Finish, Crash, budget
<1>3. ASSUME NEW d \in Controllers, Steps(d)
      PROVE  kinds \subseteq kinds'
  BY <1>1, <1>3
     DEF Steps, Controller, SshFails, ExitFails, AnswerLost, Killed, CheckVersion, Send, NoAnswer,
         EnterLock,
         EnterRefused, EnterMode, Info, Install, Compare, Reload, WaitReady, WaitTimesOut,
         Recheck, ExitLock, ExitRefused, ExitMode, Cleanup, Restore, Restart, Restarted, UndoLock,
         UndoMode, Unmark, budget
<1> QED
  BY <1>1, <1>2, <1>3 DEF Next, Steps, Boot, OperatorReload, GrowStale, vars, budget

(* The new binary answers: a step keeps a renewed process renewed.           *)
LEMMA NewStep ==
    ASSUME IInv, OutcomeInv, [Next]_vars, ProcessStep,
           \A c \in Controllers : ctl'[c] = ctl[c] \/ (Arrives(c) /\ Steps(c))
    PROVE  NewInv'
<1> SUFFICES ASSUME "reload" \notin kinds'
             PROVE
        /\ \A p \in Procs : proc'[p].child => proc'[p].version = "new"
        /\ \A c \in Controllers, p \in Procs : upgrade_lock' = c /\ Late(c, p)' => Renewed(c, p)'
        /\ \A c \in Controllers :
              ctl'[c].pc = "released" /\ ctl'[c].handoff /\ proc'[ctl'[c].via].stage \in Accepting =>
                  proc'[ctl'[c].via].version = "new"
  BY DEF NewInv
<1>a. TypeOK /\ CtlType /\ ProcInv /\ OrderInv /\ WaitInv /\ BinaryInv
  BY DEF IInv, ProcInv, OutcomeInv
<1>b. "reload" \notin kinds
  BY KindsGrow
<1>c. /\ \A p \in Procs : proc[p].child => proc[p].version = "new"
      /\ \A c \in Controllers, p \in Procs : upgrade_lock = c /\ Late(c, p) => Renewed(c, p)
      /\ \A c \in Controllers :
            ctl[c].pc = "released" /\ ctl[c].handoff /\ proc[ctl[c].via].stage \in Accepting =>
                proc[ctl[c].via].version = "new"
  BY <1>b DEF OutcomeInv, NewInv
<1>d. symlink \in Nat /\ spawned \in Nat /\ spawned \in Procs /\ \A p \in Procs : p \in Nat
  BY <1>a DEF TypeOK, Procs
<1>1. \A p \in Procs : proc'[p].child => proc'[p].version = "new"
  <2>1. CASE Steady
    BY <1>c, <2>1 DEF Steady, Ages
  <2>2. CASE Boot /\ Births(FALSE)
    BY <1>c, <2>2 DEF Births, Ages
  <2>3. CASE Reborn
    <3>1. PICK c \in Controllers : Reload(c)
      BY <2>3 DEF Reborn
    <3>2. binary = "new"
      BY <1>a, <3>1 DEF BinaryInv, Reload, Live
    <3> QED
      BY <1>c, <2>3, <3>2 DEF Reborn, Births, Ages
  <2>4. ASSUME NEW p \in Procs, Rises(p)
        PROVE  \A q \in Procs : proc'[q].child => proc'[q].version = "new"
    BY <1>c, <2>4 DEF Rises
  <2> QED
    BY <2>1, <2>2, <2>3, <2>4 DEF ProcessStep
<1>2. ASSUME NEW c \in Controllers, NEW p \in Procs, upgrade_lock' = c, Late(c, p)'
      PROVE  Renewed(c, p)'
  <2>1. upgrade_lock = c
    <3>1. ctl'[c].pc # "locked"
      BY <1>2 DEF Late
    <3> QED
      BY <1>2, <1>a, <3>1, LockBefore
  <2>2. CASE Info(c)
    <3>1. proc' = proc /\ ctl'[c].pid = symlink /\ ctl'[c].pc = "install"
      BY <2>2, <1>a DEF Info, CtlType, CtlRec
    <3>2. p > symlink
      BY <1>2, <3>1 DEF Late
    <3>3. Alive(p) => proc[p].stage = "spawned"
      BY <1>a, <1>d, <3>2 DEF OrderInv
    <3>4. Renewed(c, p)
      BY <1>c, <3>3 DEF Renewed, Clears, Booting
    <3> QED
      BY <3>1, <3>4 DEF Renewed, Clears, Alive
  <2>3. CASE ~Info(c)
    <3>1. Late(c, p)
      <4>1. CASE ctl'[c] = ctl[c]
        BY <1>2, <4>1 DEF Late
      <4>2. CASE Arrives(c)
        <5>1. ctl'[c].pc # "install"
          BY <2>3, <4>2 DEF Arrives
        <5>2. /\ ctl'[c].pc \in {"compare", "reload", "wait"} =>
                    ctl[c].pc \in {"install", "compare", "reload"} /\ ctl'[c].pid = ctl[c].pid
              /\ ctl'[c].pc = "recheck" =>
                    ctl[c].pc = "wait" /\ ctl'[c].pid = symlink /\ symlink # ctl[c].pid
              /\ ctl'[c].pc = "exit" =>
                    ctl[c].pc \in {"recheck", "exit"} /\ ctl'[c].pid = ctl[c].pid
          BY <1>a, <4>2, WaitMoves
        <5>3. ctl[c].pc = "wait" => ctl[c].pid \in Nat /\ ctl[c].pid <= symlink
          BY <1>a, <1>d DEF WaitInv
        <5>4. p \in Nat /\ symlink \in Nat
          BY <1>d
        <5> QED
          BY <1>2, <5>1, <5>2, <5>3, <5>4 DEF Late
      <4> QED
        BY <4>1, <4>2
    <3>2. Renewed(c, p)
      BY <1>c, <2>1, <3>1
    <3>3. ASSUME Ages(p) PROVE Renewed(c, p)'
      <4>1. CASE proc'[p].stage = "gone"
        BY <4>1, StageSets DEF Renewed, Alive, Accepting, Booting, Claiming
      <4>2. CASE proc'[p].stage # "gone"
        BY <3>2, <3>3, <4>2, StageSets DEF Ages, Renewed, Clears, Alive
      <4> QED
        BY <4>1, <4>2
    <3>4. ASSUME NEW child, Births(child) PROVE Renewed(c, p)'
      <4>1. CASE p = spawned + 1
        <5>1. proc'[p].stage = "spawned"
          BY <3>4, <4>1 DEF Births
        <5> QED
          BY <1>1, <5>1 DEF Renewed, Clears, Booting
      <4>2. CASE p # spawned + 1
        BY <3>3, <3>4, <4>2 DEF Births
      <4> QED
        BY <4>1, <4>2
    <3>5. ASSUME NEW q \in Procs, Rises(q) PROVE Renewed(c, p)'
      <4>1. CASE p = q
        BY <1>2, <3>2, <3>5, <4>1 DEF Rises, Renewed, Alive
      <4>2. CASE p # q
        <5>1. proc'[p] = proc[p]
          BY <3>5, <4>2 DEF Rises
        <5> QED
          BY <3>2, <5>1 DEF Renewed, Clears, Alive
      <4> QED
        BY <4>1, <4>2
    <3> QED
      BY <3>3, <3>4, <3>5 DEF ProcessStep, Steady, Reborn
  <2> QED
    BY <2>2, <2>3
<1>3. ASSUME NEW c \in Controllers, ctl'[c].pc = "released", ctl'[c].handoff,
             proc'[ctl'[c].via].stage \in Accepting
      PROVE  proc'[ctl'[c].via].version = "new"
  <2>1. CASE ExitLock(c)
    <3>1. ctl'[c].handoff = ctl[c].handoff /\ ctl'[c].via = ctl[c].via /\ proc' = proc
      <4>1. ctl[c] \in CtlRec /\ ctl \in [Controllers -> CtlRec]
        BY <1>a DEF CtlType
      <4> QED
        BY <2>1, <4>1 DEF ExitLock, Goto, CtlRec
    <3>2. ctl[c].pc = "exit" /\ ctl[c].via # NoOne /\ upgrade_lock = c
      BY <1>3, <1>a, <2>1, <3>1 DEF ExitLock, Handles, WaitInv
    <3>3. ctl[c].via \in Procs /\ ctl[c].pid \in Procs /\ ctl[c].pid <= ctl[c].via
      BY <1>a, <3>2 DEF CtlType, CtlRec, WaitInv
    <3>4. Renewed(c, ctl[c].via)
      BY <1>c, <1>d, <3>2, <3>3 DEF Late
    <3>5. proc[ctl[c].via].stage \in Accepting
      BY <2>1 DEF ExitLock, Handles
    <3> QED
      BY <3>1, <3>4, <3>5, StageSets DEF Renewed, Alive, Clears
  <2>2. CASE ctl'[c] = ctl[c]
    <3> DEFINE v == ctl[c].via
    <3>1. v \in Procs /\ proc[v].stage \in Accepting \cup {"gone"}
      BY <1>3, <2>2 DEF IInv, CommandInv, Between
    <3>2. proc[v].stage \in Accepting => proc[v].version = "new"
      BY <1>3, <1>c, <2>2
    <3>3. proc'[v].stage \in Accepting
      BY <1>3, <2>2
    <3>g. "gone" \notin Accepting /\ "gone" \notin Booting /\ "spawned" \notin Accepting
      BY DEF Accepting, Booting, Claiming
    <3> HIDE DEF v
    <3>4. ASSUME Ages(v) PROVE proc'[v].version = "new"
      BY <3>1, <3>2, <3>3, <3>4, <3>g DEF Ages
    <3>5. ASSUME NEW child, Births(child) PROVE proc'[v].version = "new"
      BY <3>1, <3>3, <3>4, <3>5, <3>g DEF Births
    <3>6. ASSUME NEW q \in Procs, Rises(q) PROVE proc'[v].version = "new"
      <4>1. v # q
        BY <3>1, <3>6, <3>g, StageSets DEF Rises
      <4> QED
        BY <3>1, <3>2, <3>3, <3>6, <4>1 DEF Rises
    <3>7. proc'[v].version = "new"
      BY <3>1, <3>4, <3>5, <3>6 DEF ProcessStep, Steady, Reborn
    <3> QED
      BY <2>2, <3>7 DEF v
  <2> QED
    BY <1>3, <2>1, <2>2 DEF Arrives
<1> QED
  BY <1>1, <1>2, <1>3

(* A step is one controller's, or no controller's and then the files stay.   *)
LEMMA OneMoves ==
    ASSUME IInv, [Next]_vars
    PROVE  \/ ctl' = ctl /\ UNCHANGED <<binary, prev>>
           \/ \E c \in Controllers :
                 Steps(c) /\ Arrives(c) /\ \A d \in Controllers \ {c} : ctl'[d] = ctl[d]
<1>a. TypeOK /\ CtlType
  BY DEF IInv, ProcInv
<1>1. ASSUME NEW c \in Controllers, Steps(c)
      PROVE  Arrives(c) /\ \A d \in Controllers \ {c} : ctl'[d] = ctl[d]
  BY <1>1, <1>a, ControllerArrives DEF Steps
<1>2. ASSUME NEW p \in Procs, Startup(p) \/ Execute(p) \/ ExecuteUnlisted(p) \/ Finish(p) \/ Crash(p)
      PROVE  ctl' = ctl /\ UNCHANGED <<binary, prev>>
  BY <1>2 DEF Startup, Bind, Claim, ClaimTimesOut, TakeMarker, ReadMode, ReadOwner,
              ClearMode, ClearLock, Publish, Ready, Stopped, Execute, ExecuteUnlisted, Finish,
              Crash, files
<1> QED
  BY <1>1, <1>2 DEF Next, Steps, Boot, OperatorReload, GrowStale, vars, files

(* The invariant behind the reports is inductive.                            *)
LEMMA OutcomeStep == IInv /\ IInv' /\ OutcomeInv /\ [Next]_vars => OutcomeInv'
<1> SUFFICES ASSUME IInv, IInv', OutcomeInv, [Next]_vars
             PROVE  OutcomeInv'
  OBVIOUS
<1>a. TypeOK /\ CtlType /\ OrderInv /\ BinaryInv /\ WaitInv /\ symlink' \in Procs
  BY DEF IInv, ProcInv, OutcomeInv, TypeOK
<1>1. ProcessStep
  BY <1>a, NextProcesses
<1>2. OrderInv' /\ symlink <= symlink'
  BY <1>1, <1>a, OrderStep
<1>3. \A c \in Controllers : ctl'[c] = ctl[c] \/ (Arrives(c) /\ Steps(c))
  BY OneMoves
<1>4. BinaryInv'
  <2>1. CASE ctl' = ctl /\ UNCHANGED <<binary, prev>>
    BY <1>a, <2>1 DEF BinaryInv, Live, Others
  <2>2. ASSUME NEW c \in Controllers, Steps(c), Arrives(c),
               \A d \in Controllers \ {c} : ctl'[d] = ctl[d]
        PROVE  BinaryInv'
    BY <1>a, <2>2, BinaryStep
  <2> QED
    BY <2>1, <2>2, OneMoves
<1>5. \A c \in Controllers : Others(c) => Others(c)'
  <2>1. \A c \in Controllers : ctl[c].replaced => ctl'[c].replaced
    <3> SUFFICES ASSUME NEW c \in Controllers, ctl[c].replaced
                 PROVE  ctl'[c].replaced
      OBVIOUS
    <3>1. CASE Arrives(c)
      BY <1>a, <3>1, LiveBefore
    <3> QED
      BY <1>3, <3>1
  <2> QED
    BY <2>1 DEF Others
<1>6. WaitInv'
  BY <1>2, <1>3, <1>a, WaitStep
<1>7. RollbackInv'
  BY <1>1, <1>3, <1>5, RollbackStep
<1>8. NewInv'
  BY <1>1, <1>3, NewStep
<1> QED
  BY <1>2, <1>4, <1>6, <1>7, <1>8 DEF OutcomeInv

(* It holds at first.                                                        *)
LEMMA OutcomeInit == Init => OutcomeInv
<1> SUFFICES ASSUME Init
             PROVE  OutcomeInv
  OBVIOUS
<1>1. \A c \in Controllers : /\ ctl[c].pc = "start" /\ ~ctl[c].replaced /\ ~ctl[c].handoff
  BY DEF Init
<1>2. /\ 1 \in Procs /\ \A p \in Procs : p \in Nat /\ p >= 1
  BY UpgradeAssumption DEF Procs
<1>3. /\ proc[1].stage = "ready"
      /\ \A p \in Procs : /\ proc[p].version = "old" /\ ~proc[p].child
                          /\ proc[p].expected = NoOne
                          /\ p # 1 => proc[p].stage = "none"
  BY <1>2 DEF Init, Fresh
<1>4. BinaryInv
  BY <1>1 DEF Init, BinaryInv, Live
<1>5. RollbackInv
  BY <1>1 DEF RollbackInv
<1>6. OrderInv
  <2>1. \A p \in Procs : Alive(p) => p = 1
    BY <1>3 DEF Alive, Booting, Claiming, Accepting
  <2>2. \A p \in Procs : proc[p].stage \notin Booting
    BY <1>3 DEF Booting, Claiming
  <2> QED
    BY <1>2, <1>3, <2>1, <2>2 DEF OrderInv, Init
<1>7. WaitInv
  BY <1>1 DEF WaitInv
<1>8. NewInv
  BY <1>1, <1>3 DEF NewInv, Late
<1> QED
  BY <1>4, <1>5, <1>6, <1>7, <1>8 DEF OutcomeInv

(* Success and roll-back are reported by one step each.                      *)
LEMMA Reported ==
    ASSUME TypeOK, CtlType, NEW c \in Controllers, Steps(c), ctl'[c].outcome # ctl[c].outcome
    PROVE  /\ ctl'[c].outcome = "upgraded" => ExitMode(c)
           /\ ctl'[c].outcome = "rolled back" => Restarted(c)
<1>a. ctl[c] \in CtlRec /\ ctl \in [Controllers -> CtlRec]
  BY DEF CtlType
<1>b. /\ \A x : Goto(c, x) => ctl'[c].outcome = ctl[c].outcome
      /\ Fails(c) => ctl'[c].outcome = ctl[c].outcome
      /\ RollbackFails(c) => ctl'[c].outcome = "rollback failed"
      /\ Report(c) => ctl'[c].outcome \in {ctl[c].outcome, "failed"}
  <2>1. \A x : Goto(c, x) => ctl'[c].outcome = ctl[c].outcome
    BY <1>a DEF Goto, CtlRec
  <2>2. Fails(c) => ctl'[c].outcome = ctl[c].outcome
    BY <1>a DEF Fails, CtlRec
  <2>3. RollbackFails(c) => ctl'[c].outcome = "rollback failed"
    BY <1>a DEF RollbackFails, CtlRec
  <2>4. ASSUME Report(c) PROVE ctl'[c].outcome \in {ctl[c].outcome, "failed"}
    BY <1>a, <2>4 DEF Report, CtlRec
  <2> QED
    BY <2>1, <2>2, <2>3, <2>4
<1>1. CASE CheckVersion(c) \/ Send(c) \/ NoAnswer(c)
  <2>1. CASE CheckVersion(c)
    BY <1>a, <2>1 DEF CheckVersion, CtlRec
  <2>2. CASE Send(c)
    BY <1>a, <2>2 DEF Send, CtlRec
  <2>3. CASE NoAnswer(c)
    <3>1. CASE ctl' = [ctl EXCEPT ![c].pc = "unmark", ![c].via = NoOne]
      BY <1>a, <3>1 DEF CtlRec
    <3> QED
      BY <1>b, <2>3, <3>1 DEF NoAnswer
  <2> QED
    BY <1>1, <2>1, <2>2, <2>3
<1>2. CASE \/ EnterLock(c) \/ EnterRefused(c) \/ Reload(c) \/ WaitTimesOut(c) \/ Recheck(c)
           \/ ExitLock(c) \/ ExitRefused(c) \/ Cleanup(c) \/ Restart(c) \/ Restore(c)
           \/ SshFails(c) \/ ExitFails(c) \/ Killed(c)
  BY <1>b, <1>2 DEF EnterLock, EnterRefused, Reload, WaitTimesOut, Recheck, ExitLock, ExitRefused,
                    Cleanup, Restart, Restore, SshFails, ExitFails, Killed
<1>3. CASE EnterMode(c)
  BY <1>a, <1>3 DEF EnterMode, CtlRec
<1>4. CASE Info(c) \/ WaitReady(c)
  <2>1. \E x : ctl'[c] = [ctl[c] EXCEPT !.pc = x, !.pid = symlink]
    BY <1>a, <1>4 DEF Info, WaitReady
  <2> QED
    BY <1>a, <2>1 DEF CtlRec
<1>5. CASE Install(c)
  BY <1>a, <1>5 DEF Install, CtlRec
<1>6. CASE Compare(c)
  <2>1. CASE ctl' = [ctl EXCEPT ![c].pc = "reload", ![c].handoff = TRUE]
    BY <1>a, <2>1 DEF CtlRec
  <2> QED
    BY <1>b, <1>6, <2>1 DEF Compare
<1>7. CASE UndoLock(c)
  <2>1. CASE ctl' = [ctl EXCEPT ![c].pc = "unmark", ![c].via = NoOne]
    BY <1>a, <2>1 DEF CtlRec
  <2> QED
    BY <1>b, <1>7, <2>1 DEF UndoLock
<1>8. CASE UndoMode(c)
  BY <1>a, <1>8 DEF UndoMode, CtlRec
<1>9. CASE Unmark(c)
  BY <1>b, <1>9 DEF Unmark
<1>10. CASE AnswerLost(c)
  <2>1. CASE ctl' = [ctl EXCEPT ![c].pc = "unmark", ![c].entered = FALSE]
    BY <1>a, <2>1 DEF CtlRec
  <2>2. CASE ctl' = [ctl EXCEPT ![c].pc = "restore", ![c].entered = TRUE, ![c].outcome = "none"]
    BY <1>a, <2>2 DEF CtlRec
  <2>3. CASE ctl' = [ctl EXCEPT ![c].pc = "restore", ![c].handoff = FALSE]
    BY <1>a, <2>3 DEF CtlRec
  <2> QED
    BY <1>10, <1>b, <2>1, <2>2, <2>3 DEF AnswerLost
<1>11. CASE ExitMode(c)
  <2>1. ctl'[c].outcome \in {"upgraded", "already"}
    BY <1>a, <1>11 DEF ExitMode, CtlRec
  <2> QED
    BY <1>11, <2>1
<1>12. CASE Restarted(c)
  <2>1. ctl'[c].outcome = "rolled back"
    BY <1>a, <1>12 DEF Restarted, CtlRec
  <2> QED
    BY <1>12, <2>1
<1> QED
  BY <1>1, <1>2, <1>3, <1>4, <1>5, <1>6, <1>7, <1>8, <1>9, <1>10, <1>11, <1>12
     DEF Steps, Controller

(* OutcomeTrue: unless somebody else reloads the server, `tako servers       *)
(* upgrade' says that the server was upgraded only if the process that       *)
(* answered it runs the new binary and takes operations, and that it was     *)
(* rolled back only if the process that answers runs the previous one or     *)
(* another controller has replaced the binary too, for any number of         *)
(* controllers, processes, failures, crashes, kills and delays.              *)
THEOREM ReportsTrue == Spec => OutcomeTrue
<1>1. ASSUME IInv, OutcomeInv, Next, NEW c \in Controllers,
             ctl'[c].outcome # ctl[c].outcome, "reload" \notin kinds
      PROVE  /\ ctl'[c].outcome = "upgraded" =>
                    proc[ctl[c].via].version = "new" /\ proc'[ctl[c].via].mode = "normal"
             /\ ctl'[c].outcome = "rolled back" /\ ~Others(c) =>
                    proc'[symlink].version = "old"
  <2>a. TypeOK /\ CtlType /\ ProcInv /\ [Next]_vars
    BY <1>1 DEF IInv, ProcInv
  <2>b. /\ ctl[c] \in CtlRec /\ symlink \in Procs /\ main \in Procs \cup {NoOne}
        /\ proc \in [Procs -> ProcRec]
    BY <2>a DEF CtlType, TypeOK, ProcRec, Stages
  <2>c. Steps(c)
    BY <1>1, <2>a, OneMoves
  <2>1. ASSUME ctl'[c].outcome = "upgraded"
        PROVE  proc[ctl[c].via].version = "new" /\ proc'[ctl[c].via].mode = "normal"
    <3>1. ExitMode(c)
      BY <1>1, <2>1, <2>a, <2>c, Reported
    <3>2. ctl[c].handoff
      <4>1. ctl'[c].outcome = IF ctl[c].handoff THEN "upgraded" ELSE "already"
        BY <3>1, <2>a, <2>b DEF ExitMode, CtlType, CtlRec
      <4> QED
        BY <2>1, <4>1
    <3>3. ctl[c].pc = "released" /\ ctl[c].via \in Procs
          /\ proc[ctl[c].via].stage \in Accepting
      BY <2>b, <3>1 DEF ExitMode, Handles, CtlRec
    <3>4. proc'[ctl[c].via].mode = "normal"
      BY <2>b, <3>1, <3>3 DEF ExitMode, Normal, ProcRec
    <3> QED
      BY <1>1, <3>2, <3>3, <3>4 DEF OutcomeInv, NewInv
  <2>2. ASSUME ctl'[c].outcome = "rolled back", ~Others(c)
        PROVE  proc'[symlink].version = "old"
    <3>1. Restarted(c)
      BY <1>1, <2>2, <2>a, <2>c, Reported
    <3>2. ctl[c].pc = "restarting" /\ main # NoOne /\ proc[main].stage = "ready"
          /\ Alive(symlink) /\ proc' = proc
      BY <3>1 DEF Restarted, MainReady, Answers, Alive
    <3> QED
      BY <1>1, <2>2, <2>b, <3>2 DEF OutcomeInv, RollbackInv
  <2> QED
    BY <2>1, <2>2
<1>2. IInv /\ OutcomeInv /\ [Next]_vars =>
        [\A c \in Controllers : ctl'[c].outcome # ctl[c].outcome /\ "reload" \notin kinds =>
          /\ ctl'[c].outcome = "upgraded" =>
                proc[ctl[c].via].version = "new" /\ proc'[ctl[c].via].mode = "normal"
          /\ ctl'[c].outcome = "rolled back" /\ ~Others(c) =>
                proc'[symlink].version = "old"]_vars
  BY <1>1
<1>3. Spec => [](IInv /\ OutcomeInv)
  BY Invariance, OutcomeInit, OutcomeStep, PTL DEF Spec
<1> QED
  BY <1>2, <1>3, PTL DEF Spec, OutcomeTrue

-----------------------------------------------------------------------------
(* The server is reopened.                                                   *)

(* A process on its way up has not been asked to reload, and it is the main  *)
(* process unless it is the child of a reload; the one that serves is the    *)
(* one that is reached.  A process that is no child starts alone: the lock   *)
(* it has read is the lock, until it has cleared it.                         *)
BootInv ==
    \A p \in Procs :
        /\ proc[p].stage \in Rising => ~proc[p].hup /\ (~proc[p].child <=> main = p)
        /\ proc[p].stage = "serving" => symlink = p
        /\ proc[p].stage = "unlocking" => proc[p].mode = "normal"
        /\ ~proc[p].child /\ proc[p].stage \in {"clearing", "unlocking"} =>
              proc[p].owner = upgrade_lock
        /\ ~proc[p].child /\ proc[p].stage = "restoring" =>
              upgrade_lock = NoOne /\ proc[p].mode = "normal"

(* A process gets from one stage of its startup to the next.                 *)
Moves(p, from, to) ==
    /\ proc[p].stage = from /\ proc'[p].stage = to
    /\ proc'[p].hup = proc[p].hup /\ proc'[p].child = proc[p].child
    /\ \A q \in Procs : q # p => proc'[q] = proc[q]
    /\ UNCHANGED <<spawned, main, ctl, kinds>>

KeepsLock == UNCHANGED <<upgrade_lock, stale>>

Opens(p) == Moves(p, "spawned", "bound") /\ symlink' = p /\ KeepsLock

Prepares(p) ==
    /\ Moves(p, "bound", "claimed") \/ Moves(p, "claimed", "marked") \/ Moves(p, "marked", "reading")
    /\ symlink' = symlink /\ KeepsLock

Learns(p) ==
    /\ symlink' = symlink /\ KeepsLock
    /\ \/ Moves(p, "reading", "restoring") /\ proc[p].expected # NoOne
       \/ Moves(p, "reading", "clearing") /\ proc'[p].owner = upgrade_lock

Clears1(p) ==
    /\ symlink' = symlink /\ KeepsLock
    /\ Moves(p, "clearing", "unlocking")
    /\ proc'[p].owner = proc[p].owner /\ proc'[p].mode = "normal"

Clears2(p) ==
    /\ symlink' = symlink
    /\ Moves(p, "unlocking", "restoring") /\ proc'[p].mode = proc[p].mode
    /\ proc[p].owner = upgrade_lock => upgrade_lock' = NoOne
    /\ KeepsLock \/ (upgrade_lock' = NoOne /\ ~stale')

Serves(p) ==
    /\ symlink' = symlink /\ KeepsLock
    /\ Moves(p, "restoring", "serving") /\ proc'[p].mode = proc[p].mode

(* Becoming ready, with the parent's end.                                    *)
Readies(p) ==
    /\ proc[p].stage = "serving" /\ proc'[p].stage = "ready"
    /\ proc'[p].hup = proc[p].hup /\ proc'[p].mode = proc[p].mode
    /\ \A q \in Procs : q # p => proc'[q] = proc[q] \/ (q = main /\ proc'[q].stage = "stopping")
    /\ main' = IF main # p /\ proc[main].stage = "stopping" THEN main ELSE p
    /\ UNCHANGED <<spawned, symlink, ctl, kinds>> /\ KeepsLock

(* The end of a process that does not serve yet, or no more.                 *)
Leaves(p) ==
    /\ Gone(p) /\ proc[p].stage \in Booting \cup {"stopping"}
    /\ UNCHANGED <<ctl, kinds>> /\ KeepsLock

(* The startup, step by step.                                                *)
LEMMA StartupMoves ==
    ASSUME ProcInv, NEW p \in Procs, Startup(p)
    PROVE  \/ Opens(p) \/ Prepares(p) \/ Learns(p) \/ Clears1(p) \/ Clears2(p) \/ Serves(p)
           \/ Readies(p) \/ Leaves(p)
<1>a. proc \in [Procs -> ProcRec] /\ proc[p] \in ProcRec
  BY DEF ProcInv, TypeOK, ProcRec, Stages
<1>b. {"spawned", "bound", "claimed", "marked", "reading", "clearing", "unlocking", "restoring"}
          = Booting
  BY DEF Booting, Claiming
<1>1. CASE Bind(p) \/ Claim(p)
  <2>1. \E x \in {"bound", "claimed"} : proc' = [proc EXCEPT ![p] = [proc[p] EXCEPT !.stage = x]]
                                        /\ (Bind(p) => x = "bound") /\ (Claim(p) => x = "claimed")
    BY <1>1, <1>a DEF Bind, Claim
  <2>2. /\ Bind(p) => proc'[p].stage = "bound"
        /\ Claim(p) => proc'[p].stage = "claimed"
        /\ proc'[p].hup = proc[p].hup /\ proc'[p].child = proc[p].child
        /\ \A q \in Procs : q # p => proc'[q] = proc[q]
    BY <1>1, <1>a, <2>1 DEF ProcRec
  <2> QED
    BY <1>1, <2>2 DEF Bind, Claim, Opens, Prepares, Moves, KeepsLock, db, budget
<1>2. CASE TakeMarker(p) \/ ReadMode(p)
  <2>1. \A q \in Procs : q # p => proc'[q] = proc[q]
    BY <1>2, <1>a DEF TakeMarker, ReadMode
  <2>2. CASE TakeMarker(p)
    <3>1. proc'[p] = [proc[p] EXCEPT !.stage = "marked",
                                     !.expected = IF proc[p].child THEN marker ELSE NoOne]
      BY <2>2, <1>a DEF TakeMarker
    <3>2. /\ proc'[p].stage = "marked"
          /\ proc'[p].hup = proc[p].hup /\ proc'[p].child = proc[p].child
      BY <3>1, <1>a DEF ProcRec
    <3> QED
      BY <2>1, <2>2, <3>2 DEF TakeMarker, Prepares, Moves, KeepsLock, db, unit, budget
  <2>3. CASE ReadMode(p)
    <3>1. proc'[p] = [proc[p] EXCEPT !.stage = "reading", !.mode = server_mode]
      BY <2>3, <1>a DEF ReadMode
    <3>2. /\ proc'[p].stage = "reading"
          /\ proc'[p].hup = proc[p].hup /\ proc'[p].child = proc[p].child
      BY <3>1, <1>a DEF ProcRec
    <3> QED
      BY <2>1, <2>3, <3>2 DEF ReadMode, Prepares, Moves, KeepsLock, db, unit, budget
  <2> QED
    BY <1>2, <2>2, <2>3
<1>3. CASE ReadOwner(p)
  <2>1. CASE Gone(p)
    BY <1>3, <1>b, <2>1 DEF ReadOwner, Leaves, KeepsLock, db, budget
  <2>2. CASE ~Gone(p)
    <3>1. /\ proc' = [proc EXCEPT
                        ![p].stage = IF proc[p].expected # NoOne THEN "restoring" ELSE "clearing",
                        ![p].owner = upgrade_lock]
          /\ proc[p].stage = "reading"
          /\ UNCHANGED <<spawned, main, symlink, ctl, kinds, upgrade_lock, stale>>
      BY <1>3, <2>2 DEF ReadOwner, unit, db, budget
    <3>2. proc'[p] = [proc[p] EXCEPT
                        !.stage = IF proc[p].expected # NoOne THEN "restoring" ELSE "clearing",
                        !.owner = upgrade_lock]
          /\ \A q \in Procs : q # p => proc'[q] = proc[q]
      BY <3>1, <1>a
    <3>3. /\ proc'[p].stage = IF proc[p].expected # NoOne THEN "restoring" ELSE "clearing"
          /\ proc'[p].owner = upgrade_lock
          /\ proc'[p].hup = proc[p].hup /\ proc'[p].child = proc[p].child
      BY <3>2, <1>a DEF ProcRec
    <3> QED
      BY <3>1, <3>2, <3>3 DEF Learns, Moves, KeepsLock
  <2> QED
    BY <2>1, <2>2
<1>4. CASE ClearMode(p)
  <2>1. proc'[p] = [proc[p] EXCEPT !.stage = "unlocking", !.mode = "normal"]
        /\ \A q \in Procs : q # p => proc'[q] = proc[q]
    BY <1>4, <1>a DEF ClearMode
  <2>2. /\ proc'[p].stage = "unlocking" /\ proc'[p].mode = "normal"
        /\ proc'[p].owner = proc[p].owner
        /\ proc'[p].hup = proc[p].hup /\ proc'[p].child = proc[p].child
    BY <2>1, <1>a DEF ProcRec
  <2> QED
    BY <1>4, <2>1, <2>2 DEF ClearMode, Clears1, Moves, KeepsLock, unit, budget
<1>5. CASE ClearLock(p)
  <2>1. proc'[p] = [proc[p] EXCEPT !.stage = "restoring"]
        /\ \A q \in Procs : q # p => proc'[q] = proc[q]
    BY <1>5, <1>a DEF ClearLock
  <2>2. /\ proc'[p].stage = "restoring" /\ proc'[p].mode = proc[p].mode
        /\ proc'[p].hup = proc[p].hup /\ proc'[p].child = proc[p].child
    BY <2>1, <1>a DEF ProcRec
  <2>3. /\ proc[p].owner = upgrade_lock => upgrade_lock' = NoOne
        /\ KeepsLock \/ (upgrade_lock' = NoOne /\ ~stale')
    BY <1>5 DEF ClearLock, Release, KeepsLock, ProcInv, TypeOK
  <2> QED
    BY <1>5, <2>1, <2>2, <2>3 DEF ClearLock, Clears2, Moves, unit, budget
<1>6. CASE Publish(p)
  <2>1. proc'[p] = [proc[p] EXCEPT !.stage = "serving", !.owner = NoOne, !.expected = NoOne,
                                   !.by = NoOne]
        /\ \A q \in Procs : q # p => proc'[q] = proc[q]
    BY <1>6, <1>a DEF Publish
  <2>2. /\ proc'[p].stage = "serving" /\ proc'[p].mode = proc[p].mode
        /\ proc'[p].hup = proc[p].hup /\ proc'[p].child = proc[p].child
    BY <2>1, <1>a DEF ProcRec
  <2> QED
    BY <1>6, <2>1, <2>2 DEF Publish, Serves, Moves, KeepsLock, unit, db, budget
<1>7. CASE Ready(p)
  <2>1. proc'[p] = [proc[p] EXCEPT !.stage = "ready"]
        /\ \A q \in Procs : q # p => \/ proc'[q] = proc[q]
                                     \/ q = main /\ proc'[q] = [proc[q] EXCEPT !.stage = "stopping"]
    BY <1>7, <1>a DEF Ready
  <2>2. \A q \in Procs : [proc[q] EXCEPT !.stage = "stopping"].stage = "stopping"
    BY <1>a DEF ProcRec
  <2>3. /\ proc'[p].stage = "ready" /\ proc'[p].mode = proc[p].mode
        /\ proc'[p].hup = proc[p].hup
    BY <2>1, <1>a DEF ProcRec
  <2> QED
    BY <1>7, <2>1, <2>2, <2>3 DEF Ready, Readies, KeepsLock, db, budget
<1>8. CASE ClaimTimesOut(p) \/ Stopped(p)
  BY <1>8, <1>b DEF ClaimTimesOut, Stopped, Leaves, KeepsLock, db, budget
<1> QED
  BY <1>1, <1>2, <1>3, <1>4, <1>5, <1>6, <1>7, <1>8 DEF Startup

(* While a process starts that is no child of a reload, none accepts         *)
(* commands.                                                                 *)
LEMMA BootsAlone ==
    ASSUME IInv, OrderInv, NEW p \in Procs, NEW q \in Procs, proc[p].stage \in Booting,
           ~proc[p].child
    PROVE  proc[q].stage \notin Accepting
<1>a. /\ p \in Nat /\ q \in Nat /\ spawned \in Nat
      /\ p = spawned /\ (q > spawned => proc[q].stage = "none")
  BY DEF IInv, ProcInv, TypeOK, OneStarting, Procs, Rising
<1>1. q < p => ~Alive(q)
  BY DEF OrderInv
<1> QED
  BY <1>a, <1>1, StageSets DEF Alive

(* What a step outside the startup keeps of a process on its way up.         *)
KeepsBoot(q) ==
    /\ proc'[q].stage = proc[q].stage /\ proc'[q].hup = proc[q].hup
    /\ proc'[q].child = proc[q].child /\ (main' = q <=> main = q)
    /\ proc[q].stage # "serving" => proc'[q].mode = proc[q].mode /\ proc'[q].owner = proc[q].owner

(* It is enough if the lock does not change beside a process that starts     *)
(* alone.                                                                    *)
LEMMA BootKept ==
    ASSUME IInv, BootInv, \A q \in Procs : proc'[q].stage \in Rising => KeepsBoot(q),
           symlink' = symlink,
           \/ upgrade_lock' = upgrade_lock
           \/ \A q \in Procs : proc[q].stage \in Booting => proc[q].child
    PROVE  BootInv'
<1> SUFFICES ASSUME NEW p \in Procs, proc'[p].stage \in Rising
             PROVE  /\ ~proc'[p].hup /\ (~proc'[p].child <=> main' = p)
                    /\ proc'[p].stage = "serving" => symlink' = p
                    /\ proc'[p].stage = "unlocking" => proc'[p].mode = "normal"
                    /\ ~proc'[p].child /\ proc'[p].stage \in {"clearing", "unlocking"} =>
                          proc'[p].owner = upgrade_lock'
                    /\ ~proc'[p].child /\ proc'[p].stage = "restoring" =>
                          upgrade_lock' = NoOne /\ proc'[p].mode = "normal"
  BY DEF BootInv, Rising, Booting, Claiming
<1>1. KeepsBoot(p) /\ proc[p].stage \in Rising
  BY DEF KeepsBoot
<1>2. {"clearing", "unlocking", "restoring"} \subseteq Booting
  BY DEF Booting, Claiming
<1> QED
  BY <1>1, <1>2 DEF BootInv, KeepsBoot

(* The startup keeps it.                                                     *)
LEMMA BootInvMoves ==
    ASSUME IInv, OrderInv, BootInv, NEW p \in Procs, Startup(p)
    PROVE  BootInv'
<1>a. /\ \A q \in Procs : proc[q].stage \in Rising => q = spawned
      /\ proc[p].stage \in Claiming => symlink = p
      /\ main # NoOne => Alive(main)
      /\ main = NoOne => ~Alive(p)
      /\ proc[p].expected # NoOne => proc[p].child
      /\ main \in Procs \cup {NoOne} /\ p # NoOne
  BY UpgradeAssumption DEF IInv, ProcInv, OneStarting, LatestServes, OrderInv, TypeOK, Procs
<1>b. /\ Rising = {"spawned", "bound", "serving", "claimed", "marked", "reading", "clearing",
                   "unlocking", "restoring"}
      /\ Claiming = {"claimed", "marked", "reading", "clearing", "unlocking", "restoring"}
      /\ Booting \cup {"serving"} = Rising
  BY DEF Rising, Claiming, Booting
<1>c. /\ proc[p].stage \in Rising => ~proc[p].hup /\ (~proc[p].child <=> main = p)
      /\ proc[p].stage = "unlocking" => proc[p].mode = "normal"
      /\ ~proc[p].child /\ proc[p].stage \in {"clearing", "unlocking"} =>
            proc[p].owner = upgrade_lock
      /\ ~proc[p].child /\ proc[p].stage = "restoring" =>
            upgrade_lock = NoOne /\ proc[p].mode = "normal"
  BY DEF BootInv
<1>1. ASSUME NEW from \in Rising, NEW to \in Rising, Moves(p, from, to),
             to = "serving" => symlink' = p,
             to = "unlocking" => proc'[p].mode = "normal",
             ~proc[p].child /\ to \in {"clearing", "unlocking"} => proc'[p].owner = upgrade_lock',
             ~proc[p].child /\ to = "restoring" =>
                 upgrade_lock' = NoOne /\ proc'[p].mode = "normal"
      PROVE  BootInv'
  <2>1. \A q \in Procs : q # p => proc'[q].stage \notin Rising
    BY <1>1, <1>a DEF Moves
  <2>2. proc'[p].stage = to /\ ~proc'[p].hup /\ (~proc'[p].child <=> main' = p)
        /\ proc'[p].child = proc[p].child
    BY <1>1, <1>c DEF Moves
  <2> SUFFICES ASSUME NEW q \in Procs, q # p
               PROVE  proc'[q].stage \notin {"serving", "clearing", "unlocking", "restoring"}
                      /\ proc'[q].stage \notin Rising
    BY <1>1, <2>2 DEF BootInv
  <2> QED
    BY <1>b, <2>1
<1>2. CASE Opens(p)
  BY <1>1, <1>2, <1>b DEF Opens
<1>3. CASE Prepares(p)
  BY <1>1, <1>3, <1>b DEF Prepares
<1>4. CASE Learns(p)
  BY <1>1, <1>4, <1>a, <1>b DEF Learns, KeepsLock
<1>5. CASE Clears1(p)
  BY <1>1, <1>5, <1>b, <1>c DEF Clears1, KeepsLock, Moves
<1>6. CASE Clears2(p)
  BY <1>1, <1>6, <1>b, <1>c DEF Clears2, Moves
<1>7. CASE Serves(p)
  BY <1>1, <1>7, <1>a, <1>b DEF Serves, Moves
<1>8. CASE Readies(p)
  <2>1. \A q \in Procs : proc'[q].stage \notin Rising
    BY <1>8, <1>a, <1>b DEF Readies
  <2> QED
    BY <1>b, <2>1 DEF BootInv
<1>9. CASE Leaves(p)
  <2>1. \A q \in Procs : proc'[q].stage \in Rising => proc'[q] = proc[q] /\ (main' = q <=> main = q)
    <3> SUFFICES ASSUME NEW q \in Procs, proc'[q].stage \in Rising
                 PROVE  proc'[q] = proc[q] /\ (main' = q <=> main = q)
      OBVIOUS
    <3>1. proc'[q] = proc[q] /\ q # p /\ ~(p = main /\ proc[q].stage # "none")
      BY <1>9, <1>b DEF Leaves, Gone, Ends, Fresh
    <3>2. p # main
      BY <3>1, <1>b
    <3> QED
      BY <1>9, <3>1, <3>2 DEF Leaves, Gone
  <2>2. symlink' = symlink /\ upgrade_lock' = upgrade_lock
    BY <1>9 DEF Leaves, Gone, KeepsLock
  <2>3. \A q \in Procs : proc'[q].stage \in Rising => KeepsBoot(q)
    BY <2>1 DEF KeepsBoot
  <2> QED
    BY ONLY <2>2, <2>3, BootKept, IInv, BootInv
<1>d. ProcInv
  BY DEF IInv
<1> QED
  BY <1>2, <1>3, <1>4, <1>5, <1>6, <1>7, <1>8, <1>9, <1>d, StartupMoves

(* What the other steps do to processes and lock: nothing,                   *)
Idles == UNCHANGED <<proc, spawned, main, symlink>> /\ KeepsLock

(* one process changes its mode,                                             *)
Sets(v, m) ==
    /\ v \in Procs /\ proc[v].stage \in Accepting /\ proc'[v].mode = m
    /\ \A q \in Procs : q # v => proc'[q] = proc[q]
    /\ proc'[v].stage = proc[v].stage /\ proc'[v].hup = proc[v].hup /\ proc'[v].child = proc[v].child
    /\ UNCHANGED <<spawned, main, symlink>> /\ KeepsLock

(* the main process starts a child,                                          *)
Forks ==
    /\ MainReady /\ ~proc[main].hup /\ spawned' = spawned + 1 /\ spawned' \in Procs
    /\ proc'[spawned'].stage = "spawned" /\ proc'[spawned'].child /\ ~proc'[spawned'].hup
    /\ \A q \in Procs \ {main, spawned'} : proc'[q] = proc[q]
    /\ proc'[main].stage = "ready" /\ proc'[main].hup /\ proc'[main].mode = proc[main].mode
    /\ main # spawned' /\ UNCHANGED <<main, symlink>> /\ KeepsLock

(* or the main process is stopped.                                           *)
Halts ==
    /\ main' = NoOne \/ (main' = main /\ main \in Procs /\ proc'[main].stage = "stopping")
    /\ \A q \in Procs : proc'[q].stage \in Rising => KeepsBoot(q)
    /\ UNCHANGED <<spawned, symlink>> /\ KeepsLock

(* A SIGHUP starts a child, or does nothing.                                 *)
LEMMA HupForks ==
    ASSUME ProcInv, NEW by \in Controllers \cup {NoOne}, Hup(by), KeepsLock
    PROVE  Idles \/ Forks
<1>a. /\ proc \in [Procs -> ProcRec] /\ main \in Procs /\ proc[main] \in ProcRec
      /\ proc[main].stage = "ready" /\ main \in Nat /\ spawned \in Nat
  BY UpgradeAssumption DEF Hup, MainReady, ProcInv, TypeOK, ProcRec, Stages, Procs
<1>b. proc[main].stage # "none" /\ main <= spawned
  BY <1>a DEF ProcInv, OneStarting
<1>1. CASE proc[main].hup
  BY <1>1 DEF Hup, Idles, unit
<1>2. CASE ~proc[main].hup
  <2> DEFINE n == spawned + 1
             f == [proc EXCEPT ![main].hup = TRUE]
  <2>1. /\ Spawn /\ UNCHANGED <<main, symlink>>
        /\ proc' = [f EXCEPT ![n] = [Fresh EXCEPT !.stage = "spawned", !.child = TRUE, !.by = by,
                                                  !.version = binary]]
    BY <1>2 DEF Hup, Born
  <2>2. n \in Procs /\ spawned' = n /\ main # n
    BY <1>a, <1>b, <2>1, UpgradeAssumption DEF Spawn, Procs, ProcInv, TypeOK
  <2>3. /\ \A q \in Procs \ {n} : proc'[q] = f[q]
        /\ proc'[n] = [Fresh EXCEPT !.stage = "spawned", !.child = TRUE, !.by = by,
                                    !.version = binary]
    BY <1>a, <2>1, <2>2
  <2>4. /\ \A q \in Procs \ {main} : f[q] = proc[q]
        /\ f[main] = [proc[main] EXCEPT !.hup = TRUE]
    BY <1>a
  <2>5. /\ f[main].stage = "ready" /\ f[main].hup /\ f[main].mode = proc[main].mode
    BY <1>a, <2>4 DEF ProcRec
  <2>6. proc'[n].stage = "spawned" /\ proc'[n].child /\ ~proc'[n].hup
    BY <2>3 DEF Fresh
  <2> HIDE DEF f
  <2>7. MainReady
    BY DEF Hup
  <2> QED
    BY <1>a, <1>2, <2>1, <2>2, <2>3, <2>4, <2>5, <2>6, <2>7 DEF Forks
<1> QED
  BY <1>1, <1>2

(* A restart stops the main process.                                         *)
LEMMA RestartHalts ==
    ASSUME ProcInv, RestartUnit, KeepsLock
    PROVE  Halts
<1>a. /\ proc \in [Procs -> ProcRec] /\ main \in Procs \cup {NoOne} /\ NoOne \notin Procs
  BY UpgradeAssumption DEF ProcInv, TypeOK, ProcRec, Stages, Procs
<1>b. Rising = {"spawned", "bound", "serving", "claimed", "marked", "reading", "clearing",
                "unlocking", "restoring"}
  BY DEF Rising, Claiming, Booting
<1>1. CASE main = NoOne /\ UNCHANGED <<proc, unit>>
  BY <1>1 DEF Halts, KeepsBoot, unit
<1>2. CASE main # NoOne /\ Gone(main)
  <2>1. \A q \in Procs : proc'[q].stage \notin Rising
    <3> SUFFICES ASSUME NEW q \in Procs
                 PROVE  proc'[q].stage \in {"gone", "none"}
      BY <1>b
    <3> QED
      BY <1>2 DEF Gone, Ends, Fresh
  <2> QED
    BY <1>2, <2>1 DEF Halts, Gone
<1>3. CASE main # NoOne /\ proc' = [proc EXCEPT ![main].stage = "stopping"] /\ UNCHANGED unit
  <2>1. /\ main \in Procs /\ proc'[main] = [proc[main] EXCEPT !.stage = "stopping"]
        /\ \A q \in Procs \ {main} : proc'[q] = proc[q]
    BY <1>3, <1>a
  <2>2. proc'[main].stage = "stopping"
    BY <2>1, <1>a DEF ProcRec
  <2>3. \A q \in Procs : proc'[q].stage \in Rising => proc'[q] = proc[q]
    BY <1>b, <2>1, <2>2
  <2> QED
    BY <1>3, <2>1, <2>2, <2>3 DEF Halts, KeepsBoot, unit
<1> QED
  BY <1>1, <1>2, <1>3 DEF RestartUnit

(* The mode of the process that handles a command is set.                    *)
LEMMA ModeSets ==
    ASSUME ProcInv, NEW v \in Procs, NEW m, proc[v].stage \in Accepting,
           proc' = [proc EXCEPT ![v].mode = m], UNCHANGED unit, KeepsLock
    PROVE  Sets(v, m)
<1>a. proc \in [Procs -> ProcRec]
  BY DEF ProcInv, TypeOK, ProcRec, Stages
<1>1. /\ proc'[v] = [proc[v] EXCEPT !.mode = m]
      /\ \A q \in Procs : q # v => proc'[q] = proc[q]
  BY <1>a
<1>2. /\ proc'[v].mode = m /\ proc'[v].stage = proc[v].stage
      /\ proc'[v].hup = proc[v].hup /\ proc'[v].child = proc[v].child
  BY <1>1, <1>a DEF ProcRec
<1> QED
  BY <1>1, <1>2 DEF Sets, unit

(* A command takes or frees the lock in a process that accepts commands.     *)
Locks(c) ==
    /\ \/ EnterLock(c)
       \/ (ExitLock(c) \/ UndoLock(c)) /\ upgrade_lock = c
    /\ ctl[c].via \in Procs /\ proc[ctl[c].via].stage \in Accepting
    /\ UNCHANGED <<proc, spawned, main, symlink>>

(* A command sets the mode of the process that handles it.                   *)
Switches(c) ==
    \/ EnterMode(c) /\ Sets(ctl[c].via, "upgrading")
    \/ (ExitMode(c) \/ UndoMode(c)) /\ Sets(ctl[c].via, "normal")

(* The steps of a controller, by what they do to processes and lock.         *)
LEMMA ControllerMoves ==
    ASSUME ProcInv, CtlType, NEW c \in Controllers, Steps(c)
    PROVE  \/ Locks(c) \/ Switches(c)
           \/ Reload(c) /\ Forks
           \/ Restart(c) /\ Halts
           \/ /\ Idles /\ ~Restart(c)
              /\ PlainStep(c) \/ (UndoLock(c) /\ upgrade_lock # c)
<1>a. ctl[c].via \in Procs \cup {NoOne}
  BY DEF CtlType, CtlRec
<1>1. CASE EnterLock(c) \/ ExitLock(c)
  <2>1. /\ ctl[c].via \in Procs /\ proc[ctl[c].via].stage \in Accepting
        /\ UNCHANGED <<proc, unit>> /\ (ExitLock(c) => upgrade_lock = c)
    BY <1>1, <1>a DEF EnterLock, ExitLock, Handles
  <2> QED
    BY <1>1, <2>1 DEF Locks, unit
<1>2. CASE UndoLock(c)
  <2>1. CASE upgrade_lock = c
    BY <1>2, <1>a, <2>1 DEF UndoLock, Handles, Locks, unit
  <2>2. CASE upgrade_lock # c
    BY <1>2, <2>2 DEF UndoLock, Handles, Restart, Idles, KeepsLock, unit
  <2> QED
    BY <2>1, <2>2
<1>3. CASE EnterMode(c) \/ ExitMode(c) \/ UndoMode(c)
  <2>1. ctl[c].via \in Procs /\ proc[ctl[c].via].stage \in Accepting /\ UNCHANGED unit
    BY <1>3, <1>a DEF EnterMode, ExitMode, UndoMode, Handles
  <2>2. KeepsLock
    BY <1>3 DEF EnterMode, ExitMode, UndoMode, KeepsLock
  <2>3. CASE EnterMode(c)
    <3>1. proc' = [proc EXCEPT ![ctl[c].via].mode = "upgrading"]
      BY <2>3 DEF EnterMode
    <3> QED
      BY <2>1, <2>2, <2>3, <3>1, ModeSets DEF Switches
  <2>4. CASE ExitMode(c) \/ UndoMode(c)
    <3>1. proc' = [proc EXCEPT ![ctl[c].via].mode = "normal"]
      BY <2>4 DEF ExitMode, UndoMode, Normal
    <3> QED
      BY <2>1, <2>2, <2>4, <3>1, ModeSets DEF Switches
  <2> QED
    BY <1>3, <2>3, <2>4
<1>4. CASE Reload(c)
  <2>1. KeepsLock /\ ctl[c].pc = "reload"
    BY <1>4 DEF Reload, KeepsLock, db
  <2>2. CASE Hup(c)
    <3>1. Idles \/ Forks
      BY <2>1, <2>2, HupForks
    <3> QED
      BY <1>4, <2>1, <3>1 DEF Restart, PlainStep
  <2>3. CASE UNCHANGED <<proc, unit>>
    BY <1>4, <2>1, <2>3 DEF Restart, PlainStep, Idles, unit
  <2> QED
    BY <1>4, <2>2, <2>3 DEF Reload
<1>5. CASE Restart(c)
  <2>1. KeepsLock /\ RestartUnit
    BY <1>5 DEF Restart, KeepsLock, db
  <2> QED
    BY <1>5, <2>1, RestartHalts
<1>6. CASE PlainStep(c) /\ ~Restart(c) /\ UNCHANGED <<proc, unit, db>>
  BY <1>6 DEF Idles, KeepsLock, unit, db
<1> QED
  BY <1>1, <1>2, <1>3, <1>4, <1>5, <1>6
     DEF Steps, Controller, PlainStep, SshFails, ExitFails, AnswerLost, Killed, CheckVersion, Send,
         NoAnswer,
         EnterRefused, Info, Install, Compare, WaitReady, WaitTimesOut, Recheck, ExitRefused,
         Cleanup, Restore, Restarted, Unmark

(* A child starts only where no process is on its way up.                    *)
LEMMA BootForks ==
    ASSUME IInv, BootInv, Forks
    PROVE  BootInv'
<1>1. /\ proc[spawned].stage \notin Rising
      /\ \A q \in Procs : proc[q].stage \in Rising => q = spawned
      /\ "ready" \notin Rising
  BY StageSets DEF IInv, ProcInv, OneStarting, Forks
<1>2. \A q \in Procs \ {spawned'} : proc'[q].stage \notin Rising
  BY <1>1 DEF Forks
<1>3. {"serving", "unlocking", "clearing", "restoring"} \subseteq Rising
  BY DEF Rising, Booting, Claiming
<1> QED
  BY <1>2, <1>3 DEF BootInv, Forks

(* Every step keeps it.                                                      *)
LEMMA BootInvStep ==
    ASSUME IInv, OrderInv, BootInv, [Next]_vars
    PROVE  BootInv'
<1>a. ProcInv /\ CtlType
  BY DEF IInv
<1>b. ASSUME Idles
      PROVE  BootInv'
  BY <1>b, BootKept DEF Idles, KeepsBoot, KeepsLock
<1>c. ASSUME Halts
      PROVE  BootInv'
  BY <1>c, BootKept DEF Halts, KeepsLock
<1>1. CASE Boot
  <2>1. \A q \in Procs : ~Alive(q)
    BY <1>1, <1>a DEF Boot, ProcInv, OneStarting
  <2>2. /\ spawned + 1 \in Procs /\ main' = spawned + 1 /\ proc \in [Procs -> ProcRec]
    BY <1>1, <1>a, UpgradeAssumption DEF Boot, Spawn, ProcInv, TypeOK, Procs, ProcRec, Stages
  <2>3. /\ \A q \in Procs \ {spawned + 1} : proc'[q] = proc[q]
        /\ proc'[spawned + 1].stage = "spawned" /\ ~proc'[spawned + 1].child
        /\ ~proc'[spawned + 1].hup
    BY <1>1, <2>2 DEF Boot, Born, Fresh
  <2>4. \A q \in Procs \ {spawned + 1} : proc'[q].stage \notin Rising
    BY <2>1, <2>3 DEF Alive, Rising, Accepting
  <2>5. {"serving", "unlocking", "clearing", "restoring"} \subseteq Rising
    BY DEF Rising, Booting, Claiming
  <2> QED
    BY <2>2, <2>3, <2>4, <2>5 DEF BootInv
<1>2. ASSUME NEW p \in Procs, Startup(p)
      PROVE  BootInv'
  BY <1>2, BootInvMoves
<1>3. ASSUME NEW p \in Procs, Execute(p) \/ ExecuteUnlisted(p) \/ Finish(p)
      PROVE  BootInv'
  <2>1. PICK o : proc' = [proc EXCEPT ![p].op = o]
    BY <1>3 DEF Execute, ExecuteUnlisted, Finish
  <2>2. \A q \in Procs : proc'[q] = proc[q] \/ proc'[q] = [proc[q] EXCEPT !.op = o]
    BY <2>1, <1>a DEF ProcInv, TypeOK
  <2>3. UNCHANGED <<main, symlink, upgrade_lock>>
    BY <1>3 DEF Execute, ExecuteUnlisted, Finish, unit, db
  <2>4. \A q \in Procs : KeepsBoot(q)
    <3> SUFFICES ASSUME NEW q \in Procs
                 PROVE  KeepsBoot(q)
      OBVIOUS
    <3>1. proc[q] \in ProcRec
      BY <1>a DEF ProcInv, TypeOK, ProcRec, Stages
    <3>2. /\ proc'[q].stage = proc[q].stage /\ proc'[q].hup = proc[q].hup
          /\ proc'[q].child = proc[q].child /\ proc'[q].mode = proc[q].mode
          /\ proc'[q].owner = proc[q].owner
      BY <2>2, <3>1 DEF ProcRec
    <3> QED
      BY <2>3, <3>2 DEF KeepsBoot
  <2> QED
    BY <2>3, <2>4, BootKept
<1>4. ASSUME NEW p \in Procs, Crash(p)
      PROVE  BootInv'
  <2>1. Gone(p) /\ UNCHANGED <<upgrade_lock, symlink>>
    BY <1>4 DEF Crash, Gone, db
  <2>2. Rising \cap {"gone", "none"} = {}
    BY StageSets
  <2>3. ASSUME NEW q \in Procs, proc'[q].stage \in Rising
        PROVE  KeepsBoot(q)
    <3>1. proc'[q] = proc[q] /\ q # p /\ ~(p = main /\ proc[q].stage # "none")
      BY <2>1, <2>2, <2>3 DEF Gone, Ends, Fresh
    <3>2. p # main
      BY <2>2, <2>3, <3>1
    <3> QED
      BY <2>1, <3>1, <3>2 DEF Gone, KeepsBoot
  <2> QED
    BY <2>1, <2>3, BootKept
<1>5. ASSUME NEW c \in Controllers, Steps(c)
      PROVE  BootInv'
  <2>1. CASE Locks(c)
    <3>1. \A q \in Procs : proc[q].stage \in Booting => proc[q].child
      BY <2>1, BootsAlone DEF Locks
    <3> QED
      BY <2>1, <3>1, BootKept DEF Locks, KeepsBoot
  <2>2. ASSUME NEW v, NEW m, Sets(v, m)
        PROVE  BootInv'
    <3>1. \A q \in Procs : proc'[q].stage \in Rising => KeepsBoot(q)
      <4>1. Rising \cap Accepting = {"serving"}
        BY DEF Rising, Accepting, Booting, Claiming
      <4> QED
        BY <2>2, <4>1 DEF Sets, KeepsBoot
    <3> QED
      BY <2>2, <3>1, BootKept DEF Sets, KeepsLock
  <2> QED
    BY <1>5, <1>a, <1>b, <1>c, <2>1, <2>2, ControllerMoves, BootForks DEF Switches
<1>6. CASE OperatorReload
  <2>1. KeepsLock
    BY <1>6 DEF OperatorReload, KeepsLock, db
  <2>2. CASE Hup(NoOne)
    BY <1>a, <1>b, <2>1, <2>2, HupForks, BootForks
  <2>3. CASE RestartUnit
    BY <1>a, <1>c, <2>1, <2>3, RestartHalts
  <2> QED
    BY <1>6, <2>2, <2>3 DEF OperatorReload
<1>7. CASE GrowStale \/ UNCHANGED vars
  <2>1. UNCHANGED <<proc, main, symlink, upgrade_lock>>
    BY <1>7 DEF GrowStale, vars, unit, db
  <2> QED
    BY <2>1, BootKept DEF KeepsBoot
<1> QED
  BY <1>1, <1>2, <1>3, <1>4, <1>5, <1>6, <1>7 DEF Next, Steps

-----------------------------------------------------------------------------
(* A controller that reported that its roll-back failed has nothing left to  *)
(* do but to give the lock back.                                             *)
FinalInv ==
    \A c \in Controllers : ctl[c].outcome = "rollback failed" =>
        ctl[c].pc \in {"undo", "undone", "unmark", "done", "dead"}

(* The disturbances Reopened allows for.                                     *)
Mild ==
    /\ \/ kinds \subseteq {"ssh"}
       \/ kinds \subseteq {"slow"}
    /\ \A c \in Controllers : ctl[c].outcome # "rollback failed"

(* The unit is being restarted: what comes up then clears mode and lock.     *)
Reset == main = NoOne \/ proc[main].stage \in Booting \cup {"stopping"}

(* A controller that is going to restart the unit: it has replaced the       *)
(* binary and has failed, or it will when it finds that the lock is lost.    *)
Working == {"compare", "unchanged", "reload", "wait", "recheck", "exit"}

Doomed(c) ==
    \/ ctl[c].pc \in {"restore", "restart"}
    \/ ctl[c].pc \in Working /\ upgrade_lock # c

(* A controller that is going to end the upgrade at the process that is      *)
(* reached, or to go on to where it would.                                   *)
Undoes(c) ==
    \/ ctl[c].pc \in {"info", "install"} /\ (upgrade_lock = c \/ "slow" \in kinds)
    \/ /\ ctl[c].pc \in Working \cup {"undo"}
       /\ upgrade_lock = c /\ ctl[c].via \in {NoOne, symlink}
    \/ ctl[c].pc \in {"released", "undone"} /\ ctl[c].via = symlink

(* Without delays only a lock whose controller has ended is stale; only a    *)
(* failed command makes a controller give up before it has replaced the      *)
(* binary.                                                                   *)
TimesInv ==
    /\ "slow" \notin kinds /\ stale =>
          upgrade_lock \in Controllers /\ ctl[upgrade_lock].pc \in {"done", "dead"}
    /\ \A c \in Controllers : ctl[c].pc = "undo" => "ssh" \in kinds
    /\ \A c \in Controllers : ctl[c].pc \in {"info", "install"} => ctl[c].entered

(* When nobody is about to restart the unit: the main process is reached     *)
(* unless its child is; while a child is on its way, or has failed, the      *)
(* controller that reloaded has the lock and waits for an answer it does not *)
(* get; it knows the process that is reached; who is about to enter has the  *)
(* lock; and a process that is reached in upgrading mode has a controller    *)
(* that ends it.                                                             *)
Orderly ==
    /\ ~proc[main].hup => symlink = main
    /\ proc[main].hup /\ proc[spawned].stage # "serving" =>
          upgrade_lock \in Controllers /\ ctl[upgrade_lock].pc = "wait" /\ ~Answers(upgrade_lock)
    /\ \A c \in Controllers :
          upgrade_lock = c /\ ctl[c].pc \in {"install", "compare", "reload"} => ctl[c].pid = symlink
    /\ \A c \in Controllers :
          ctl[c].pc = "locked" /\ ctl[c].via = symlink => upgrade_lock = c \/ "slow" \in kinds
    /\ proc[symlink].stage \in Accepting \cup {"restoring"} /\ proc[symlink].mode = "upgrading" =>
          \E c \in Controllers : Undoes(c)

Doom == Reset \/ \E c \in Controllers : Doomed(c)

RecoveryInv == Mild => TimesInv /\ (Doom \/ Orderly)

(* What a step that only concerns its controller makes of it.                *)
Turns(c) ==
    /\ ctl'[c].pc = "undo" => ctl[c].pc = "undo" \/ "ssh" \in kinds'
    /\ ctl'[c].pc \in {"info", "install"} => ctl'[c].entered
    /\ ctl[c].pc \in {"done", "dead"} => ctl'[c].pc \in {"done", "dead"}
    /\ Doomed(c) => Doomed(c)'
    /\ upgrade_lock = c /\ ctl[c].pc = "wait" /\ ~Answers(c) => Doomed(c)'
    /\ ctl'[c].pc \in {"install", "compare", "reload"} =>
          \/ ctl'[c].pid = symlink
          \/ ctl[c].pc \in {"install", "compare", "reload"} /\ ctl'[c].pid = ctl[c].pid
    /\ ctl'[c].pc # "locked"
    /\ Undoes(c) /\ Alive(symlink) => Undoes(c)' \/ Doomed(c)'

(* The failure of a step.                                                    *)
LEMMA FailTurns ==
    ASSUME IInv, BinaryInv, TimesInv, Mild', Idles, kinds \subseteq kinds', NEW c \in Controllers,
           Fails(c), ctl[c].pc \in {"enter", "locked", "info", "install", "released"} \cup Working,
           ctl[c].pc \in {"info", "install"} => "ssh" \in kinds'
    PROVE  Turns(c)
<1>a. /\ ctl[c] \in CtlRec /\ ctl \in [Controllers -> CtlRec]
  BY DEF IInv, CtlType
<1>b. /\ ctl[c].pc \in {"released"} \cup Working <=> ctl[c].replaced
      /\ ctl[c].pc \in {"enter", "locked"} => ~ctl[c].entered
      /\ ctl[c].pc \in {"info", "install"} => ctl[c].entered
  <2>1. /\ ctl[c].pc \in {"released"} \cup Working => Live(c)
        /\ ctl[c].pc \in {"enter", "locked", "info", "install"} => ctl[c].pc \in Early
    BY DEF Live, Early, Working
  <2> QED
    BY <2>1 DEF BinaryInv, IInv, CommandInv, TimesInv
<1>1. ctl'[c] = [ctl[c] EXCEPT !.pc = Failed(ctl[c]), !.via = NoOne]
  BY <1>a DEF Fails
<1>2. ctl'[c].pc = Failed(ctl[c]) /\ ctl'[c].via = NoOne
  BY <1>1, <1>a DEF CtlRec
<1>3. CASE ctl[c].replaced
  <2>1. ctl'[c].pc = "restore"
    BY <1>2, <1>3 DEF Failed
  <2>2. Doomed(c)'
    BY <2>1 DEF Doomed
  <2>3. ctl[c].pc \notin {"done", "dead"}
    BY DEF Working
  <2> QED
    BY <2>1, <2>2, <2>3 DEF Turns
<1>4. CASE ctl[c].pc \in {"enter", "locked"}
  <2>1. ctl'[c].pc = "unmark"
    BY <1>2, <1>4, <1>b DEF Failed, Working
  <2> QED
    BY <1>4, <2>1 DEF Turns, Doomed, Undoes, Working
<1>5. CASE ctl[c].pc \in {"info", "install"}
  <2>1. ctl'[c].pc = "undo" /\ "ssh" \in kinds'
    BY <1>2, <1>5, <1>b DEF Failed, Working
  <2>2. "slow" \notin kinds
    BY <2>1 DEF Mild
  <2>3. Undoes(c) => Undoes(c)'
    BY <1>2, <1>5, <2>1, <2>2 DEF Undoes, Working, Idles, KeepsLock
  <2> QED
    BY <1>5, <2>1, <2>3 DEF Turns, Doomed, Working
<1> QED
  BY <1>3, <1>4, <1>5, <1>b

(* The steps that only concern their controller.                             *)
LEMMA PlainTurns ==
    ASSUME IInv, BinaryInv, WaitInv, TimesInv, Mild', Idles, kinds \subseteq kinds',
           NEW c \in Controllers, ~Restart(c),
           PlainStep(c) \/ (UndoLock(c) /\ upgrade_lock # c)
    PROVE  Turns(c)
<1>a. /\ ctl[c] \in CtlRec /\ ctl \in [Controllers -> CtlRec] /\ symlink \in Procs
      /\ NoOne \notin Procs
  BY UpgradeAssumption DEF IInv, CtlType, ProcInv, TypeOK, Procs
<1>b. upgrade_lock' = upgrade_lock /\ symlink' = symlink
  BY DEF Idles, KeepsLock
<1>c. /\ kinds' \cap {"exit", "answer", "kill"} = {}
      /\ ctl'[c].outcome # "rollback failed"
  BY DEF Mild
<1>d. ASSUME RollbackFails(c)
      PROVE  FALSE
  BY <1>a, <1>c, <1>d DEF RollbackFails, CtlRec
<1>e. /\ ctl[c].pc \in {"info", "install", "compare", "reload", "wait", "recheck"} =>
            ctl[c].via = NoOne
      /\ ctl[c].pc \in {"info", "install"} => ctl[c].entered
  BY DEF WaitInv, TimesInv
<1>f. /\ Working = {"compare", "unchanged", "reload", "wait", "recheck", "exit"}
      /\ {"exit", "unchanged", "compare", "reload", "wait", "recheck"} \subseteq Working
  BY DEF Working
<1> DEFINE r == ctl'[c]
           Same == r.via = ctl[c].via /\ r.pid = ctl[c].pid /\ r.entered = ctl[c].entered
<1>1. CASE CheckVersion(c)
  <2>1. ctl[c].pc = "start" /\ r.pc \in {"done", "enter"}
    BY <1>1, <1>a DEF CheckVersion, CtlRec
  <2> QED
    BY <2>1, <1>f DEF Turns, Doomed, Undoes
<1>2. CASE Send(c)
  <2>1. /\ ctl[c].pc \in {"enter", "exit", "unchanged", "undo"} /\ r.pc = ctl[c].pc
        /\ r.via = symlink
    BY <1>2, <1>a DEF Send, CtlRec
  <2>2. Undoes(c) => Undoes(c)'
    BY <2>1, <1>b, <1>f DEF Undoes
  <2>3. Doomed(c) => Doomed(c)'
    BY <2>1, <1>b DEF Doomed
  <2> QED
    BY <2>1, <2>2, <2>3 DEF Turns
<1>3. CASE NoAnswer(c)
  <2>1. CASE Fails(c) /\ ctl[c].pc \in {"enter", "locked", "exit", "released", "unchanged"}
    BY <2>1, <1>f, FailTurns
  <2>2. CASE /\ ctl[c].pc \in {"undo", "undone"}
             /\ ctl' = [ctl EXCEPT ![c].pc = "unmark", ![c].via = NoOne]
    <3>1. r.pc = "unmark"
      BY <2>2, <1>a DEF CtlRec
    <3>2. Undoes(c) => ~Alive(symlink)
      BY <1>3, <2>2, <1>a, <1>f DEF NoAnswer, Undoes
    <3> QED
      BY <2>2, <3>1, <3>2, <1>f DEF Turns, Doomed
  <2> QED
    BY <1>3, <2>1, <2>2 DEF NoAnswer
<1>4. CASE EnterRefused(c) \/ WaitTimesOut(c) \/ ExitRefused(c)
  <2>1. Fails(c) /\ ctl[c].pc \in {"enter", "wait", "exit", "unchanged"}
    BY <1>4 DEF EnterRefused, WaitTimesOut, ExitRefused, Handles
  <2> QED
    BY <2>1, <1>f, FailTurns
<1>5. CASE Info(c)
  <2>1. ctl[c].pc = "info" /\ r.pc = "install" /\ r.pid = symlink /\ r.entered = ctl[c].entered
    BY <1>5, <1>a DEF Info, CtlRec
  <2>2. Undoes(c) => Undoes(c)'
    BY <2>1, <1>b, <1>f DEF Undoes
  <2> QED
    BY <2>1, <2>2, <1>e, <1>f DEF Turns, Doomed
<1>6. CASE Install(c)
  <2>1. ctl[c].pc = "install" /\ r.pc = "compare" /\ Same
    BY <1>6, <1>a DEF Install, CtlRec
  <2>2. Undoes(c)' \/ Doomed(c)'
    BY <2>1, <1>b, <1>e, <1>f DEF Undoes, Doomed
  <2> QED
    BY <2>1, <2>2, <1>f DEF Turns, Doomed
<1>7. CASE Compare(c)
  <2>1. CASE Fails(c)
    BY <1>7, <2>1, <1>f, FailTurns DEF Compare
  <2>2. CASE ~Fails(c)
    <3>1. ctl[c].pc = "compare" /\ r.pc \in {"unchanged", "reload"} /\ Same
      <4>1. \/ ctl' = [ctl EXCEPT ![c].pc = "unchanged"]
            \/ ctl' = [ctl EXCEPT ![c].pc = "reload", ![c].handoff = TRUE]
        BY <1>7, <2>2 DEF Compare, Goto
      <4>2. CASE ctl' = [ctl EXCEPT ![c].pc = "unchanged"]
        BY <1>7, <4>2, <1>a DEF Compare, CtlRec
      <4>3. CASE ctl' = [ctl EXCEPT ![c].pc = "reload", ![c].handoff = TRUE]
        BY <1>7, <4>3, <1>a DEF Compare, CtlRec
      <4> QED
        BY <4>1, <4>2, <4>3
    <3>2. Undoes(c)' \/ Doomed(c)'
      BY <3>1, <1>b, <1>e, <1>f DEF Undoes, Doomed
    <3>3. Doomed(c) => Doomed(c)'
      BY <3>1, <1>b, <1>f DEF Doomed
    <3> QED
      BY <3>1, <3>2, <3>3 DEF Turns
  <2> QED
    BY <2>1, <2>2
<1>8. CASE Reload(c)
  <2>1. CASE Fails(c)
    BY <1>8, <2>1, <1>f, FailTurns DEF Reload
  <2>2. CASE ~Fails(c)
    <3>1. ctl[c].pc = "reload" /\ r.pc = "wait" /\ Same
      BY <1>8, <2>2, <1>a DEF Reload, Goto, CtlRec
    <3>2. Undoes(c)' \/ Doomed(c)'
      BY <3>1, <1>b, <1>e, <1>f DEF Undoes, Doomed
    <3>3. Doomed(c) => Doomed(c)'
      BY <3>1, <1>b, <1>f DEF Doomed
    <3> QED
      BY <3>1, <3>2, <3>3 DEF Turns
  <2> QED
    BY <2>1, <2>2
<1>9. CASE WaitReady(c)
  <2>1. ctl[c].pc = "wait" /\ r.pc = "recheck" /\ r.via = ctl[c].via /\ Answers(c)
    BY <1>9, <1>a DEF WaitReady, CtlRec
  <2>2. Undoes(c)' \/ Doomed(c)'
    BY <2>1, <1>b, <1>e, <1>f DEF Undoes, Doomed
  <2>3. Doomed(c) => Doomed(c)'
    BY <2>1, <1>b, <1>f DEF Doomed
  <2> QED
    BY <2>1, <2>2, <2>3 DEF Turns
<1>10. CASE Recheck(c)
  <2>1. CASE Fails(c)
    BY <1>10, <2>1, <1>f, FailTurns DEF Recheck
  <2>2. CASE ~Fails(c)
    <3>1. ctl[c].pc = "recheck" /\ r.pc = "exit" /\ Same
      BY <1>10, <2>2, <1>a DEF Recheck, Goto, CtlRec
    <3>2. Undoes(c)' \/ Doomed(c)'
      BY <3>1, <1>b, <1>e, <1>f DEF Undoes, Doomed
    <3>3. Doomed(c) => Doomed(c)'
      BY <3>1, <1>b, <1>f DEF Doomed
    <3> QED
      BY <3>1, <3>2, <3>3 DEF Turns
  <2> QED
    BY <2>1, <2>2
<1>11. CASE Cleanup(c) \/ Restarted(c) \/ Unmark(c)
  <2>1. /\ ctl[c].pc \in {"cleanup", "restarting", "unmark"} /\ r.pc \in {"unmark", "done"}
    <3>1. CASE Cleanup(c)
      BY <3>1, <1>a DEF Cleanup, Goto, CtlRec
    <3>2. CASE Restarted(c)
      BY <3>2, <1>a DEF Restarted, CtlRec
    <3>3. CASE Unmark(c)
      BY <3>3, <1>a DEF Unmark, Report, CtlRec
    <3> QED
      BY <1>11, <3>1, <3>2, <3>3
  <2> QED
    BY <2>1, <1>f DEF Turns, Doomed, Undoes
<1>12. CASE Restore(c)
  <2>1. ctl[c].pc = "restore" /\ r.pc = "restart"
    BY <1>12, <1>a, <1>d DEF Restore, Goto, CtlRec
  <2>2. Doomed(c)'
    BY <2>1 DEF Doomed
  <2> QED
    BY <2>1, <2>2 DEF Turns
<1>13. CASE SshFails(c)
  <2>1. CASE Fails(c) /\ ctl[c].pc \in {"enter", "info", "install", "compare", "reload", "recheck",
                                        "exit", "unchanged"}
    <3>1. "ssh" \in kinds'
      BY <1>13 DEF SshFails, Disturbed
    <3> QED
      BY <2>1, <3>1, <1>f, FailTurns
  <2>2. CASE ctl[c].pc = "cleanup" /\ Goto(c, "unmark")
    <3>1. r.pc = "unmark"
      BY <2>2, <1>a DEF Goto, CtlRec
    <3> QED
      BY <2>2, <3>1, <1>f DEF Turns, Doomed, Undoes
  <2>3. CASE ctl[c].pc = "unmark" /\ Report(c)
    <3>1. r.pc = "done"
      BY <2>3, <1>a DEF Report, CtlRec
    <3> QED
      BY <2>3, <3>1, <1>f DEF Turns, Doomed, Undoes
  <2> QED
    BY <1>13, <1>d, <2>1, <2>2, <2>3 DEF SshFails
<1>14. CASE ExitFails(c) \/ AnswerLost(c) \/ Killed(c)
  BY <1>14, <1>c DEF ExitFails, AnswerLost, Killed, Disturbed
<1>15. CASE UndoLock(c) /\ upgrade_lock # c
  <2>1. ctl[c].pc = "undo" /\ r.pc = "unmark"
    BY <1>15, <1>a DEF UndoLock, Handles, CtlRec
  <2> QED
    BY <1>15, <2>1, <1>f DEF Turns, Doomed, Undoes
<1> QED
  BY <1>1, <1>2, <1>3, <1>4, <1>5, <1>6, <1>7, <1>8, <1>9, <1>10, <1>11, <1>12, <1>13, <1>14,
     <1>15 DEF PlainStep

(* Such a turn keeps the invariant.                                          *)
LEMMA TurnKept ==
    ASSUME IInv, TimesInv, Doom \/ Orderly, Idles, kinds \subseteq kinds', NEW c \in Controllers,
           Turns(c), \A d \in Controllers \ {c} : ctl'[d] = ctl[d]
    PROVE  TimesInv' /\ (Doom \/ Orderly)'
<1>a. /\ UNCHANGED <<proc, spawned, main, symlink, upgrade_lock, stale>>
  BY DEF Idles, KeepsLock
<1>1. TimesInv'
  BY <1>a DEF TimesInv, Turns
<1>2. \A d \in Controllers : Doomed(d) => Doomed(d)'
  BY <1>a DEF Turns, Doomed
<1>3. Reset => Reset'
  BY <1>a DEF Reset
<1>4. CASE Doom
  BY <1>1, <1>2, <1>3, <1>4 DEF Doom
<1>5. CASE Orderly /\ ~Doom'
  <2>1. ~proc'[main'].hup => symlink' = main'
    BY <1>5, <1>a DEF Orderly
  <2>2. proc'[main'].hup /\ proc'[spawned'].stage # "serving" =>
            /\ upgrade_lock' \in Controllers /\ ctl'[upgrade_lock'].pc = "wait"
            /\ ~Answers(upgrade_lock)'
    <3> SUFFICES ASSUME proc[main].hup, proc[spawned].stage # "serving"
                 PROVE  /\ upgrade_lock \in Controllers /\ ctl'[upgrade_lock].pc = "wait"
                        /\ ~Answers(upgrade_lock)'
      BY <1>a
    <3>1. upgrade_lock \in Controllers /\ ctl[upgrade_lock].pc = "wait" /\ ~Answers(upgrade_lock)
      BY <1>5 DEF Orderly
    <3>2. upgrade_lock # c
      BY <1>5, <3>1 DEF Turns, Doom
    <3> QED
      BY <1>a, <3>1, <3>2 DEF Answers
  <2>3. \A d \in Controllers :
            upgrade_lock' = d /\ ctl'[d].pc \in {"install", "compare", "reload"} =>
                ctl'[d].pid = symlink'
    BY <1>5, <1>a DEF Orderly, Turns
  <2>4. \A d \in Controllers : ctl'[d].pc = "locked" /\ ctl'[d].via = symlink' =>
            upgrade_lock' = d \/ "slow" \in kinds'
    BY <1>5, <1>a DEF Orderly, Turns
  <2>5. ASSUME proc'[symlink'].stage \in Accepting \cup {"restoring"},
               proc'[symlink'].mode = "upgrading"
        PROVE  \E d \in Controllers : Undoes(d)'
    <3>1. PICK d \in Controllers : Undoes(d)
      BY <1>5, <1>a, <2>5 DEF Orderly
    <3>2. Alive(symlink)
      BY <1>a, <2>5 DEF Alive, Booting, Claiming
    <3>3. CASE d = c
      BY <1>5, <3>1, <3>2, <3>3 DEF Turns, Doom
    <3>4. CASE d # c
      <4>1. ctl'[d] = ctl[d]
        BY <3>4
      <4> QED
        BY <1>a, <3>1, <4>1 DEF Undoes
    <3> QED
      BY <3>3, <3>4
  <2> QED
    BY <1>1, <2>1, <2>2, <2>3, <2>4, <2>5 DEF Orderly
<1> QED
  BY <1>1, <1>4, <1>5

(* A command takes the lock.  The controller it is taken from, if there is   *)
(* one, has ended or finds out.                                              *)
LEMMA TakeKept ==
    ASSUME IInv, BinaryInv, TimesInv, Doom \/ Orderly, Mild, kinds' = kinds, NEW c \in Controllers,
           EnterLock(c), UNCHANGED <<proc, spawned, main, symlink>>,
           \A d \in Controllers \ {c} : ctl'[d] = ctl[d]
    PROVE  TimesInv' /\ (Doom \/ Orderly)'
<1>a. /\ ctl[c].pc = "enter" /\ ctl'[c].pc = "locked"
      /\ upgrade_lock \in {NoOne, c} \/ stale
      /\ upgrade_lock' = c /\ stale' = (stale /\ upgrade_lock = c)
  BY DEF EnterLock, Handles, TryAcquire, Goto, IInv, CtlType, CtlRec
<1>b. NoOne \notin Controllers
  BY UpgradeAssumption
<1>c. ASSUME NEW d \in Controllers, upgrade_lock = d, d # c, "slow" \notin kinds
      PROVE  ctl[d].pc \in {"done", "dead"}
  BY <1>a, <1>b, <1>c DEF TimesInv
<1>1. TimesInv'
  <2>1. ~("slow" \notin kinds /\ stale /\ upgrade_lock = c)
    BY <1>a DEF TimesInv
  <2> QED
    BY <1>a, <2>1 DEF TimesInv
<1>2. \A d \in Controllers : Doomed(d) => Doomed(d)'
  BY <1>a DEF Doomed, Working
<1>3. Reset => Reset'
  BY DEF Reset
<1>4. CASE Doom
  BY <1>1, <1>2, <1>3, <1>4 DEF Doom
<1>5. CASE Orderly /\ ~Doom'
  <2>0. ASSUME NEW d \in Controllers, upgrade_lock = d, ctl[d].pc \in Working
        PROVE  FALSE
    BY <1>5, <1>a, <2>0 DEF Doom, Doomed, Working
  <2>1. ~proc'[main'].hup => symlink' = main'
    BY <1>5 DEF Orderly
  <2>2. ~(proc'[main'].hup /\ proc'[spawned'].stage # "serving")
    BY <1>5, <2>0 DEF Orderly, Working
  <2>3. \A d \in Controllers :
            upgrade_lock' = d /\ ctl'[d].pc \in {"install", "compare", "reload"} =>
                ctl'[d].pid = symlink'
    BY <1>a
  <2>4. \A d \in Controllers : ctl'[d].pc = "locked" /\ ctl'[d].via = symlink' =>
            upgrade_lock' = d \/ "slow" \in kinds'
    BY <1>5, <1>a, <1>c DEF Orderly
  <2>5. ASSUME proc'[symlink'].stage \in Accepting \cup {"restoring"},
               proc'[symlink'].mode = "upgrading"
        PROVE  \E d \in Controllers : Undoes(d)'
    <3>1. PICK d \in Controllers : Undoes(d)
      BY <1>5, <2>5 DEF Orderly
    <3>2. d # c /\ ctl'[d] = ctl[d]
      BY <1>a, <3>1 DEF Undoes, Working
    <3>3. CASE ctl[d].pc \in {"info", "install"}
      <4>1. "slow" \in kinds
        BY <1>c, <3>1, <3>2, <3>3 DEF Undoes, Working
      <4> QED
        BY <3>2, <3>3, <4>1 DEF Undoes
    <3>4. CASE ctl[d].pc \in Working \cup {"undo"}
      <4>1. upgrade_lock = d
        BY <3>1, <3>4 DEF Undoes, Working
      <4>2. ctl[d].pc = "undo"
        BY <2>0, <3>4, <4>1
      <4>3. "slow" \notin kinds
        BY <4>2 DEF TimesInv, Mild
      <4> QED
        BY <1>c, <3>2, <4>1, <4>2, <4>3
    <3>5. CASE ctl[d].pc \in {"released", "undone"}
      BY <3>1, <3>2, <3>5 DEF Undoes, Working
    <3> QED
      BY <3>1, <3>3, <3>4, <3>5 DEF Undoes
  <2> QED
    BY <1>1, <2>1, <2>2, <2>3, <2>4, <2>5 DEF Orderly
<1> QED
  BY <1>1, <1>4, <1>5

(* A command frees the lock, in the process that is reached.                 *)
LEMMA FreeKept ==
    ASSUME IInv, TimesInv, Doom \/ Orderly, kinds' = kinds, NEW c \in Controllers,
           ExitLock(c) \/ UndoLock(c), upgrade_lock = c, ctl[c].via \in Procs,
           UNCHANGED <<proc, spawned, main, symlink>>,
           \A d \in Controllers \ {c} : ctl'[d] = ctl[d]
    PROVE  TimesInv' /\ (Doom \/ Orderly)'
<1>b. NoOne \notin Controllers /\ NoOne \notin Procs /\ symlink \in Procs
  BY UpgradeAssumption DEF Procs, IInv, ProcInv, TypeOK
<1>a. /\ ctl[c].pc \in {"exit", "unchanged", "undo"} /\ ctl'[c].pc \in {"released", "undone"}
      /\ ctl'[c].via = ctl[c].via /\ upgrade_lock' = NoOne /\ ~stale'
  <2>1. CASE ExitLock(c)
    BY <2>1 DEF ExitLock, Handles, Goto, Release, IInv, CtlType, CtlRec
  <2>2. CASE UndoLock(c)
    BY <2>2 DEF UndoLock, Handles, Goto, Release, IInv, CtlType, CtlRec
  <2> QED
    BY <2>1, <2>2
<1>1. TimesInv'
  BY <1>a DEF TimesInv
<1>2. \A d \in Controllers : Doomed(d) => Doomed(d)'
  BY <1>a, <1>b DEF Doomed, Working
<1>3. Reset => Reset'
  BY DEF Reset
<1>4. CASE Doom
  BY <1>1, <1>2, <1>3, <1>4 DEF Doom
<1>5. CASE Orderly
  <2>1. ~proc'[main'].hup => symlink' = main'
    BY <1>5 DEF Orderly
  <2>2. ~(proc'[main'].hup /\ proc'[spawned'].stage # "serving")
    BY <1>5, <1>a DEF Orderly
  <2>3. \A d \in Controllers :
            upgrade_lock' = d /\ ctl'[d].pc \in {"install", "compare", "reload"} =>
                ctl'[d].pid = symlink'
    BY <1>a, <1>b
  <2>4. \A d \in Controllers : ctl'[d].pc = "locked" /\ ctl'[d].via = symlink' =>
            upgrade_lock' = d \/ "slow" \in kinds'
    BY <1>5, <1>a DEF Orderly
  <2>5. ASSUME proc'[symlink'].stage \in Accepting \cup {"restoring"},
               proc'[symlink'].mode = "upgrading"
        PROVE  \E d \in Controllers : Undoes(d)'
    <3>1. PICK d \in Controllers : Undoes(d)
      BY <1>5, <2>5 DEF Orderly
    <3>2. CASE d = c
      <4>1. ctl[c].via = symlink
        BY <1>a, <1>b, <3>1, <3>2 DEF Undoes
      <4> QED
        BY <1>a, <4>1 DEF Undoes
    <3>3. CASE d # c
      <4>1. ctl'[d] = ctl[d]
        BY <3>3
      <4> QED
        BY <3>1, <3>3, <4>1 DEF Undoes
    <3> QED
      BY <3>2, <3>3
  <2> QED
    BY <1>1, <2>1, <2>2, <2>3, <2>4, <2>5 DEF Orderly
<1> QED
  BY <1>4, <1>5

(* A command sets the mode of a process: whoever puts the one that is        *)
(* reached into upgrading mode has the lock.                                 *)
LEMMA SwitchKept ==
    ASSUME IInv, TimesInv, Doom \/ Orderly, kinds' = kinds, NEW c \in Controllers,
           Switches(c), \A d \in Controllers \ {c} : ctl'[d] = ctl[d]
    PROVE  TimesInv' /\ (Doom \/ Orderly)'
<1> DEFINE v == ctl[c].via
<1>a. \/ ctl[c].pc = "locked" /\ ctl'[c].pc = "info" /\ ctl'[c].entered /\ Sets(v, "upgrading")
      \/ /\ ctl[c].pc \in {"released", "undone"} /\ ctl'[c].pc \in {"cleanup", "unmark"}
         /\ Sets(v, "normal")
  <2>0. ctl \in [Controllers -> CtlRec] /\ ctl[c] \in CtlRec
    BY DEF IInv, CtlType
  <2>1. CASE EnterMode(c)
    BY <2>0, <2>1 DEF EnterMode, Handles, Switches, ExitMode, UndoMode, CtlRec
  <2>2. CASE ExitMode(c)
    BY <2>0, <2>2 DEF EnterMode, Handles, Switches, ExitMode, UndoMode, CtlRec
  <2>3. CASE UndoMode(c)
    BY <2>0, <2>3 DEF EnterMode, Handles, Switches, ExitMode, UndoMode, CtlRec
  <2> QED
    BY <2>1, <2>2, <2>3 DEF Switches
<1>b. /\ UNCHANGED <<spawned, main, symlink, upgrade_lock, stale>>
      /\ \A q \in Procs : proc'[q].stage = proc[q].stage /\ proc'[q].hup = proc[q].hup
      /\ \A q \in Procs : q # v => proc'[q].mode = proc[q].mode
      /\ v \in Procs
  BY <1>a DEF Sets, KeepsLock
<1>c. main \in Procs \cup {NoOne} /\ {symlink, spawned} \subseteq Procs
  BY DEF IInv, ProcInv, TypeOK
<1>d. ctl[c].pc \notin Working \cup {"done", "dead", "restore", "restart"}
  BY <1>a DEF Working
<1>1. TimesInv'
  BY <1>a, <1>b, <1>d DEF TimesInv
<1>2. \A d \in Controllers : Doomed(d) => Doomed(d)'
  BY <1>b, <1>d DEF Doomed
<1>3. Reset => Reset'
  BY <1>b, <1>c DEF Reset
<1>4. CASE Doom
  BY <1>1, <1>2, <1>3, <1>4 DEF Doom
<1>5. CASE Orderly /\ ~Doom'
  <2>0. main \in Procs
    BY <1>5, <1>b, <1>c DEF Doom, Reset
  <2>1. ~proc'[main'].hup => symlink' = main'
    BY <1>5, <1>b, <2>0 DEF Orderly
  <2>2. proc'[main'].hup /\ proc'[spawned'].stage # "serving" =>
            /\ upgrade_lock' \in Controllers /\ ctl'[upgrade_lock'].pc = "wait"
            /\ ~Answers(upgrade_lock)'
    <3> SUFFICES ASSUME proc[main].hup, proc[spawned].stage # "serving"
                 PROVE  /\ upgrade_lock \in Controllers /\ ctl'[upgrade_lock].pc = "wait"
                        /\ ~Answers(upgrade_lock)'
      BY <1>b, <1>c, <2>0
    <3>1. upgrade_lock \in Controllers /\ ctl[upgrade_lock].pc = "wait" /\ ~Answers(upgrade_lock)
      BY <1>5 DEF Orderly
    <3>2. upgrade_lock # c
      BY <1>d, <3>1 DEF Working
    <3> QED
      BY <1>b, <1>c, <3>1, <3>2 DEF Answers
  <2>3. \A d \in Controllers :
            upgrade_lock' = d /\ ctl'[d].pc \in {"install", "compare", "reload"} =>
                ctl'[d].pid = symlink'
    BY <1>5, <1>a, <1>b DEF Orderly
  <2>4. \A d \in Controllers : ctl'[d].pc = "locked" /\ ctl'[d].via = symlink' =>
            upgrade_lock' = d \/ "slow" \in kinds'
    BY <1>5, <1>a, <1>b DEF Orderly
  <2>5. ASSUME proc'[symlink'].stage \in Accepting \cup {"restoring"},
               proc'[symlink'].mode = "upgrading"
        PROVE  \E d \in Controllers : Undoes(d)'
    <3>1. CASE v = symlink
      <4>1. ctl[c].pc = "locked" /\ ctl'[c].pc = "info"
        BY <1>a, <1>b, <2>5, <3>1 DEF Sets
      <4>2. upgrade_lock = c \/ "slow" \in kinds
        BY <1>5, <3>1, <4>1 DEF Orderly
      <4> QED
        BY <1>b, <4>1, <4>2 DEF Undoes
    <3>2. CASE v # symlink
      <4>1. PICK d \in Controllers : Undoes(d)
        BY <1>5, <1>b, <1>c, <2>5, <3>2 DEF Orderly
      <4>2. d # c
        BY <1>a, <1>d, <3>2, <4>1 DEF Undoes
      <4>3. ctl'[d] = ctl[d]
        BY <4>2
      <4> QED
        BY <1>b, <4>1, <4>3 DEF Undoes
    <3> QED
      BY <3>1, <3>2
  <2> QED
    BY <1>1, <2>1, <2>2, <2>3, <2>4, <2>5 DEF Orderly
<1> QED
  BY <1>1, <1>4, <1>5

(* A controller reloads the server: it has the lock and waits.               *)
LEMMA ForkKept ==
    ASSUME IInv, WaitInv, TimesInv, Doom \/ Orderly, kinds' = kinds, NEW c \in Controllers,
           Reload(c), Forks, \A d \in Controllers \ {c} : ctl'[d] = ctl[d]
    PROVE  TimesInv' /\ (Doom \/ Orderly)'
<1>a. /\ ctl[c].pc = "reload" /\ ctl'[c].pc = "wait" /\ ctl'[c].pid = ctl[c].pid
      /\ ctl'[c].via = ctl[c].via
  <2>1. ctl[c].pc = "reload" /\ ctl' = [ctl EXCEPT ![c].pc = "wait"]
    BY DEF Reload, Forks, Goto
  <2>2. ctl \in [Controllers -> CtlRec] /\ ctl[c] \in CtlRec
    BY DEF IInv, CtlType
  <2> QED
    BY <2>1, <2>2 DEF CtlRec
<1>b. /\ UNCHANGED <<main, symlink, upgrade_lock, stale>> /\ main # NoOne
      /\ proc[main].stage = "ready" /\ proc'[main].stage = "ready"
      /\ proc'[main].hup /\ ~proc[main].hup /\ proc'[main].mode = proc[main].mode
  BY DEF Forks, KeepsLock, MainReady
<1>1. TimesInv'
  BY <1>a, <1>b DEF TimesInv
<1>2. \A d \in Controllers : Doomed(d) => Doomed(d)'
  BY <1>a, <1>b DEF Doomed, Working
<1>3. ~Reset
  BY <1>b, StageSets DEF Reset
<1>4. CASE Doom
  BY <1>1, <1>2, <1>3, <1>4 DEF Doom
<1>5. CASE Orderly /\ ~Doom'
  <2>0. upgrade_lock = c
    BY <1>5, <1>a, <1>b DEF Doom, Doomed, Working
  <2>1. symlink = main /\ ctl[c].pid = symlink
    BY <1>5, <1>a, <1>b, <2>0 DEF Orderly
  <2>2. ~Answers(upgrade_lock)'
    BY <1>a, <1>b, <2>0, <2>1 DEF Answers
  <2>3. \A d \in Controllers :
            upgrade_lock' = d /\ ctl'[d].pc \in {"install", "compare", "reload"} =>
                ctl'[d].pid = symlink'
    BY <1>a, <1>b, <2>0
  <2>4. \A d \in Controllers : ctl'[d].pc = "locked" /\ ctl'[d].via = symlink' =>
            upgrade_lock' = d \/ "slow" \in kinds'
    BY <1>5, <1>a, <1>b DEF Orderly
  <2>5. ASSUME proc'[symlink'].stage \in Accepting \cup {"restoring"},
               proc'[symlink'].mode = "upgrading"
        PROVE  \E d \in Controllers : Undoes(d)'
    <3>1. ctl[c].via = NoOne
      BY <1>a DEF WaitInv
    <3> QED
      BY <1>a, <1>b, <2>0, <3>1 DEF Undoes, Working
  <2> QED
    BY <1>1, <1>a, <1>b, <2>0, <2>2, <2>3, <2>4, <2>5 DEF Orderly
<1> QED
  BY <1>1, <1>4, <1>5

(* The unit is restarted.                                                    *)
LEMMA HaltKept ==
    ASSUME IInv, TimesInv, kinds' = kinds, NEW c \in Controllers, Restart(c), Halts,
           \A d \in Controllers \ {c} : ctl'[d] = ctl[d]
    PROVE  TimesInv' /\ Doom'
<1>a. ctl[c].pc = "restart" /\ ctl'[c].pc = "restarting"
  BY DEF Restart, Goto, IInv, CtlType, CtlRec
<1>1. TimesInv'
  BY <1>a DEF TimesInv, Halts, KeepsLock
<1> QED
  BY <1>1 DEF Halts, Doom, Reset

(* Processes come up and go.  A child on its way up has a controller that    *)
(* waits for it with the lock; a process that starts alone has cleared the   *)
(* lock and its mode when it serves.                                         *)
LEMMA StartupKept ==
    ASSUME IInv, WaitInv, OrderInv, BootInv, TimesInv, Doom \/ Orderly, NEW p \in Procs, Startup(p)
    PROVE  TimesInv' /\ (Doom \/ Orderly)'
<1>a. /\ \A q \in Procs : proc[q].stage \in Rising => q = spawned
      /\ MainReady /\ ~proc[main].hup => proc[spawned].stage \notin Rising
      /\ main # NoOne => Alive(main)
      /\ main = NoOne => ~Alive(p)
      /\ main \in Procs \cup {NoOne} /\ p # NoOne /\ {symlink, spawned} \subseteq Procs
      /\ NoOne \notin Controllers /\ NoOne \notin Procs
      /\ \A c \in Controllers : ctl[c].pc = "locked" =>
            ctl[c].via \in Procs /\ proc[ctl[c].via].stage \in Accepting \cup {"gone"}
      /\ \A c \in Controllers : ctl[c].pc = "wait" => ctl[c].via = NoOne
  BY UpgradeAssumption DEF IInv, ProcInv, OneStarting, TypeOK, Procs, CommandInv, Between, WaitInv
<1>b. /\ Booting = {"spawned", "bound", "claimed", "marked", "reading", "clearing", "unlocking",
                    "restoring"}
      /\ Rising = Booting \cup {"serving"} /\ Accepting = {"serving", "ready", "stopping"}
  BY DEF Rising, Claiming, Booting, Accepting
<1>c. /\ proc[p].stage \in Rising => ~proc[p].hup /\ (~proc[p].child <=> main = p)
      /\ proc[p].stage = "serving" => symlink = p
      /\ proc[p].stage = "unlocking" => proc[p].mode = "normal"
      /\ ~proc[p].child /\ proc[p].stage = "restoring" =>
            upgrade_lock = NoOne /\ proc[p].mode = "normal"
  BY DEF BootInv
<1>d. \/ Opens(p) \/ Prepares(p) \/ Learns(p) \/ Clears1(p) \/ Clears2(p) \/ Serves(p)
      \/ Readies(p) \/ Leaves(p)
  BY StartupMoves DEF IInv
<1>e. UNCHANGED <<ctl, kinds>> /\ (KeepsLock \/ (upgrade_lock' = NoOne /\ ~stale'))
  BY <1>d DEF Opens, Prepares, Learns, Clears1, Clears2, Serves, Readies, Leaves, Moves
<1>1. TimesInv'
  BY <1>e DEF TimesInv, KeepsLock
<1>2. \A d \in Controllers : Doomed(d) => Doomed(d)'
  BY <1>a, <1>e DEF Doomed, KeepsLock
<1>3. CASE Readies(p)
  <2>0. KeepsLock /\ p = spawned /\ main \in Procs /\ symlink = p
    BY <1>3, <1>a, <1>b, <1>c DEF Readies, Alive
  <2>1. CASE Reset
    <3>1. main # p /\ proc[main].stage = "stopping"
      BY <1>3, <1>a, <1>b, <2>0, <2>1 DEF Readies, Reset
    <3>2. main' = main /\ proc'[main].stage = "stopping"
      BY <1>3, <2>0, <3>1 DEF Readies
    <3> QED
      BY <1>1, <3>2 DEF Doom, Reset
  <2>2. CASE ~Reset /\ Orderly
    <3>1. main' = p /\ symlink' = p /\ ~proc'[p].hup /\ spawned' = spawned
          /\ proc'[p].mode = proc[p].mode /\ proc'[p].stage = "ready" /\ proc[p].stage = "serving"
      BY <1>3, <1>b, <1>c, <2>0, <2>2 DEF Readies, Reset
    <3>2. \A c \in Controllers : Undoes(c) <=> Undoes(c)'
      BY <1>e, <2>0, <3>1 DEF Undoes, KeepsLock
    <3> QED
      BY <1>1, <1>b, <1>e, <2>0, <2>2, <3>1, <3>2 DEF Orderly, KeepsLock
  <2> QED
    BY <1>1, <1>2, <2>1, <2>2 DEF Doom
<1>4. CASE Leaves(p)
  <2>0. KeepsLock /\ UNCHANGED <<spawned, symlink>>
    BY <1>4 DEF Leaves, Gone
  <2>1. CASE p = main
    BY <1>1, <1>4, <2>1 DEF Leaves, Gone, Doom, Reset
  <2>2. CASE p # main
    <3>1. /\ main' = main /\ \A q \in Procs : q # p => proc'[q] = proc[q]
          /\ proc'[p].stage = "gone"
      BY <1>4, <2>2 DEF Leaves, Gone, Ends, Fresh
    <3>2. Reset => Reset'
      BY <1>a, <2>2, <3>1 DEF Reset
    <3>3. CASE Orderly /\ ~Reset
      <4>0. main \in Procs /\ main # p
        BY <1>a, <2>2, <3>3 DEF Reset
      <4>1. ~proc'[main'].hup => symlink' = main'
        BY <2>0, <3>1, <3>3, <4>0 DEF Orderly
      <4>2. proc'[main'].hup /\ proc'[spawned'].stage # "serving" =>
                /\ upgrade_lock' \in Controllers /\ ctl'[upgrade_lock'].pc = "wait"
                /\ ~Answers(upgrade_lock)'
        <5> SUFFICES ASSUME proc[main].hup, proc'[spawned].stage # "serving"
                     PROVE  /\ upgrade_lock \in Controllers /\ ctl[upgrade_lock].pc = "wait"
                            /\ ~Answers(upgrade_lock)'
          BY <1>e, <2>0, <3>1, <4>0 DEF KeepsLock
        <5>1. proc[spawned].stage # "serving"
          BY <1>4, <1>a, <1>b, <3>1 DEF Leaves
        <5>2. /\ upgrade_lock \in Controllers /\ ctl[upgrade_lock].pc = "wait"
              /\ ~Answers(upgrade_lock)
          BY <3>3, <5>1 DEF Orderly
        <5> QED
          BY <1>a, <1>b, <1>e, <2>0, <3>1, <5>2 DEF Answers, KeepsLock
      <4>3. \A d \in Controllers :
                upgrade_lock' = d /\ ctl'[d].pc \in {"install", "compare", "reload"} =>
                    ctl'[d].pid = symlink'
        BY <1>e, <2>0, <3>3 DEF Orderly, KeepsLock
      <4>4. \A d \in Controllers : ctl'[d].pc = "locked" /\ ctl'[d].via = symlink' =>
                upgrade_lock' = d \/ "slow" \in kinds'
        BY <1>e, <2>0, <3>3 DEF Orderly, KeepsLock
      <4>5. ASSUME proc'[symlink'].stage \in Accepting \cup {"restoring"},
                   proc'[symlink'].mode = "upgrading"
            PROVE  \E d \in Controllers : Undoes(d)'
        <5>1. proc'[symlink] = proc[symlink]
          BY <1>a, <1>b, <2>0, <3>1, <4>5
        <5>2. PICK d \in Controllers : Undoes(d)
          BY <2>0, <3>3, <4>5, <5>1 DEF Orderly
        <5> QED
          BY <1>e, <2>0, <5>2 DEF Undoes, KeepsLock
      <4> QED
        BY <1>1, <4>1, <4>2, <4>3, <4>4, <4>5 DEF Orderly
    <3> QED
      BY <1>1, <1>2, <3>2, <3>3 DEF Doom
  <2> QED
    BY <2>1, <2>2
<1>5. CASE \E from, to \in Rising : Moves(p, from, to)
  <2>1. PICK from \in Rising, to \in Rising : Moves(p, from, to)
    BY <1>5
  <2>2. /\ proc[p].stage \in Booting /\ p = spawned /\ main \in Procs
        /\ UNCHANGED <<spawned, main>> /\ \A q \in Procs : q # p => proc'[q] = proc[q]
        /\ proc'[p].stage \in Rising /\ proc'[p].hup = proc[p].hup
        /\ symlink' = symlink \/ symlink' = p
        /\ proc'[p].stage = "serving" => proc[p].stage = "restoring" /\ Serves(p)
    <3>1. UNCHANGED <<spawned, main>> /\ (\A q \in Procs : q # p => proc'[q] = proc[q])
          /\ proc[p].stage = from /\ proc'[p].stage = to /\ proc'[p].hup = proc[p].hup
      BY <2>1 DEF Moves
    <3>2. ~Readies(p) /\ ~Leaves(p)
      <4>1. "ready" \notin Rising /\ "gone" \notin Rising
        BY <1>b
      <4>2. Leaves(p) => proc'[p].stage = "gone"
        BY DEF Leaves, Gone, Ends, Fresh
      <4> QED
        BY <3>1, <4>1, <4>2 DEF Readies
    <3>3. /\ proc[p].stage \in Booting /\ (symlink' = symlink \/ symlink' = p)
          /\ proc'[p].stage = "serving" => proc[p].stage = "restoring" /\ Serves(p)
      BY <1>b, <1>d, <3>2 DEF Opens, Prepares, Learns, Clears1, Clears2, Serves, Moves
    <3>4. p = spawned /\ main \in Procs
      BY <1>a, <1>b, <3>1, <3>3 DEF Alive
    <3> QED
      BY <3>1, <3>3, <3>4
  <2>3. CASE main = p
    <3>1. CASE proc'[p].stage \in Booting
      BY <1>1, <2>2, <2>3, <3>1 DEF Doom, Reset
    <3>2. CASE proc'[p].stage = "serving"
      <4>1. /\ KeepsLock /\ symlink' = symlink /\ proc'[p].mode = proc[p].mode
            /\ proc[p].stage = "restoring"
        BY <2>2, <3>2 DEF Serves
      <4>2. /\ ~proc[p].child /\ upgrade_lock = NoOne /\ proc[p].mode = "normal" /\ ~proc[p].hup
        BY <1>b, <1>c, <2>3, <4>1
      <4>3. symlink = p
        BY <4>1 DEF IInv, ProcInv, LatestServes, Claiming
      <4>4. \A c \in Controllers : ~(ctl[c].pc = "locked" /\ ctl[c].via = symlink)
        BY <1>a, <1>b, <4>1, <4>3
      <4> QED
        BY <1>1, <1>a, <1>e, <2>2, <2>3, <4>1, <4>2, <4>3, <4>4 DEF Orderly, KeepsLock
    <3> QED
      BY <1>b, <2>2, <3>1, <3>2
  <2>4. CASE main # p
    <3>1. Reset => Reset'
      BY <1>a, <2>2, <2>4 DEF Reset
    <3>2. CASE Orderly /\ ~Reset /\ ~Doom'
      <4>1. proc[main].stage = "ready"
        BY <1>a, <1>b, <2>2, <2>4, <3>2 DEF Reset, Alive
      <4>2. proc[main].hup /\ proc'[main] = proc[main]
        BY <1>a, <1>b, <2>2, <2>4, <4>1 DEF MainReady
      <4>3. /\ upgrade_lock \in Controllers /\ ctl[upgrade_lock].pc = "wait"
            /\ ~Answers(upgrade_lock)
        BY <1>b, <2>2, <3>2, <4>2 DEF Orderly
      <4>4. KeepsLock
        BY <1>a, <1>e, <3>2, <4>3 DEF Doom, Doomed, Working
      <4>5. proc'[spawned'].stage # "serving" => ~Answers(upgrade_lock)'
        <5> SUFFICES ASSUME proc'[p].stage # "serving"
                     PROVE  ~Answers(upgrade_lock)'
          BY <2>2
        <5>1. proc'[p].stage \notin Accepting /\ proc[p].stage \notin Accepting
          BY <1>b, <2>2
        <5> QED
          BY <1>a, <1>e, <2>2, <4>3, <4>4, <5>1 DEF Answers, KeepsLock
      <4>6. \A d \in Controllers :
                upgrade_lock' = d /\ ctl'[d].pc \in {"install", "compare", "reload"} =>
                    ctl'[d].pid = symlink'
        BY <1>e, <4>3, <4>4 DEF KeepsLock
      <4>7. ASSUME NEW d \in Controllers, ctl'[d].pc = "locked", ctl'[d].via = symlink'
            PROVE  upgrade_lock' = d \/ "slow" \in kinds'
        <5>1. symlink' # p
          BY <1>a, <1>b, <1>e, <2>2, <4>7
        <5> QED
          BY <1>e, <2>2, <3>2, <4>4, <4>7, <5>1 DEF Orderly, KeepsLock
      <4>8. ASSUME proc'[symlink'].stage \in Accepting \cup {"restoring"},
                   proc'[symlink'].mode = "upgrading"
            PROVE  \E d \in Controllers : Undoes(d)'
        <5>1. ctl'[upgrade_lock].pc = "wait" /\ ctl'[upgrade_lock].via = NoOne
              /\ upgrade_lock' = upgrade_lock
          BY <1>a, <1>e, <4>3, <4>4 DEF KeepsLock
        <5> QED
          BY <4>3, <5>1 DEF Undoes, Working
      <4> QED
        BY <1>1, <1>e, <2>2, <4>2, <4>3, <4>4, <4>5, <4>6, <4>7, <4>8 DEF Orderly, KeepsLock
    <3> QED
      BY <1>1, <1>2, <3>1, <3>2 DEF Doom
  <2> QED
    BY <2>3, <2>4
<1> QED
  <2>1. CASE Opens(p) \/ Prepares(p) \/ Learns(p) \/ Clears1(p) \/ Clears2(p) \/ Serves(p)
    <3>1. {"spawned", "bound", "claimed", "marked", "reading", "clearing", "unlocking",
           "restoring", "serving"} = Rising
      BY <1>b
    <3>2. \E from, to \in Rising : Moves(p, from, to)
      BY <2>1, <3>1 DEF Opens, Prepares, Learns, Clears1, Clears2, Serves
    <3> QED
      BY <1>5, <3>2
  <2> QED
    BY <1>3, <1>4, <1>d, <2>1

(* A failed roll-back is reported once and for all.                          *)
Closing == {"undo", "undone", "unmark", "done", "dead"}

Stays(c) == ctl'[c].outcome = ctl[c].outcome

(* The steps of a controller that has reported it.                           *)
LEMMA FinalMoves ==
    ASSUME CtlType, NEW c \in Controllers, Steps(c), ctl[c].pc \in Closing
    PROVE  /\ ctl'[c].pc \in Closing
           /\ ctl[c].outcome = "rollback failed" => ctl'[c].outcome = "rollback failed"
<1>a. ctl[c] \in CtlRec /\ ctl \in [Controllers -> CtlRec]
  BY DEF CtlType
<1>b. Closing = {"undo", "undone", "unmark", "done", "dead"}
  BY DEF Closing
<1>1. CASE Send(c)
  BY <1>1, <1>a, <1>b DEF Send, CtlRec
<1>2. CASE NoAnswer(c)
  <2>1. ctl' = [ctl EXCEPT ![c].pc = "unmark", ![c].via = NoOne]
    BY <1>2, <1>b DEF NoAnswer
  <2>2. ctl'[c] = [ctl[c] EXCEPT !.pc = "unmark", !.via = NoOne]
    BY <2>1, <1>a
  <2> QED
    BY <2>2, <1>a, <1>b DEF CtlRec
<1>3. CASE UndoLock(c)
  <2>1. \/ ctl' = [ctl EXCEPT ![c].pc = "undone"]
        \/ ctl' = [ctl EXCEPT ![c].pc = "unmark", ![c].via = NoOne]
    BY <1>3 DEF UndoLock, Goto
  <2>2. CASE ctl' = [ctl EXCEPT ![c].pc = "undone"]
    BY <2>2, <1>a, <1>b DEF CtlRec
  <2>3. CASE ctl' = [ctl EXCEPT ![c].pc = "unmark", ![c].via = NoOne]
    BY <2>3, <1>a, <1>b DEF CtlRec
  <2> QED
    BY <2>1, <2>2, <2>3
<1>4. CASE UndoMode(c)
  BY <1>4, <1>a, <1>b DEF UndoMode, CtlRec
<1>5. CASE Report(c)
  <2>1. ctl'[c] = [ctl[c] EXCEPT !.pc = "done", !.pid = NoOne, !.handoff = FALSE,
                     !.outcome = IF ctl[c].outcome = "none" THEN "failed" ELSE ctl[c].outcome]
    BY <1>5, <1>a DEF Report
  <2> QED
    BY <2>1, <1>a, <1>b DEF CtlRec
<1>6. CASE Killed(c) \/ ExitFails(c)
  <2>1. PICK x \in {"unmark", "dead"} : ctl' = [ctl EXCEPT ![c].pc = x]
    BY <1>6 DEF Killed, ExitFails, Goto
  <2>2. ctl'[c] = [ctl[c] EXCEPT !.pc = x]
    BY <2>1, <1>a
  <2> QED
    BY <2>2, <1>a, <1>b DEF CtlRec
<1>7. CASE Controller(c) \/ SshFails(c) \/ AnswerLost(c)
  BY <1>1, <1>2, <1>3, <1>4, <1>5, <1>7, <1>b
     DEF Controller, SshFails, AnswerLost, CheckVersion, EnterLock, EnterRefused, EnterMode, Info,
         Install, Compare, Reload, WaitReady, WaitTimesOut, Recheck, ExitLock, ExitRefused,
         ExitMode, Cleanup, Restore, Restart, Restarted, Unmark, Handles
<1> QED
  BY <1>6, <1>7 DEF Steps

(* Who reports it is about to give the lock back.                            *)
LEMMA FinalReports ==
    ASSUME CtlType, NEW c \in Controllers, Steps(c), ctl[c].outcome # "rollback failed",
           ctl'[c].outcome = "rollback failed"
    PROVE  ctl'[c].pc \in Closing
<1>a. ctl[c] \in CtlRec /\ ctl \in [Controllers -> CtlRec]
  BY DEF CtlType
<1>1. CASE RollbackFails(c)
  BY <1>1, <1>a DEF RollbackFails, CtlRec, Closing
<1>2. ASSUME NEW x, Goto(c, x)
      PROVE  Stays(c)
  BY <1>2, <1>a DEF Goto, Stays, CtlRec
<1>3. ASSUME Fails(c)
      PROVE  Stays(c)
  <2>1. ctl'[c] = [ctl[c] EXCEPT !.pc = Failed(ctl[c]), !.via = NoOne]
    BY <1>3, <1>a DEF Fails
  <2> QED
    BY <2>1, <1>a DEF Stays, CtlRec
<1>4. Send(c) => Stays(c)
  BY <1>a DEF Send, Stays, CtlRec
<1>5. ASSUME ctl' = [ctl EXCEPT ![c].pc = "unmark", ![c].via = NoOne]
      PROVE  Stays(c)
  <2>1. ctl'[c] = [ctl[c] EXCEPT !.pc = "unmark", !.via = NoOne]
    BY <1>5, <1>a
  <2> QED
    BY <2>1, <1>a DEF Stays, CtlRec
<1>6. ASSUME EnterMode(c)
      PROVE  Stays(c)
  <2>1. ctl'[c] = [ctl[c] EXCEPT !.pc = "info", !.via = NoOne, !.entered = TRUE,
                                   !.direct = (ctl[c].via = symlink)]
    BY <1>6, <1>a DEF EnterMode
  <2> QED
    BY <2>1, <1>a DEF Stays, CtlRec
<1>7. Info(c) \/ WaitReady(c) => Stays(c)
  <2>1. Info(c) => Stays(c)
    BY <1>a DEF Info, Stays, CtlRec
  <2>2. WaitReady(c) => Stays(c)
    BY <1>a DEF WaitReady, Stays, CtlRec
  <2> QED
    BY <2>1, <2>2
<1>8. Install(c) => Stays(c)
  BY <1>a DEF Install, Stays, CtlRec
<1>9. ASSUME ctl' = [ctl EXCEPT ![c].pc = "reload", ![c].handoff = TRUE]
      PROVE  Stays(c)
  <2>1. ctl'[c] = [ctl[c] EXCEPT !.pc = "reload", !.handoff = TRUE]
    BY <1>9, <1>a
  <2> QED
    BY <2>1, <1>a DEF Stays, CtlRec
<1>10. ASSUME UndoMode(c)
      PROVE  Stays(c)
  <2>1. ctl'[c] = [ctl[c] EXCEPT !.pc = "unmark", !.via = NoOne, !.entered = FALSE]
    BY <1>10, <1>a DEF UndoMode
  <2> QED
    BY <2>1, <1>a DEF Stays, CtlRec
<1>11. CASE CheckVersion(c)
  <2>1. ctl'[c] = [ctl[c] EXCEPT !.pc = IF binary = "new" THEN "done" ELSE "enter",
                     !.outcome = IF binary = "new" THEN "already" ELSE ctl[c].outcome]
    BY <1>11, <1>a DEF CheckVersion
  <2> QED
    BY <2>1, <1>a DEF CtlRec
<1>12. CASE ExitMode(c)
  BY <1>12, <1>a DEF ExitMode, CtlRec
<1>13. CASE Restarted(c)
  BY <1>13, <1>a DEF Restarted, CtlRec
<1>14. CASE Report(c)
  <2>1. ctl'[c] = [ctl[c] EXCEPT !.pc = "done", !.pid = NoOne, !.handoff = FALSE,
                     !.outcome = IF ctl[c].outcome = "none" THEN "failed" ELSE ctl[c].outcome]
    BY <1>14, <1>a DEF Report
  <2> QED
    BY <2>1, <1>a DEF CtlRec, Closing
<1>15. CASE AnswerLost(c)
  <2>1. \/ ctl' = [ctl EXCEPT ![c].pc = "unmark", ![c].entered = FALSE]
        \/ ctl' = [ctl EXCEPT ![c].pc = "restore", ![c].entered = TRUE, ![c].outcome = "none"]
        \/ ctl' = [ctl EXCEPT ![c].pc = "restore", ![c].handoff = FALSE]
        \/ Goto(c, "undo") \/ Goto(c, "restore")
    BY <1>15 DEF AnswerLost
  <2>2. CASE ctl' = [ctl EXCEPT ![c].pc = "unmark", ![c].entered = FALSE]
    BY <2>2, <1>a DEF CtlRec
  <2>3. CASE ctl' = [ctl EXCEPT ![c].pc = "restore", ![c].entered = TRUE, ![c].outcome = "none"]
    BY <2>3, <1>a DEF CtlRec
  <2>4. CASE ctl' = [ctl EXCEPT ![c].pc = "restore", ![c].handoff = FALSE]
    BY <2>4, <1>a DEF CtlRec
  <2>5. CASE Goto(c, "undo") \/ Goto(c, "restore")
    BY <2>5, <1>2 DEF Stays
  <2> QED
    BY <2>1, <2>2, <2>3, <2>4, <2>5
<1>16. CASE Stays(c)
  BY <1>16 DEF Stays
<1> QED
  BY <1>1, <1>2, <1>3, <1>4, <1>5, <1>6, <1>7, <1>8, <1>9, <1>10, <1>11, <1>12, <1>13, <1>14,
     <1>15, <1>16
     DEF Steps, Controller, SshFails, ExitFails, Killed, NoAnswer, EnterLock, EnterRefused, Compare,
         Reload, WaitTimesOut, Recheck, ExitLock, ExitRefused, Cleanup, Restore, Restart, UndoLock,
         Unmark

(* So it stays, and without it now there was none before.                    *)
LEMMA FinalStep ==
    ASSUME IInv, FinalInv, [Next]_vars
    PROVE  FinalInv' /\ (Mild' => Mild)
<1>a. CtlType /\ kinds \subseteq kinds'
  BY KindsGrow DEF IInv
<1>b. \A c \in Controllers : ctl[c].outcome = "rollback failed" => ctl[c].pc \in Closing
  BY DEF FinalInv, Closing
<1>1. ASSUME NEW c \in Controllers
      PROVE  /\ ctl'[c].outcome = "rollback failed" => ctl'[c].pc \in Closing
             /\ ctl[c].outcome = "rollback failed" => ctl'[c].outcome = "rollback failed"
  <2>1. CASE ctl'[c] = ctl[c]
    BY <1>b, <2>1
  <2>2. CASE Steps(c)
    BY <1>a, <1>b, <2>2, FinalMoves, FinalReports
  <2> QED
    BY <2>1, <2>2, OneMoves
<1>2. FinalInv'
  BY <1>1 DEF FinalInv, Closing
<1> QED
  BY <1>a, <1>1, <1>2 DEF Mild

(* Nothing is spoilt by a step that leaves controllers, lock and stages      *)
(* alone.                                                                    *)
LEMMA StillKept ==
    ASSUME IInv, TimesInv, Doom \/ Orderly, UNCHANGED <<ctl, spawned, main, symlink, upgrade_lock>>,
           kinds \subseteq kinds',
           \A q \in Procs : /\ proc'[q].stage = proc[q].stage /\ proc'[q].hup = proc[q].hup
                            /\ proc'[q].mode = proc[q].mode,
           "slow" \notin kinds' /\ stale' =>
               upgrade_lock \in Controllers /\ ctl[upgrade_lock].pc \in {"done", "dead"}
    PROVE  TimesInv' /\ (Doom \/ Orderly)'
<1>a. main \in Procs \cup {NoOne} /\ {symlink, spawned} \subseteq Procs
  BY DEF IInv, ProcInv, TypeOK
<1>1. TimesInv'
  BY DEF TimesInv
<1>2. \A d \in Controllers : Doomed(d) => Doomed(d)'
  BY DEF Doomed
<1>3. Reset => Reset'
  BY <1>a DEF Reset
<1>4. CASE Doom
  BY <1>1, <1>2, <1>3, <1>4 DEF Doom
<1>5. CASE Orderly /\ ~Reset
  <2>0. main \in Procs
    BY <1>5, <1>a DEF Reset
  <2>1. ~proc'[main'].hup => symlink' = main'
    BY <1>5, <2>0 DEF Orderly
  <2>2. proc'[main'].hup /\ proc'[spawned'].stage # "serving" =>
            /\ upgrade_lock' \in Controllers /\ ctl'[upgrade_lock'].pc = "wait"
            /\ ~Answers(upgrade_lock)'
    <3> SUFFICES ASSUME proc[main].hup, proc[spawned].stage # "serving"
                 PROVE  /\ upgrade_lock \in Controllers /\ ctl[upgrade_lock].pc = "wait"
                        /\ ~Answers(upgrade_lock)'
      BY <1>a, <2>0
    <3>1. upgrade_lock \in Controllers /\ ctl[upgrade_lock].pc = "wait" /\ ~Answers(upgrade_lock)
      BY <1>5 DEF Orderly
    <3> QED
      BY <1>a, <3>1 DEF Answers
  <2>3. \A d \in Controllers :
            upgrade_lock' = d /\ ctl'[d].pc \in {"install", "compare", "reload"} =>
                ctl'[d].pid = symlink'
    BY <1>5 DEF Orderly
  <2>4. \A d \in Controllers : ctl'[d].pc = "locked" /\ ctl'[d].via = symlink' =>
            upgrade_lock' = d \/ "slow" \in kinds'
    BY <1>5 DEF Orderly
  <2>5. ASSUME proc'[symlink'].stage \in Accepting \cup {"restoring"},
               proc'[symlink'].mode = "upgrading"
        PROVE  \E d \in Controllers : Undoes(d)'
    <3>1. PICK d \in Controllers : Undoes(d)
      BY <1>5, <1>a, <2>5 DEF Orderly
    <3> QED
      BY <3>1 DEF Undoes
  <2> QED
    BY <1>1, <2>1, <2>2, <2>3, <2>4, <2>5 DEF Orderly
<1> QED
  BY <1>4, <1>5 DEF Doom

(* Every step keeps the invariant behind Reopened.                           *)
LEMMA RecoveryStep ==
    ASSUME IInv, OutcomeInv, BootInv, FinalInv, RecoveryInv, [Next]_vars
    PROVE  RecoveryInv'
<1> SUFFICES ASSUME Mild'
             PROVE  TimesInv' /\ (Doom \/ Orderly)'
  BY DEF RecoveryInv
<1>a. ProcInv /\ CtlType /\ TypeOK /\ BinaryInv /\ WaitInv /\ OrderInv
  BY DEF IInv, ProcInv, OutcomeInv
<1>b. Mild /\ kinds \subseteq kinds'
  BY FinalStep, KindsGrow
<1>c. TimesInv /\ (Doom \/ Orderly)
  BY <1>b DEF RecoveryInv
<1>d. kinds' \cap {"crash", "reload"} = {}
  BY DEF Mild
<1>1. CASE Boot
  <2>1. /\ spawned + 1 \in Procs /\ main' = spawned + 1 /\ proc \in [Procs -> ProcRec]
        /\ UNCHANGED <<ctl, kinds, upgrade_lock, stale>>
    BY <1>1, <1>a, UpgradeAssumption
       DEF Boot, Spawn, ProcInv, TypeOK, Procs, ProcRec, Stages, db, budget
  <2>2. proc'[main'].stage = "spawned"
    BY <1>1, <2>1 DEF Boot, Born, Fresh
  <2>3. TimesInv'
    BY <1>c, <2>1 DEF TimesInv
  <2> QED
    BY <2>2, <2>3 DEF Doom, Reset, Booting
<1>2. ASSUME NEW p \in Procs, Startup(p)
      PROVE  TimesInv' /\ (Doom \/ Orderly)'
  BY <1>a, <1>c, <1>2, StartupKept
<1>3. ASSUME NEW p \in Procs, Execute(p) \/ ExecuteUnlisted(p) \/ Finish(p)
      PROVE  TimesInv' /\ (Doom \/ Orderly)'
  <2>1. PICK o : proc' = [proc EXCEPT ![p].op = o]
    BY <1>3 DEF Execute, ExecuteUnlisted, Finish
  <2>2. \A q \in Procs : proc'[q] = proc[q] \/ proc'[q] = [proc[q] EXCEPT !.op = o]
    BY <2>1, <1>a DEF ProcInv, TypeOK
  <2>3. UNCHANGED <<ctl, spawned, main, symlink, upgrade_lock, stale, kinds>>
    BY <1>3 DEF Execute, ExecuteUnlisted, Finish, unit, db, budget
  <2>4. ASSUME NEW q \in Procs
        PROVE  /\ proc'[q].stage = proc[q].stage /\ proc'[q].hup = proc[q].hup
               /\ proc'[q].mode = proc[q].mode
    <3>1. proc[q] \in ProcRec
      BY <1>a DEF ProcInv, TypeOK, ProcRec, Stages
    <3> QED
      BY <2>2, <3>1 DEF ProcRec
  <2>5. "slow" \notin kinds' /\ stale' =>
            upgrade_lock \in Controllers /\ ctl[upgrade_lock].pc \in {"done", "dead"}
    BY <1>c, <2>3 DEF TimesInv
  <2> QED
    BY <1>c, <2>3, <2>4, <2>5, StillKept
<1>4. ASSUME NEW p \in Procs, Crash(p)
      PROVE  FALSE
  BY <1>4, <1>d DEF Crash, Disturbed
<1>5. ASSUME NEW c \in Controllers, Steps(c)
      PROVE  TimesInv' /\ (Doom \/ Orderly)'
  <2>1. \A d \in Controllers \ {c} : ctl'[d] = ctl[d]
    BY <1>5, <1>a, ControllerArrives DEF Steps
  <2>2. CASE Locks(c)
    <3>1. kinds' = kinds
      BY <2>2 DEF Locks, EnterLock, ExitLock, UndoLock, budget
    <3>2. CASE EnterLock(c)
      BY <1>a, <1>b, <1>c, <2>1, <2>2, <3>1, <3>2, TakeKept DEF Locks
    <3>3. CASE (ExitLock(c) \/ UndoLock(c)) /\ upgrade_lock = c
      BY <1>c, <2>1, <2>2, <3>1, <3>3, FreeKept DEF Locks
    <3> QED
      BY <2>2, <3>2, <3>3 DEF Locks
  <2>3. CASE Switches(c)
    <3>1. kinds' = kinds
      BY <2>3 DEF Switches, EnterMode, ExitMode, UndoMode, budget
    <3> QED
      BY <1>c, <2>1, <2>3, <3>1, SwitchKept
  <2>4. CASE Reload(c) /\ Forks
    <3>1. kinds' = kinds
      BY <2>4 DEF Reload, budget
    <3> QED
      BY <1>a, <1>c, <2>1, <2>4, <3>1, ForkKept
  <2>5. CASE Restart(c) /\ Halts
    <3>1. kinds' = kinds
      BY <2>5 DEF Restart, budget
    <3> QED
      BY <1>c, <2>1, <2>5, <3>1, HaltKept
  <2>6. CASE /\ Idles /\ ~Restart(c)
             /\ PlainStep(c) \/ (UndoLock(c) /\ upgrade_lock # c)
    <3>1. Turns(c)
      BY <1>a, <1>b, <1>c, <2>6, PlainTurns
    <3> QED
      BY <1>b, <1>c, <2>1, <2>6, <3>1, TurnKept
  <2> QED
    BY <1>5, <1>a, <2>2, <2>3, <2>4, <2>5, <2>6, ControllerMoves
<1>6. CASE OperatorReload
  BY <1>6, <1>d DEF OperatorReload, Disturbed
<1>7. CASE GrowStale
  <2>1. UNCHANGED <<proc, ctl, spawned, main, symlink, upgrade_lock>> /\ upgrade_lock # NoOne
        /\ (ctl[upgrade_lock].pc \in {"done", "dead"} \/ "slow" \in kinds')
    BY <1>7 DEF GrowStale, unit, Disturbed
  <2>2. "slow" \notin kinds' =>
            upgrade_lock \in Controllers /\ ctl[upgrade_lock].pc \in {"done", "dead"}
    BY <1>a, <2>1 DEF TypeOK
  <2> QED
    BY <1>b, <1>c, <2>1, <2>2, StillKept
<1>8. CASE UNCHANGED vars
  <2>1. UNCHANGED <<proc, ctl, spawned, main, symlink, upgrade_lock, stale, kinds>>
    BY <1>8 DEF vars, unit, db, budget
  <2>2. "slow" \notin kinds' /\ stale' =>
            upgrade_lock \in Controllers /\ ctl[upgrade_lock].pc \in {"done", "dead"}
    BY <1>c, <2>1 DEF TimesInv
  <2> QED
    BY <1>c, <2>1, <2>2, StillKept
<1> QED
  BY <1>1, <1>2, <1>3, <1>4, <1>5, <1>6, <1>7, <1>8 DEF Next, Steps

(* It holds at first.                                                        *)
LEMMA RecoveryInit == Init => BootInv /\ FinalInv /\ RecoveryInv
<1> SUFFICES ASSUME Init
             PROVE  BootInv /\ FinalInv /\ RecoveryInv
  OBVIOUS
<1>1. \A c \in Controllers : ctl[c].pc = "start" /\ ctl[c].outcome = "none"
  BY DEF Init
<1>2. 1 \in Procs /\ main = 1 /\ symlink = 1 /\ ~stale /\ kinds = {}
  BY UpgradeAssumption DEF Init, Procs
<1>3. /\ proc[1].stage = "ready" /\ ~proc[1].hup /\ proc[1].mode = "normal"
      /\ \A p \in Procs : proc[p].stage \in {"ready", "none"}
  BY <1>2 DEF Init, Fresh
<1>4. BootInv
  BY <1>3, StageSets DEF BootInv
<1>5. FinalInv
  BY <1>1 DEF FinalInv
<1>6. TimesInv
  BY <1>1, <1>2 DEF TimesInv
<1>7. Orderly
  BY <1>1, <1>2, <1>3 DEF Orderly
<1> QED
  BY <1>4, <1>5, <1>6, <1>7 DEF RecoveryInv

(* At rest nobody is about to restart the unit and nobody waits, so the main *)
(* process is the one that is reached, and it is not in upgrading mode,      *)
(* since nobody is left to end it.                                           *)
LEMMA RestReopens ==
    ASSUME IInv, RecoveryInv
    PROVE  Reopened
<1> SUFFICES ASSUME AtRest, kinds \subseteq {"ssh"} \/ kinds \subseteq {"slow"}
             PROVE  proc[symlink].stage = "ready" /\ proc[symlink].mode = "normal"
  BY DEF Reopened
<1>a. \A c \in Controllers : ctl[c].pc = "done" /\ ctl[c].outcome # "rollback failed"
  BY DEF AtRest
<1>b. main \in Procs /\ symlink \in Procs /\ proc[symlink].mode \in {"normal", "upgrading"}
      /\ spawned \in Procs /\ Alive(main)
  BY DEF AtRest, IInv, ProcInv, TypeOK, OneStarting
<1>c. proc[main].stage = "ready" /\ proc[spawned].stage # "serving"
  BY <1>b, StageSets DEF AtRest, Alive
<1>1. ~Doom
  <2>1. ~Reset
    BY <1>b, <1>c, StageSets, UpgradeAssumption DEF Reset, Procs
  <2>2. \A c \in Controllers : ~Doomed(c)
    BY <1>a DEF Doomed, Working
  <2> QED
    BY <2>1, <2>2 DEF Doom
<1>2. Orderly
  BY <1>1, <1>a DEF RecoveryInv, Mild
<1>3. symlink = main
  BY <1>2, <1>a, <1>c DEF Orderly
<1>4. \A c \in Controllers : ~Undoes(c)
  BY <1>a DEF Undoes, Working
<1> QED
  BY <1>2, <1>3, <1>4, <1>b, <1>c, StageSets DEF Orderly

(* Reopened: when every run of `tako servers upgrade' has ended, none of     *)
(* them reported a failed roll-back and no process is on its way up or down, *)
(* the process that tako.sock leads to is ready and takes operations: no     *)
(* server is left behind in upgrading mode.  For any number of controllers,  *)
(* processes and failed commands, as long as one of the five attempts to     *)
(* give the lock back gets through, and for any number of delays of ten      *)
(* minutes that let one controller take the lock of another.                 *)
THEOREM ServerReopens == Spec => []Reopened
<1> DEFINE RInv == OutcomeInv /\ BootInv /\ FinalInv /\ RecoveryInv
<1>1. Init => IInv /\ RInv
  BY FenceInit, OutcomeInit, RecoveryInit
<1>2. IInv /\ RInv /\ [Next]_vars => (IInv /\ RInv)'
  <2> SUFFICES ASSUME IInv, RInv, [Next]_vars
               PROVE  IInv' /\ RInv'
    OBVIOUS
  <2>1. IInv'
    BY FenceStep
  <2>2. OutcomeInv'
    BY <2>1, OutcomeStep
  <2>3. BootInv'
    BY BootInvStep DEF OutcomeInv
  <2>4. FinalInv' /\ RecoveryInv'
    BY FinalStep, RecoveryStep
  <2> QED
    BY <2>1, <2>2, <2>3, <2>4
<1>3. IInv /\ RInv => Reopened
  BY RestReopens
<1> HIDE DEF RInv
<1> QED
  BY <1>1, <1>2, <1>3, PTL DEF Spec
=============================================================================
