---------------------------- MODULE RunLifecycle ----------------------------
(***************************************************************************)
(* What the workflow engine promises its workers about a durable run, with *)
(* no tables, leases, clocks or transactions.  Both run stores implement   *)
(* it: RunsDb (SQLite, one process) and PostgresDb (several servers and    *)
(* concurrent transactions).                                               *)
(*                                                                         *)
(* A run is executed by one attempt at a time.  An attempt starts once,    *)
(* records results only while it holds the run, and each step of a run     *)
(* keeps its first result.  From outside, an event may give a result only  *)
(* to a run that nobody executes.  An outcome is final until the run is    *)
(* forgotten with everything it recorded.                                  *)
(***************************************************************************)
EXTENDS Naturals

CONSTANTS
    RunIds,
    StepNames,
    Attempts,    \* identities of attempts
    Values,      \* results of steps
    TimedOut,    \* the result of a wait that timed out
    Nothing      \* no holder, no result

VARIABLES
    phase,       \* of each run
    holder,      \* the attempt that executes the run, or Nothing
    results,     \* of each step of each run, or Nothing
    started      \* attempts that have ever started

vars == <<phase, holder, results, started>>

Outcomes == {"succeeded", "cancelled", "dead"}

Init ==
    /\ phase = [r \in RunIds |-> "absent"]
    /\ holder = [r \in RunIds |-> Nothing]
    /\ results = [r \in RunIds |-> [s \in StepNames |-> Nothing]]
    /\ started = {}
-----------------------------------------------------------------------------
(* Some steps of the run that had no result may get one out of V. *)
Learns(r, V) ==
    \A s \in StepNames :
        \/ results'[r][s] = results[r][s]
        \/ results[r][s] = Nothing /\ results'[r][s] \in V

Keeps(r) == results'[r] = results[r]

Submit(r) ==
    /\ phase[r] = "absent"
    /\ phase' = [phase EXCEPT ![r] = "pending"]
    /\ UNCHANGED <<holder, results, started>>

(* An attempt that never started takes a run nobody executes; the waits of *)
(* the run that have timed out are answered in the same step.              *)
Start(r, a) ==
    /\ phase[r] = "pending" /\ a \notin started
    /\ phase' = [phase EXCEPT ![r] = "running"]
    /\ holder' = [holder EXCEPT ![r] = a]
    /\ started' = started \cup {a}
    /\ Learns(r, {TimedOut})
    /\ \A q \in RunIds \ {r} : Keeps(q)

(* The holder records the result of one step, unless it has one. *)
Record(r, s, v) ==
    /\ phase[r] = "running" /\ results[r][s] = Nothing
    /\ results' = [results EXCEPT ![r][s] = v]
    /\ UNCHANGED <<phase, holder, started>>

(* The holders of some runs give them back, or lose them. *)
Yield(S) ==
    /\ S # {} /\ \A r \in S : phase[r] = "running"
    /\ phase' = [r \in RunIds |-> IF r \in S THEN "pending" ELSE phase[r]]
    /\ holder' = [r \in RunIds |-> IF r \in S THEN Nothing ELSE holder[r]]
    /\ UNCHANGED <<results, started>>

Conclude(r, outcome) ==
    /\ phase[r] = "running"
    /\ phase' = [phase EXCEPT ![r] = outcome]
    /\ holder' = [holder EXCEPT ![r] = Nothing]
    /\ UNCHANGED <<results, started>>

(* An event answers steps of runs that nobody executes. *)
Deliver(v) ==
    /\ \A r \in RunIds : Keeps(r) \/ (phase[r] = "pending" /\ Learns(r, {v}))
    /\ UNCHANGED <<phase, holder, started>>

Forget(D) ==
    /\ D # {} /\ \A r \in D : phase[r] \in Outcomes
    /\ phase' = [r \in RunIds |-> IF r \in D THEN "absent" ELSE phase[r]]
    /\ results' = [r \in RunIds |-> IF r \in D THEN [s \in StepNames |-> Nothing]
                                               ELSE results[r]]
    /\ UNCHANGED <<holder, started>>
-----------------------------------------------------------------------------
Next ==
    \/ \E r \in RunIds : Submit(r)
    \/ \E r \in RunIds, a \in Attempts : Start(r, a)
    \/ \E r \in RunIds, s \in StepNames, v \in Values : Record(r, s, v)
    \/ \E S \in SUBSET RunIds : Yield(S)
    \/ \E r \in RunIds, outcome \in Outcomes : Conclude(r, outcome)
    \/ \E v \in Values : Deliver(v)
    \/ \E D \in SUBSET RunIds : Forget(D)

Spec == Init /\ [][Next]_vars
=============================================================================
