------------------------------ MODULE Workers -------------------------------
(***************************************************************************)
(* The state that the dispatcher of a workflow runtime, its callers and    *)
(* the supervisor of its worker processes share, and what they promise     *)
(* about it (tako-workflows/src/dispatcher.rs, supervisor.rs).  How they   *)
(* get there is in Dispatch.                                               *)
(***************************************************************************)
EXTENDS Integers, FiniteSets

CONSTANTS
    Lanes,        \* worker groups
    LaneWorkers,  \* WorkerLane.workers: 0 is scale to zero
    Procs,        \* process table slots
    Senders       \* threads that may be inside DispatchSignal::signal

VARIABLES
    pending_signal,  \* DispatcherInner.pending_signal
    permit,          \* a permit is stored in DispatcherInner.notify
    sender,          \* enqueue, signal and cron calls around signal()
    dispatcher,      \* where run_dispatcher is
    child            \* State.children: one entry per process slot

(* starting: bootstrapping.  polling: in runLoop, about to claim.  empty:   *)
(* its last claim was answered Null.  exiting: left runLoop after its idle  *)
(* timeout.  exited, crashed: the process is gone but not yet reaped.       *)
Live == {"starting", "polling", "empty", "exiting"}
Gone == {"exited", "crashed"}

(* The flag that makes later signals be coalesced into an earlier one is    *)
(* only up while that earlier one is still going to be looked at: its       *)
(* caller is about to notify, the permit is stored, or the dispatcher has   *)
(* taken it and not yet read the database.                                  *)
NoLostSignal ==
    pending_signal =>
        \/ permit
        \/ dispatcher \in {"debounce", "stopped"}
        \/ \E s \in Senders : sender[s].pc = "swapped"

(* A lane that scales to zero never has two workers at a time, an always-on *)
(* lane never more than its target.                                         *)
OneWorkerPerLane ==
    \A l \in Lanes :
        Cardinality({p \in Procs : child[p].pc \in Live /\ child[p].lane = l})
            <= IF LaneWorkers[l] = 0 THEN 1 ELSE LaneWorkers[l]
=============================================================================
