--------------------------- MODULE InFlight_proofs ---------------------------
(***************************************************************************)
(* One limiter never exceeds its budget, for any number of workers, owners *)
(* and overlapping calls (module InFlight).                                *)
(***************************************************************************)
EXTENDS InFlight, FiniteSetTheorems, TLAPS

USE DEF Gens

(* What the invariants read; the rest of the state only matters for types. *)
core == <<running, issued, via, gen, cache, lock, toRelease, call>>

(* The budget of a worker is at least one, as the code raises it. *)
LEMMA BudgetPositive == MaxPerWorker \in Nat /\ MaxPerWorker >= 1
  BY LimiterAssumption DEF MaxPerWorker

(* The claims of one worker in a set of owners are finitely many. *)
LEMMA CountFinite ==
    ASSUME NEW S \in SUBSET Owners, NEW w
    PROVE  IsFiniteSet(OwnersOf(S, w)) /\ CountWorker(S, w) \in Nat
  <1>1. OwnersOf(S, w) \subseteq Owners
    BY DEF OwnersOf
  <1>2. IsFiniteSet(OwnersOf(S, w))
    BY <1>1, FS_Subset, LimiterAssumption
  <1> QED
    BY <1>2, FS_CardinalityType DEF CountWorker

(* Removing owners never raises a count. *)
LEMMA CountMonotone ==
    ASSUME NEW S \in SUBSET Owners, NEW T \in SUBSET Owners, NEW w, S \subseteq T
    PROVE  CountWorker(S, w) <= CountWorker(T, w)
  <1>1. OwnersOf(S, w) \subseteq OwnersOf(T, w)
    BY DEF OwnersOf
  <1> QED
    BY <1>1, CountFinite, FS_Subset DEF CountWorker

(* A call that goes on keeps its runtime, worker and owner. *)
LEMMA AtCall ==
    ASSUME call \in [Calls -> Call], NEW c \in Calls,
           NEW pc \in {"idle", "claim", "full", "admitted", "finish", "release"}
    PROVE  /\ At(c, pc) \in Call /\ At(c, pc).pc = pc
           /\ At(c, pc).gen = call[c].gen /\ At(c, pc).worker = call[c].worker
           /\ At(c, pc).owner = call[c].owner
  BY DEF At, Call

(* A call that has ended is an idle one. *)
LEMMA IdleCall == Idle \in Call /\ Idle.pc = "idle"
  BY LimiterAssumption DEF Idle, Call

(* A step of one call leaves the others alone. *)
LEMMA CallUpdate ==
    ASSUME call \in [Calls -> Call], NEW c \in Calls, NEW v \in Call,
           call' = [call EXCEPT ![c] = v]
    PROVE  /\ call' \in [Calls -> Call] /\ call'[c] = v
           /\ \A d \in Calls \ {c} : call'[d] = call[d]
  OBVIOUS

(* What the invariant says of a call in progress. *)
LEMMA CallFacts ==
    ASSUME IInv, NEW c \in Calls
    PROVE  /\ call \in [Calls -> Call]
           /\ call[c].pc # "idle" => call[c].gen \in Gens /\ call[c].gen <= gen
           /\ call[c].pc = "claim" => call[c].worker \in Workers
           /\ call[c].pc \in {"full", "admitted"} =>
                 lock[call[c].gen] = c /\ call[c].worker \in Workers
           /\ call[c].pc = "admitted" =>
                 CountWorker(cache[call[c].gen], call[c].worker) < MaxPerWorker
           /\ call[c].pc \in {"finish", "release"} => call[c].owner \in issued
           /\ call[c].pc = "release" => call[c].owner \notin running
  <1>1. call \in [Calls -> Call] /\ gen \in 0..MaxGen /\ MaxGen \in Nat
    BY LimiterAssumption DEF IInv, TypeOK
  <1>2. call[c].pc # "idle" => call[c].gen \in Gens /\ call[c].gen <= gen
    BY <1>1 DEF IInv, Settled
  <1>3. /\ call[c].pc = "claim" => call[c].worker \in Workers
        /\ call[c].pc \in {"finish", "release"} => call[c].owner \in issued
        /\ call[c].pc = "release" => call[c].owner \notin running
    BY DEF IInv, Settled
  <1>4. /\ call[c].pc \in {"full", "admitted"} =>
              lock[call[c].gen] = c /\ call[c].worker \in Workers
        /\ call[c].pc = "admitted" =>
              CountWorker(cache[call[c].gen], call[c].worker) < MaxPerWorker
    BY DEF IInv, Reserved
  <1> QED
    BY <1>1, <1>2, <1>3, <1>4

(* A step that leaves the core alone keeps everything but the types. *)
LEMMA Frame ==
    ASSUME IInv, TypeOK', UNCHANGED core
    PROVE  IInv'
  BY DEF core, IInv, CacheCovers, LimiterBudget, Held, Reserved, Settled, CountWorker,
         OwnersOf

(* Runs that leave `running' keep all three facts as long as nobody else's  *)
(* slot goes with them.                                                     *)
LEMMA HeldShrinks ==
    ASSUME TypeOK, TypeOK', LimiterBudget, via' = via, running' \subseteq running
    PROVE  LimiterBudget'
  <1> SUFFICES ASSUME NEW g \in Gens, NEW w \in Workers
               PROVE  Cardinality(Held(g, w)') <= MaxPerWorker
    BY DEF LimiterBudget, MaxPerWorker
  <1>1. Held(g, w)' \subseteq Held(g, w) /\ Held(g, w) \subseteq Owners
    BY DEF Held, TypeOK
  <1>2. IsFiniteSet(Held(g, w)) /\ IsFiniteSet(Held(g, w)')
    BY <1>1, FS_Subset, LimiterAssumption
  <1>3. Cardinality(Held(g, w)') <= Cardinality(Held(g, w))
    BY <1>1, <1>2, FS_Subset
  <1>4. /\ Cardinality(Held(g, w)') \in Nat
        /\ Cardinality(Held(g, w)) \in Nat
        /\ Cardinality(Held(g, w)) <= MaxPerWorker
    BY <1>2, FS_CardinalityType DEF LimiterBudget
  <1> QED
    BY <1>3, <1>4, BudgetPositive

(* The invariant holds before any runtime exists. *)
LEMMA InitIInv == Init => IInv
  <1> SUFFICES ASSUME Init PROVE IInv
    OBVIOUS
  <1>1. TypeOK
    BY LimiterAssumption, IdleCall DEF Init, TypeOK
  <1>2. \A g \in Gens, w \in Workers : Held(g, w) = {}
    BY DEF Init, Held
  <1>3. LimiterBudget
    BY <1>2, FS_EmptySet, BudgetPositive DEF LimiterBudget
  <1>4. CacheCovers /\ Reserved /\ Settled
    BY DEF Init, CacheCovers, Reserved, Settled, Idle
  <1> QED
    BY <1>1, <1>3, <1>4 DEF IInv
-----------------------------------------------------------------------------
(* Calls. *)

(* A claim looks its runtime up. *)
LEMMA ClaimRunStep ==
    ASSUME IInv, NEW c \in Calls, NEW w \in Workers, ClaimRun(c, w)
    PROVE  IInv'
  <1> USE DEF ClaimRun, dbVars, runtimeVars, childVars
  <1> DEFINE v == [pc |-> "claim", gen |-> app, worker |-> w, owner |-> NULL]
  <1>a. call \in [Calls -> Call] /\ v \in Call /\ v.pc = "claim" /\ v.worker = w
        /\ v.gen \in 1..gen
    BY LimiterAssumption DEF IInv, TypeOK, Call
  <1>b. call' = [call EXCEPT ![c] = v]
    OBVIOUS
  <1> HIDE DEF v
  <1>c. call' \in [Calls -> Call] /\ call'[c] = v
        /\ \A d \in Calls \ {c} : call'[d] = call[d]
    BY <1>a, <1>b, CallUpdate
  <1>1. TypeOK'
    BY <1>c DEF IInv, TypeOK
  <1>2. CacheCovers'
    BY DEF IInv, CacheCovers
  <1>3. LimiterBudget'
    BY <1>1, HeldShrinks DEF IInv
  <1>4. Reserved'
    <2> SUFFICES ASSUME NEW d \in Calls, call'[d].pc \in {"full", "admitted"}
                 PROVE  /\ lock[call'[d].gen] = d /\ call'[d].worker \in Workers
                        /\ call'[d].pc = "admitted" =>
                              CountWorker(cache[call'[d].gen], call'[d].worker) < MaxPerWorker
      BY DEF Reserved, CountWorker, OwnersOf, MaxPerWorker
    <2>1. call'[d] = call[d]
      BY <1>a, <1>c
    <2> QED
      BY <2>1, CallFacts
  <1>5. Settled'
    BY <1>a, <1>c DEF IInv, TypeOK, Settled
  <1> QED
    BY <1>1, <1>2, <1>3, <1>4, <1>5 DEF IInv

(* An admitted claim holds the mutex and has room in the cache. *)
LEMMA AdmitStep ==
    ASSUME IInv, NEW c \in Calls, Admit(c)
    PROVE  IInv'
  <1> USE DEF Admit, dbVars, runtimeVars, childVars
  <1> DEFINE pc == IF CountWorker(cache[call[c].gen], call[c].worker) < MaxPerWorker
                     THEN "admitted" ELSE "full"
  <1>a. call \in [Calls -> Call] /\ call[c].gen \in Gens /\ call[c].worker \in Workers
    BY CallFacts
  <1>0. /\ pc \in {"admitted", "full"}
        /\ pc = "admitted" => CountWorker(cache[call[c].gen], call[c].worker) < MaxPerWorker
    OBVIOUS
  <1>f. call' = [call EXCEPT ![c] = At(c, pc)]
    OBVIOUS
  <1> HIDE DEF pc
  <1>b. At(c, pc) \in Call
    BY <1>0, <1>a, AtCall
  <1>c. call' \in [Calls -> Call] /\ call'[c] = At(c, pc)
        /\ \A d \in Calls \ {c} : call'[d] = call[d]
    BY <1>a, <1>b, <1>f, CallUpdate
  <1>d. /\ call'[c].pc = pc /\ call'[c].gen = call[c].gen
        /\ call'[c].worker = call[c].worker /\ call'[c].owner = call[c].owner
    BY <1>0, <1>a, <1>c, AtCall
  <1>e. /\ lock' \in [Gens -> Calls \cup {NULL}] /\ lock'[call[c].gen] = c
        /\ \A g \in Gens \ {call[c].gen} : lock'[g] = lock[g]
    BY <1>a DEF IInv, TypeOK
  <1>1. TypeOK'
    BY <1>c, <1>e DEF IInv, TypeOK
  <1>2. CacheCovers'
    BY DEF IInv, CacheCovers
  <1>3. LimiterBudget'
    BY <1>1, HeldShrinks DEF IInv
  <1>4. Reserved'
    <2> SUFFICES ASSUME NEW d \in Calls, call'[d].pc \in {"full", "admitted"}
                 PROVE  /\ lock'[call'[d].gen] = d /\ call'[d].worker \in Workers
                        /\ call'[d].pc = "admitted" =>
                              CountWorker(cache[call'[d].gen], call'[d].worker) < MaxPerWorker
      BY DEF Reserved, CountWorker, OwnersOf, MaxPerWorker
    <2>1. CASE d = c
      BY <1>0, <1>a, <1>d, <1>e, <2>1
    <2>2. CASE d # c
      <3>1. /\ call'[d] = call[d] /\ lock[call[d].gen] = d /\ call[d].gen \in Gens
            /\ lock[call[c].gen] = NULL
        BY <1>c, <2>2, CallFacts
      <3>2. lock'[call[d].gen] = d
        BY <1>a, <1>e, <2>2, <3>1, LimiterAssumption
      <3> QED
        BY <3>1, <3>2 DEF IInv, Reserved
    <2> QED
      BY <2>1, <2>2
  <1>5. Settled'
    BY <1>0, <1>c, <1>d DEF IInv, TypeOK, Settled
  <1> QED
    BY <1>1, <1>2, <1>3, <1>4, <1>5 DEF IInv

(* The refresh takes the rows that are running: among them every run this   *)
(* limiter handed out, since the mutex keeps new ones out.                  *)
LEMMA RefreshStep ==
    ASSUME IInv, NEW c \in Calls, Refresh(c)
    PROVE  IInv'
  <1> USE DEF Refresh, dbVars, runtimeVars, childVars
  <1> DEFINE v == IF CountWorker(running, call[c].worker) < MaxPerWorker
                    THEN At(c, "admitted") ELSE Idle
  <1>a. /\ call \in [Calls -> Call] /\ call[c].gen \in Gens /\ call[c].worker \in Workers
        /\ lock[call[c].gen] = c
    BY CallFacts
  <1>b. v \in Call /\ call' = [call EXCEPT ![c] = v]
    BY <1>a, AtCall, IdleCall
  <1>c. call' \in [Calls -> Call] /\ call'[c] = v
        /\ \A d \in Calls \ {c} : call'[d] = call[d]
    <2> HIDE DEF v
    <2> QED
      BY <1>a, <1>b, CallUpdate
  <1>d. /\ call'[c].pc # "idle" =>
              /\ call'[c].gen = call[c].gen /\ call'[c].worker = call[c].worker
              /\ lock' = lock
              /\ CountWorker(running, call[c].worker) < MaxPerWorker
        /\ call'[c].pc \in {"idle", "admitted"}
    BY <1>a, <1>c, AtCall, IdleCall
  <1>e. /\ lock' \in [Gens -> Calls \cup {NULL}]
        /\ \A g \in Gens \ {call[c].gen} : lock'[g] = lock[g]
    BY <1>a DEF IInv, TypeOK
  <1>f. /\ cache' \in [Gens -> SUBSET Owners] /\ cache'[call[c].gen] = running
        /\ \A g \in Gens \ {call[c].gen} : cache'[g] = cache[g]
    BY <1>a DEF IInv, TypeOK
  <1>1. TypeOK'
    BY <1>c, <1>e, <1>f DEF IInv, TypeOK
  <1>2. CacheCovers'
    BY DEF IInv, TypeOK, CacheCovers
  <1>3. LimiterBudget'
    BY <1>1, HeldShrinks DEF IInv
  <1>4. Reserved'
    <2> SUFFICES ASSUME NEW d \in Calls, call'[d].pc \in {"full", "admitted"}
                 PROVE  /\ lock'[call'[d].gen] = d /\ call'[d].worker \in Workers
                        /\ call'[d].pc = "admitted" =>
                              CountWorker(cache'[call'[d].gen], call'[d].worker) < MaxPerWorker
      BY DEF Reserved, CountWorker, OwnersOf, MaxPerWorker
    <2>1. CASE d = c
      BY <1>a, <1>d, <1>f, <2>1
    <2>2. CASE d # c
      <3>1. call'[d] = call[d] /\ lock[call[d].gen] = d /\ call[d].gen \in Gens
        BY <1>c, <2>2, CallFacts
      <3>2. lock'[call[d].gen] = d /\ cache'[call[d].gen] = cache[call[d].gen]
        BY <1>a, <1>e, <1>f, <2>2, <3>1
      <3> QED
        BY <3>1, <3>2 DEF IInv, Reserved
    <2> QED
      BY <2>1, <2>2
  <1>5. Settled'
    BY <1>c, <1>d DEF IInv, TypeOK, Settled
  <1> QED
    BY <1>1, <1>2, <1>3, <1>4, <1>5 DEF IInv

(* A call ends and gives the mutex back. *)
LEMMA EndOfClaim ==
    ASSUME IInv, TypeOK', NEW c \in Calls, call[c].pc \in {"full", "admitted"},
           call' = [call EXCEPT ![c] = Idle],
           lock' = [lock EXCEPT ![call[c].gen] = NULL],
           gen' = gen, issued \subseteq issued', toRelease' = toRelease,
           \A g \in Gens \ {call[c].gen} : cache'[g] = cache[g],
           \A o \in running' : o \in running \/ o \notin issued,
           \A o \in Owners : via'[o] # via[o] => via'[o] = call[c].gen /\ o \in issued'
    PROVE  Reserved' /\ Settled'
  <1>a. /\ call \in [Calls -> Call] /\ call[c].gen \in Gens /\ call[c].gen <= gen
        /\ lock[call[c].gen] = c /\ lock \in [Gens -> Calls \cup {NULL}]
    BY CallFacts DEF IInv, TypeOK
  <1>b. call'[c] = Idle /\ \A d \in Calls \ {c} : call'[d] = call[d]
    BY <1>a, IdleCall, CallUpdate
  <1>1. Reserved'
    <2> SUFFICES ASSUME NEW d \in Calls, call'[d].pc \in {"full", "admitted"}
                 PROVE  /\ lock'[call'[d].gen] = d /\ call'[d].worker \in Workers
                        /\ call'[d].pc = "admitted" =>
                              CountWorker(cache'[call'[d].gen], call'[d].worker) < MaxPerWorker
      BY DEF Reserved, CountWorker, OwnersOf, MaxPerWorker
    <2>1. d # c /\ call'[d] = call[d]
      BY <1>b, IdleCall
    <2>2. call[d].gen \in Gens /\ call[d].gen # call[c].gen
      BY <1>a, <2>1, CallFacts
    <2>3. lock'[call[d].gen] = lock[call[d].gen] /\ cache'[call[d].gen] = cache[call[d].gen]
      BY <1>a, <2>2
    <2> QED
      BY <2>1, <2>3, CallFacts
  <1>2. Settled'
    <2>1. ASSUME NEW d \in Calls
          PROVE  /\ call'[d].pc # "idle" => call'[d].gen \in 1..gen'
                 /\ call'[d].pc = "claim" => call'[d].worker \in Workers
                 /\ call'[d].pc \in {"finish", "release"} => call'[d].owner \in issued'
                 /\ call'[d].pc = "release" => call'[d].owner \notin running'
      <3>1. CASE d = c
        BY <1>b, <3>1, IdleCall
      <3>2. CASE d # c
        BY <1>b, <3>2 DEF IInv, Settled
      <3> QED
        BY <3>1, <3>2
    <2>2. \A g \in Gens : toRelease'[g] \subseteq issued' \ running'
      BY DEF IInv, Settled
    <2>3. \A o \in Owners : via'[o] # 0 => via'[o] <= gen' /\ o \in issued'
      BY <1>a DEF IInv, Settled
    <2> QED
      BY <2>1, <2>2, <2>3 DEF Settled
  <1> QED
    BY <1>1, <1>2

(* The claim itself: the check still stands, so one more fits. *)
LEMMA ClaimStep ==
    ASSUME IInv, NEW c \in Calls, NEW o \in Owners, Claim(c, o)
    PROVE  IInv'
  <1> USE DEF Claim, dbVars, runtimeVars, childVars
  <1> DEFINE g0 == call[c].gen
             w0 == call[c].worker
  <1>a. /\ call \in [Calls -> Call] /\ g0 \in Gens /\ g0 <= gen /\ w0 \in Workers
        /\ CountWorker(cache[g0], w0) < MaxPerWorker
    BY CallFacts
  <1>b. call' \in [Calls -> Call]
    BY <1>a, IdleCall, CallUpdate
  <1>c. /\ cache \in [Gens -> SUBSET Owners] /\ cache' \in [Gens -> SUBSET Owners]
        /\ cache'[g0] = cache[g0] \cup {o}
        /\ \A g \in Gens \ {g0} : cache'[g] = cache[g]
    BY <1>a DEF IInv, TypeOK
  <1>d. /\ via \in [Owners -> 0..MaxGen] /\ via' \in [Owners -> 0..MaxGen] /\ via'[o] = g0
        /\ \A p \in Owners \ {o} : via'[p] = via[p]
    BY <1>a, LimiterAssumption DEF IInv, TypeOK
  <1>e. lock' \in [Gens -> Calls \cup {NULL}]
    BY DEF IInv, TypeOK
  <1>1. TypeOK'
    BY <1>b, <1>c, <1>d, <1>e DEF IInv, TypeOK
  <1>2. CacheCovers'
    <2> SUFFICES ASSUME NEW g \in Gens, NEW p \in running', via'[p] = g
                 PROVE  p \in cache'[g]
      BY DEF CacheCovers
    <2>1. CASE p = o
      BY <1>c, <1>d, <2>1
    <2>2. CASE p # o
      <3>1. p \in running /\ p \in Owners /\ via[p] = g
        BY <1>d, <2>2 DEF IInv, TypeOK
      <3>2. p \in cache[g]
        BY <3>1 DEF IInv, CacheCovers
      <3> QED
        BY <1>c, <3>2
    <2> QED
      BY <2>1, <2>2
  <1>3. LimiterBudget'
    <2> SUFFICES ASSUME NEW g \in Gens, NEW w \in Workers
                 PROVE  Cardinality(Held(g, w)') <= MaxPerWorker
      BY DEF LimiterBudget, MaxPerWorker
    <2>0. o \notin running /\ running \subseteq Owners
      BY DEF IInv, TypeOK
    <2>1. CASE g = g0 /\ w = w0
      <3>1. Held(g, w)' = Held(g, w) \cup {o}
        BY <1>d, <2>0, <2>1 DEF Held
      <3>2. Held(g, w) \subseteq OwnersOf(cache[g], w)
        BY DEF IInv, CacheCovers, Held, OwnersOf
      <3>3. IsFiniteSet(OwnersOf(cache[g], w)) /\ CountWorker(cache[g], w) \in Nat
        BY <1>c, CountFinite
      <3>4. /\ IsFiniteSet(Held(g, w))
            /\ Cardinality(Held(g, w)) <= CountWorker(cache[g], w)
        BY <3>2, <3>3, FS_Subset DEF CountWorker
      <3>5. Cardinality(Held(g, w)) \in Nat /\ Cardinality(Held(g, w)) < MaxPerWorker
        BY <1>a, <2>1, <3>3, <3>4, FS_CardinalityType, BudgetPositive
      <3>6. o \notin Held(g, w)
        BY <2>0 DEF Held
      <3>7. Cardinality(Held(g, w)') = Cardinality(Held(g, w)) + 1
        BY <3>1, <3>4, <3>6, FS_AddElement
      <3> QED
        BY <3>5, <3>7, BudgetPositive
    <2>2. CASE ~(g = g0 /\ w = w0)
      <3>1. Held(g, w)' = Held(g, w)
        BY <1>d, <2>0, <2>2 DEF Held
      <3> QED
        BY <3>1 DEF IInv, LimiterBudget
    <2> QED
      BY <2>1, <2>2
  <1>4. Reserved' /\ Settled'
    <2>1. \A p \in Owners : via'[p] # via[p] => via'[p] = g0 /\ p \in issued'
      BY <1>d
    <2> QED
      BY <1>1, <1>c, <2>1, EndOfClaim
  <1> QED
    BY <1>1, <1>2, <1>3, <1>4 DEF IInv

(* A claim that was committed and not answered is in no cache. *)
LEMMA ClaimUnacknowledgedStep ==
    ASSUME IInv, NEW c \in Calls, NEW o \in Owners, ClaimUnacknowledged(c, o)
    PROVE  IInv'
  <1> USE DEF ClaimUnacknowledged, dbVars, runtimeVars, childVars
  <1>a. call \in [Calls -> Call] /\ call' \in [Calls -> Call]
    BY CallFacts, IdleCall, CallUpdate
  <1>b. lock' \in [Gens -> Calls \cup {NULL}]
    BY DEF IInv, TypeOK
  <1>c. via[o] = 0 /\ via \in [Owners -> 0..MaxGen]
    BY DEF IInv, TypeOK, Settled
  <1>1. TypeOK'
    BY <1>a, <1>b DEF IInv, TypeOK
  <1>2. CacheCovers'
    BY <1>c DEF IInv, CacheCovers
  <1>3. LimiterBudget'
    <2>1. \A g \in Gens, w \in Workers : Held(g, w)' = Held(g, w)
      BY <1>c DEF Held
    <2> QED
      BY <2>1 DEF IInv, LimiterBudget, MaxPerWorker
  <1>4. Reserved' /\ Settled'
    BY <1>1, EndOfClaim
  <1> QED
    BY <1>1, <1>2, <1>3, <1>4 DEF IInv

(* A claim that found no run gives the mutex back. *)
LEMMA ClaimNothingStep ==
    ASSUME IInv, NEW c \in Calls, ClaimNothing(c)
    PROVE  IInv'
  <1> USE DEF ClaimNothing, dbVars, runtimeVars, childVars
  <1>a. call \in [Calls -> Call] /\ call' \in [Calls -> Call]
    BY CallFacts, IdleCall, CallUpdate
  <1>b. lock' \in [Gens -> Calls \cup {NULL}]
    BY DEF IInv, TypeOK
  <1>1. TypeOK'
    BY <1>a, <1>b DEF IInv, TypeOK
  <1>2. CacheCovers'
    BY DEF IInv, CacheCovers
  <1>3. LimiterBudget'
    BY <1>1, HeldShrinks DEF IInv
  <1>4. Reserved' /\ Settled'
    <2>1. call[c].pc \in {"full", "admitted"}
      OBVIOUS
    <2> QED
      BY <1>1, <2>1, EndOfClaim
  <1> QED
    BY <1>1, <1>2, <1>3, <1>4 DEF IInv

(* A call changes, the limiters and what they guard do not. *)
LEMMA CallOnly ==
    ASSUME IInv, NEW c \in Calls, NEW v \in Call, call' = [call EXCEPT ![c] = v],
           v.pc \in {"idle", "finish", "release"},
           v.pc # "idle" => v.gen \in 1..gen /\ v.owner \in issued,
           v.pc = "release" => v.owner \notin running',
           running' \subseteq running,
           UNCHANGED <<issued, via, gen, gaps, app, cache, lock, toRelease, accepting, cron,
                       workers, spent, drains, term, manager>>
    PROVE  IInv'
  <1>a. call' \in [Calls -> Call] /\ call'[c] = v
        /\ \A d \in Calls \ {c} : call'[d] = call[d]
    BY CallFacts, CallUpdate
  <1>1. TypeOK'
    BY <1>a DEF IInv, TypeOK
  <1>2. CacheCovers'
    BY DEF IInv, CacheCovers
  <1>3. LimiterBudget'
    BY <1>1, HeldShrinks DEF IInv
  <1>4. Reserved'
    <2> SUFFICES ASSUME NEW d \in Calls, call'[d].pc \in {"full", "admitted"}
                 PROVE  /\ lock[call'[d].gen] = d /\ call'[d].worker \in Workers
                        /\ call'[d].pc = "admitted" =>
                              CountWorker(cache[call'[d].gen], call'[d].worker) < MaxPerWorker
      BY DEF Reserved, CountWorker, OwnersOf, MaxPerWorker
    <2>1. call'[d] = call[d]
      BY <1>a
    <2> QED
      BY <2>1, CallFacts
  <1>5. Settled'
    <2>1. ASSUME NEW d \in Calls
          PROVE  /\ call'[d].pc # "idle" => call'[d].gen \in 1..gen
                 /\ call'[d].pc = "claim" => call'[d].worker \in Workers
                 /\ call'[d].pc \in {"finish", "release"} => call'[d].owner \in issued
                 /\ call'[d].pc = "release" => call'[d].owner \notin running'
      <3>1. CASE d = c
        BY <1>a, <3>1
      <3>2. CASE d # c
        BY <1>a, <3>2 DEF IInv, Settled
      <3> QED
        BY <3>1, <3>2
    <2> QED
      BY <2>1 DEF IInv, Settled
  <1> QED
    BY <1>1, <1>2, <1>3, <1>4, <1>5 DEF IInv

(* A completion looks its runtime up. *)
LEMMA FinishRunStep ==
    ASSUME IInv, NEW c \in Calls, NEW o \in Owners, FinishRun(c, o)
    PROVE  IInv'
  <1> USE DEF FinishRun, dbVars, runtimeVars, childVars
  <1> DEFINE v == [pc |-> "finish", gen |-> app, worker |-> NULL, owner |-> o]
  <1>1. v \in Call /\ v.pc = "finish" /\ v.gen \in 1..gen /\ v.owner \in issued
    BY LimiterAssumption DEF IInv, TypeOK, Settled, Call
  <1>2. call' = [call EXCEPT ![c] = v]
    OBVIOUS
  <1> HIDE DEF v
  <1> QED
    BY <1>1, <1>2, CallOnly

(* A completion that was accepted is released next. *)
LEMMA FinishDbStep ==
    ASSUME IInv, NEW c \in Calls, FinishDb(c)
    PROVE  IInv'
  <1> USE DEF FinishDb, dbVars, runtimeVars, childVars
  <1> DEFINE v == IF call[c].owner \in running THEN At(c, "release") ELSE Idle
  <1>1. call[c].gen \in 1..gen /\ call[c].owner \in issued /\ call \in [Calls -> Call]
    BY CallFacts DEF IInv, Settled
  <1>2. /\ v \in Call /\ v.pc \in {"idle", "release"}
        /\ v.pc # "idle" => v.gen = call[c].gen /\ v.owner = call[c].owner
    BY <1>1, AtCall, IdleCall
  <1>3. call' = [call EXCEPT ![c] = v]
    OBVIOUS
  <1> HIDE DEF v
  <1>4. v.pc = "release" => v.owner \notin running'
    BY <1>2
  <1> QED
    BY <1>1, <1>2, <1>3, <1>4, CallOnly

(* Owners that are no longer running leave the cache of limiter g, whose    *)
(* mutex is free.                                                           *)
LEMMA CacheRelease ==
    ASSUME IInv, TypeOK', NEW g \in Gens, lock[g] = NULL, NEW o \in Owners \ running,
           cache' = [cache EXCEPT ![g] = @ \ {o}],
           UNCHANGED <<running, via, lock>>,
           \A c \in Calls : call'[c].pc \in {"full", "admitted"} => call'[c] = call[c]
    PROVE  CacheCovers' /\ LimiterBudget' /\ Reserved'
  <1>a. /\ cache \in [Gens -> SUBSET Owners] /\ cache'[g] = cache[g] \ {o}
        /\ \A h \in Gens \ {g} : cache'[h] = cache[h]
    BY DEF IInv, TypeOK
  <1>1. CacheCovers'
    BY <1>a DEF IInv, CacheCovers
  <1>2. LimiterBudget'
    BY HeldShrinks DEF IInv
  <1>3. Reserved'
    <2> SUFFICES ASSUME NEW d \in Calls, call'[d].pc \in {"full", "admitted"}
                 PROVE  /\ lock[call'[d].gen] = d /\ call'[d].worker \in Workers
                        /\ call'[d].pc = "admitted" =>
                              CountWorker(cache'[call'[d].gen], call'[d].worker) < MaxPerWorker
      BY DEF Reserved, CountWorker, OwnersOf, MaxPerWorker
    <2>1. call'[d] = call[d] /\ lock[call[d].gen] = d /\ call[d].gen \in Gens
      BY CallFacts
    <2>2. cache'[call[d].gen] = cache[call[d].gen]
      BY <1>a, <2>1, LimiterAssumption
    <2> QED
      BY <2>1, <2>2, CallFacts
  <1> QED
    BY <1>1, <1>2, <1>3

(* A release removes an owner that runs nothing any more. *)
LEMMA ReleaseStep ==
    ASSUME IInv, NEW c \in Calls, Release(c)
    PROVE  IInv'
  <1> USE DEF Release, Released, dbVars, runtimeVars, childVars
  <1>a. /\ call \in [Calls -> Call] /\ call[c].gen \in Gens
        /\ call[c].owner \in Owners \ running
    BY CallFacts DEF IInv, TypeOK
  <1>b. call' \in [Calls -> Call] /\ call'[c] = Idle
        /\ \A d \in Calls \ {c} : call'[d] = call[d]
    BY <1>a, IdleCall, CallUpdate
  <1>1. TypeOK'
    BY <1>a, <1>b DEF IInv, TypeOK
  <1>2. \A d \in Calls : call'[d].pc \in {"full", "admitted"} => call'[d] = call[d]
    BY <1>b, IdleCall
  <1>3. CacheCovers' /\ LimiterBudget' /\ Reserved'
    BY <1>1, <1>2, <1>a, CacheRelease
  <1>4. Settled'
    BY <1>b, IdleCall DEF IInv, Settled
  <1> QED
    BY <1>1, <1>3, <1>4 DEF IInv

(* So does the release of an owner whose lease was reclaimed. *)
LEMMA ReclaimReleaseStep ==
    ASSUME IInv, NEW g \in Gens, NEW o \in Owners, ReclaimRelease(g, o)
    PROVE  IInv'
  <1> USE DEF ReclaimRelease, Released, dbVars, runtimeVars, childVars
  <1>a. o \in Owners \ running
    BY DEF IInv, Settled
  <1>1. TypeOK'
    BY DEF IInv, TypeOK
  <1>2. CacheCovers' /\ LimiterBudget' /\ Reserved'
    BY <1>1, <1>a, CacheRelease
  <1>3. Settled'
    BY DEF IInv, TypeOK, Settled
  <1> QED
    BY <1>1, <1>2, <1>3 DEF IInv

(* A reclaim ends runs; their owners are released later. *)
LEMMA ReclaimStep ==
    ASSUME IInv, NEW g \in Gens, NEW D \in SUBSET running, Reclaim(g, D)
    PROVE  IInv'
  <1> USE DEF Reclaim, dbVars, runtimeVars, childVars
  <1>1. TypeOK'
    BY DEF IInv, TypeOK
  <1>2. CacheCovers'
    BY DEF IInv, CacheCovers
  <1>3. LimiterBudget'
    BY <1>1, HeldShrinks DEF IInv
  <1>4. Reserved'
    BY DEF IInv, Reserved, CountWorker, OwnersOf
  <1>5. Settled'
    BY DEF IInv, TypeOK, Settled
  <1> QED
    BY <1>1, <1>2, <1>3, <1>4, <1>5 DEF IInv

(* A reclaim by another server ends runs too. *)
LEMMA OtherServerReclaimsStep ==
    ASSUME IInv, NEW D \in SUBSET running, OtherServerReclaims(D)
    PROVE  IInv'
  <1> USE DEF OtherServerReclaims, dbVars, runtimeVars, childVars
  <1>1. TypeOK'
    BY DEF IInv, TypeOK
  <1>2. CacheCovers'
    BY DEF IInv, CacheCovers
  <1>3. LimiterBudget'
    BY <1>1, HeldShrinks DEF IInv
  <1>4. Reserved'
    BY DEF IInv, Reserved, CountWorker, OwnersOf
  <1>5. Settled'
    BY DEF IInv, TypeOK, Settled
  <1> QED
    BY <1>1, <1>2, <1>3, <1>4, <1>5 DEF IInv
-----------------------------------------------------------------------------
(* Management. *)

(* The limiter of a new runtime has handed out nothing yet and no call has  *)
(* looked it up, so any snapshot will do.                                   *)
LEMMA EnsureSnapshotStep ==
    ASSUME IInv, EnsureSnapshot
    PROVE  IInv'
  <1> USE DEF EnsureSnapshot, dbVars, runtimeVars, childVars
  <1>a. PICK S \in {running, {}} : cache' = [cache EXCEPT ![gen + 1] = S]
    OBVIOUS
  <1>b. /\ gen \in 0..MaxGen /\ MaxGen \in Nat /\ gen + 1 \in Gens /\ gen' = gen + 1
        /\ gen' \in 0..MaxGen /\ S \in SUBSET Owners
    BY <1>a, LimiterAssumption DEF IInv, TypeOK
  <1>c. /\ cache' \in [Gens -> SUBSET Owners]
        /\ \A g \in Gens \ {gen + 1} : cache'[g] = cache[g]
    BY <1>a, <1>b DEF IInv, TypeOK
  <1>d. gaps' \subseteq {"unread", "replaced", "calls"}
    BY DEF IInv, TypeOK, Gaps
  <1>1. TypeOK'
    BY <1>b, <1>c, <1>d DEF IInv, TypeOK
  <1>2. CacheCovers'
    <2>1. ASSUME NEW o \in running PROVE via[o] # gen + 1
      <3>1. o \in Owners /\ via[o] \in 0..MaxGen
        BY DEF IInv, TypeOK
      <3>2. via[o] = 0 \/ via[o] <= gen
        BY <3>1 DEF IInv, Settled
      <3> QED
        BY <1>b, <3>1, <3>2
    <2> QED
      BY <1>c, <2>1 DEF IInv, CacheCovers
  <1>3. LimiterBudget'
    BY <1>1, HeldShrinks DEF IInv
  <1>4. Reserved'
    <2> SUFFICES ASSUME NEW d \in Calls, call[d].pc \in {"full", "admitted"}
                 PROVE  /\ lock[call[d].gen] = d /\ call[d].worker \in Workers
                        /\ call[d].pc = "admitted" =>
                              CountWorker(cache'[call[d].gen], call[d].worker) < MaxPerWorker
      BY DEF Reserved, CountWorker, OwnersOf, MaxPerWorker
    <2>1. call[d].gen \in Gens /\ call[d].gen <= gen
      BY CallFacts
    <2>2. cache'[call[d].gen] = cache[call[d].gen]
      BY <1>b, <1>c, <2>1
    <2> QED
      BY <2>2, CallFacts
  <1>5. Settled'
    BY <1>b DEF IInv, TypeOK, Settled
  <1> QED
    BY <1>1, <1>2, <1>3, <1>4, <1>5 DEF IInv

(* A crash ends every call and loses every cache. *)
LEMMA CrashStep ==
    ASSUME IInv, Crash
    PROVE  IInv'
  <1> USE DEF Crash, dbVars, childVars
  <1>1. TypeOK'
    BY IdleCall, LimiterAssumption DEF IInv, TypeOK
  <1>2. CacheCovers'
    BY DEF IInv, CacheCovers
  <1>3. LimiterBudget'
    BY <1>1, HeldShrinks DEF IInv
  <1>4. Reserved' /\ Settled'
    BY IdleCall DEF IInv, TypeOK, Reserved, Settled
  <1> QED
    BY <1>1, <1>2, <1>3, <1>4 DEF IInv

(* Every other step leaves the core alone: only the types are at stake.     *)
LEMMA ManagerFacts ==
    ASSUME IInv
    PROVE  /\ MaxGen \in Nat /\ gen \in 0..MaxGen /\ app \in 0..gen
           /\ manager.pc \notin {"idle", "down"} =>
                 manager.gen \in 1..gen /\ manager.gen \in Gens
           /\ app # 0 => app \in Gens
  BY LimiterAssumption DEF IInv, TypeOK

(* The end of a cron task changes no cache and no claim. *)
LEMMA CronStopsStep ==
    ASSUME IInv, NEW g \in Gens, CronStops(g)
    PROVE  IInv'
  <1>1. TypeOK' /\ UNCHANGED core
    BY DEF CronStops, dbVars, childVars, core, IInv, TypeOK
  <1> QED
    BY <1>1, Frame

(* Nor does the start or the end of a worker process. *)
LEMMA WorkerStep ==
    ASSUME IInv, NEW w \in Workers,
           WorkerExits(w) \/ \E g \in Gens : Spawn(w, g)
    PROVE  IInv'
  <1>1. TypeOK' /\ UNCHANGED core
    <2>1. PICK v \in 0..MaxGen :
             workers' = [workers EXCEPT ![w] = v] /\ spent' \in {spent, spent \cup {w}}
      BY LimiterAssumption DEF WorkerExits, Spawn
    <2>2. UNCHANGED <<dbVars, cache, lock, toRelease, runtimeVars, call>>
      BY DEF WorkerExits, Spawn
    <2> QED
      BY <2>1, <2>2 DEF dbVars, runtimeVars, core, IInv, TypeOK
  <1> QED
    BY <1>1, Frame

(* Nor do the steps of ensure, stop and retire, but for Ensure. *)
LEMMA ManagementStep ==
    ASSUME IInv,
           \/ EnsureFails \/ EnsureStarted \/ EnsureSwap \/ EnsureDrainOld
           \/ \E g \in Gens : Drain(g)
           \/ Retire \/ Stop \/ RetireReinsert \/ RetireDone \/ StopDone \/ Restart
    PROVE  IInv'
  <1> SUFFICES TypeOK' /\ UNCHANGED core
    BY Frame
  <1>a. /\ MaxGen \in Nat /\ gen \in 0..MaxGen /\ app \in 0..gen
        /\ manager.pc \notin {"idle", "down"} => manager.gen \in 1..gen /\ manager.gen \in Gens
        /\ app # 0 => app \in Gens
    BY ManagerFacts
  <1> USE <1>a DEF dbVars, runtimeVars, childVars, core, IInv, TypeOK
  <1>2. CASE EnsureFails
    BY <1>2 DEF EnsureFails
  <1>3. CASE EnsureStarted
    <2>1. manager' = [pc |-> "started", gen |-> manager.gen]
      BY <1>3 DEF EnsureStarted
    <2> QED
      BY <1>3, <2>1 DEF EnsureStarted
  <1>4. CASE EnsureSwap
    <2>1. CASE app = 0
      BY <1>4, <2>1 DEF EnsureSwap
    <2>2. CASE app # 0
      BY <1>4, <2>2 DEF EnsureSwap
    <2> QED
      BY <2>1, <2>2
  <1>5. CASE EnsureDrainOld
    <2>1. Stopping(manager.gen) \in {"none", "on", "stopping"}
      BY <1>5 DEF EnsureDrainOld, Stopping
    <2>2. manager.gen \in Gens
      BY <1>5 DEF EnsureDrainOld
    <2>3. drains' \subseteq Gens /\ accepting' \in [Gens -> BOOLEAN]
          /\ cron' \in [Gens -> {"none", "on", "stopping"}]
      BY <1>5, <2>1, <2>2 DEF EnsureDrainOld
    <2> QED
      BY <1>5, <2>3 DEF EnsureDrainOld
  <1>6. CASE \E g \in Gens : Drain(g)
    BY <1>6 DEF Drain
  <1>7. CASE Retire \/ Stop
    <2>1. PICK pc \in {"retiring", "stopping"} : Remove(pc)
      BY <1>7 DEF Retire, Stop
    <2>2. Stopping(app) \in {"none", "on", "stopping"}
      BY <2>1 DEF Remove, Stopping
    <2> QED
      BY <2>1, <2>2 DEF Remove
  <1>9. CASE RetireReinsert
    <2>1. manager.gen \in Gens
      BY <1>9 DEF RetireReinsert
    <2>2. term' \subseteq Gens
      BY <1>9, <2>1 DEF RetireReinsert
    <2> QED
      BY <1>9, <2>2 DEF RetireReinsert
  <1>10. CASE RetireDone
    BY <1>10 DEF RetireDone
  <1>11. CASE StopDone
    <2>1. manager.gen \in Gens
      BY <1>11 DEF StopDone
    <2>2. term' \subseteq Gens
      BY <1>11, <2>1 DEF StopDone
    <2>3. workers' \in [Workers -> 0..MaxGen]
      BY <1>11 DEF StopDone
    <2> QED
      BY <1>11, <2>2, <2>3 DEF StopDone
  <1>14. CASE Restart
    BY <1>14 DEF Restart
  <1> QED
    BY <1>2, <1>3, <1>4, <1>5, <1>6, <1>7, <1>9, <1>10, <1>11, <1>14

(* Every step keeps the invariant. *)
LEMMA Step == IInv /\ [Next]_vars => IInv'
  <1> SUFFICES ASSUME IInv, [Next]_vars PROVE IInv'
    OBVIOUS
  <1>1. CASE \E c \in Calls : CallStep(c)
    <2> PICK c \in Calls : CallStep(c)
      BY <1>1
    <2> QED
      BY ClaimRunStep, AdmitStep, RefreshStep, ClaimStep, ClaimUnacknowledgedStep,
         ClaimNothingStep, FinishRunStep, FinishDbStep, ReleaseStep DEF CallStep
  <1>2. CASE \E g \in Gens : CronStep(g)
    <2> PICK g \in Gens : CronStep(g)
      BY <1>2
    <2>1. CASE CronStops(g)
      BY <2>1, CronStopsStep
    <2> QED
      BY <2>1, ReclaimStep, ReclaimReleaseStep DEF CronStep
  <1>3. CASE \E D \in SUBSET running : OtherServerReclaims(D)
    BY <1>3, OtherServerReclaimsStep
  <1>4. CASE ManagerStep
    BY <1>4, EnsureSnapshotStep, ManagementStep DEF ManagerStep
  <1>5. CASE \E w \in Workers, g \in Gens : Spawn(w, g)
    BY <1>5, WorkerStep
  <1>6. CASE \E w \in Workers : WorkerExits(w)
    BY <1>6, WorkerStep
  <1>7. CASE Crash
    BY <1>7, CrashStep
  <1>8. CASE Restart
    BY <1>8, ManagementStep
  <1>9. CASE UNCHANGED vars
    <2>1. TypeOK' /\ UNCHANGED core
      BY <1>9 DEF vars, core, IInv, TypeOK
    <2> QED
      BY <2>1, Frame
  <1> QED
    BY <1>1, <1>2, <1>3, <1>4, <1>5, <1>6, <1>7, <1>8, <1>9 DEF Next

(* The inductive invariant holds in every reachable state of the limiter.   *)
THEOREM Invariance == Spec => []IInv
  BY InitIInv, Step, PTL DEF Spec

(* Whatever calls overlap, whenever leases expire and whoever reclaims them,*)
(* InFlightLimiter::claim never lets a worker hold more than max_per_worker *)
(* of the runs one limiter hands out.                                       *)
THEOREM BudgetKept == Spec => []LimiterBudget
  <1>1. IInv => LimiterBudget
    BY DEF IInv
  <1> QED
    BY <1>1, Invariance, PTL

(* release_claim and the refresh at the cap never free the slot of a claim  *)
(* that is still running.                                                   *)
THEOREM SlotsKept == Spec => []CacheCovers
  <1>1. IInv => CacheCovers
    BY DEF IInv
  <1> QED
    BY <1>1, Invariance, PTL

(* A claim is refused for lack of budget only when the database holds that  *)
(* many running runs of the worker.                                         *)
THEOREM Refusals == Spec => RefusalJustified
  <1> DEFINE Justified(c) ==
               /\ call[c].pc = "full" /\ call'[c].pc = "idle"
               /\ cache' # cache /\ manager'.pc # "down"
               => CountWorker(running, call[c].worker) >= MaxPerWorker
  <1>1. ASSUME IInv, [Next]_vars, NEW c \in Calls
        PROVE  Justified(c)
    <2> SUFFICES ASSUME call[c].pc = "full", call'[c].pc = "idle",
                        cache' # cache, manager'.pc # "down"
                 PROVE  CountWorker(running, call[c].worker) >= MaxPerWorker
      OBVIOUS
    <2>1. call \in [Calls -> Call] /\ ~(call' = call)
      BY <1>1 DEF IInv, TypeOK
    <2>2. PICK d \in Calls : CallStep(d)
      BY <1>1, <2>1 DEF Next, vars, CronStep, Reclaim, ReclaimRelease, CronStops,
           OtherServerReclaims, ManagerStep, EnsureSnapshot, EnsureFails, EnsureStarted,
           EnsureSwap, EnsureDrainOld, Retire, Stop, Remove, RetireReinsert, RetireDone,
           StopDone, Drain, Spawn, WorkerExits, Crash, Restart
    <2>3. \A e \in Calls \ {d} : call'[e] = call[e]
      BY <2>1, <2>2 DEF CallStep, ClaimRun, Admit, Refresh, Claim, ClaimUnacknowledged,
           ClaimNothing, FinishRun, FinishDb, Release
    <2>4. d = c
      BY <2>3
    <2>5. Refresh(c)
      BY <1>1, <2>2, <2>4 DEF CallStep, ClaimRun, Admit, Refresh, Claim,
           ClaimUnacknowledged, ClaimNothing, FinishRun, FinishDb, Release
    <2>6. ~(CountWorker(running, call[c].worker) < MaxPerWorker)
      <3>1. At(c, "admitted").pc = "admitted" /\ At(c, "admitted") \in Call
        BY <2>1, AtCall
      <3> QED
        BY <2>1, <2>5, <3>1 DEF Refresh
    <2>7. CountWorker(running, call[c].worker) \in Nat
      BY <1>1, CountFinite DEF IInv, TypeOK
    <2> QED
      BY <2>6, <2>7, BudgetPositive
  <1>2. ASSUME IInv, [Next]_vars
        PROVE  [\A c \in Calls :
                  /\ call[c].pc = "full" /\ call'[c].pc = "idle"
                  /\ cache' # cache /\ manager'.pc # "down"
                  => CountWorker(running, call[c].worker) >= MaxPerWorker]_vars
    BY <1>1, <1>2
  <1> QED
    BY <1>2, Invariance, PTL DEF Spec, RefusalJustified

-----------------------------------------------------------------------------
(* The budget over all runtimes. *)

(* The running runs that were handed to somebody, by whichever runtime. *)
Answered == {o \in running : via[o] # 0}

Claiming == {"claim", "full", "admitted"}

(* Where the management operations are, as far as it matters here. *)
ManagedInv ==
    /\ manager.pc \in {"snapshot", "started"} => manager.gen = gen
    /\ manager.pc = "retiring" => ~accepting[manager.gen]

(* While no limiter was built over a gap only the newest one admits, and it *)
(* knows every run that is out, the ones of all earlier runtimes included.  *)
NewestCounts ==
    /\ app # 0 /\ accepting[app] => app = gen
    /\ \A c \in Calls : call[c].pc \in Claiming => call[c].gen = gen
    /\ gen # 0 => Answered \subseteq cache[gen]
    /\ \A w \in Workers : CountWorker(Answered, w) <= MaxPerWorker

RestartInv == ManagedInv /\ (gaps = {} => NewestCounts)

(* The counts only fall while no run is answered. *)
LEMMA AnsweredShrinks ==
    ASSUME IInv, IInv', NEW w \in Workers, Answered' \subseteq Answered,
           CountWorker(Answered, w) <= MaxPerWorker
    PROVE  CountWorker(Answered', w) <= MaxPerWorker
  <1>1. Answered \in SUBSET Owners /\ Answered' \in SUBSET Owners
    BY DEF Answered, IInv, TypeOK
  <1>2. CountWorker(Answered', w) <= CountWorker(Answered, w)
    BY <1>1, CountMonotone
  <1>3. CountWorker(Answered', w) \in Nat /\ CountWorker(Answered, w) \in Nat
    BY <1>1, CountFinite
  <1> QED
    BY <1>2, <1>3, BudgetPositive

(* Before anything was claimed there is nothing to count. *)
LEMMA InitRestart == Init => RestartInv
  <1> SUFFICES ASSUME Init PROVE RestartInv
    OBVIOUS
  <1>1. \A w \in Workers : OwnersOf(Answered, w) = {}
    BY DEF Init, Answered, OwnersOf
  <1>2. \A w \in Workers : CountWorker(Answered, w) <= MaxPerWorker
    BY <1>1, FS_EmptySet, BudgetPositive DEF CountWorker
  <1> QED
    BY <1>2 DEF Init, RestartInv, ManagedInv, NewestCounts, Idle, Claiming, Answered

(* A step that answers no run, frees no slot of a running run and lets      *)
(* nobody in through an older runtime keeps NewestCounts.                   *)
LEMMA CountsKept ==
    ASSUME IInv, IInv', NewestCounts, gen' = gen, Answered' \subseteq Answered,
           app' # 0 /\ accepting'[app'] => app' = gen,
           \A c \in Calls : call'[c].pc \in Claiming => call'[c].gen = gen,
           gen # 0 => cache[gen] \cap Answered' \subseteq cache'[gen]
    PROVE  NewestCounts'
  <1>1. gen' # 0 => Answered' \subseteq cache'[gen']
    BY DEF NewestCounts
  <1>2. ASSUME NEW w \in Workers PROVE CountWorker(Answered', w) <= MaxPerWorker
    BY <1>2, AnsweredShrinks DEF NewestCounts
  <1>3. \A w \in Workers : (CountWorker(Answered, w) <= MaxPerWorker)'
    BY <1>2 DEF CountWorker, OwnersOf, MaxPerWorker
  <1>4. \A c \in Calls : call'[c].pc \in Claiming => call'[c].gen = gen'
    OBVIOUS
  <1> QED
    BY <1>1, <1>3, <1>4 DEF NewestCounts, Claiming

(* Of a step that leaves the history and the manager alone only what it     *)
(* does to the calls and the caches has to be looked at.                    *)
LEMMA RuntimeFrame ==
    ASSUME IInv, IInv', RestartInv, UNCHANGED runtimeVars,
           NewestCounts => Answered' \subseteq Answered,
           NewestCounts =>
             \A c \in Calls : call'[c].pc \in Claiming => call'[c].gen = gen,
           gen # 0 => cache[gen] \cap Answered' \subseteq cache'[gen]
    PROVE  RestartInv'
  <1> USE DEF runtimeVars
  <1>1. ManagedInv'
    BY DEF RestartInv, ManagedInv
  <1>2. ASSUME gaps' = {} PROVE NewestCounts'
    <2>1. NewestCounts
      BY <1>2 DEF RestartInv
    <2>2. app' # 0 /\ accepting'[app'] => app' = gen
      BY <2>1 DEF NewestCounts
    <2> QED
      BY <2>1, <2>2, CountsKept
  <1> QED
    BY <1>1, <1>2 DEF RestartInv

(* Calls: all but the claim itself only look runs up, refresh and release.  *)
LEMMA RestartCalls ==
    ASSUME IInv, IInv', RestartInv, NEW c \in Calls, CallStep(c),
           \A o \in Owners : ~Claim(c, o)
    PROVE  RestartInv'
  <1> USE DEF dbVars, childVars, runtimeVars
  <1>a. /\ call \in [Calls -> Call] /\ running \subseteq issued /\ issued \subseteq Owners
        /\ \A o \in Owners : o \notin issued => via[o] = 0
        /\ cache \in [Gens -> SUBSET Owners] /\ gen # 0 => gen \in Gens
    BY LimiterAssumption DEF IInv, TypeOK, Settled
  <1>1. CASE \E w \in Workers : ClaimRun(c, w)
    <2>1. PICK w \in Workers : ClaimRun(c, w)
      BY <1>1
    <2>2. NewestCounts => \A d \in Calls : call'[d].pc \in Claiming => call'[d].gen = gen
      BY <1>a, <2>1 DEF ClaimRun, NewestCounts
    <2> QED
      BY <2>1, <2>2, RuntimeFrame DEF ClaimRun, Answered
  <1>2. CASE Admit(c)
    <2>1. \A d \in Calls : call'[d].gen = call[d].gen
                           /\ (call'[d].pc \in Claiming => call[d].pc \in Claiming)
      BY <1>a, <1>2, AtCall DEF Admit, Claiming
    <2> QED
      BY <1>2, <2>1, RuntimeFrame DEF Admit, Answered, NewestCounts
  <1>3. CASE Refresh(c)
    <2>1. \A d \in Calls : call'[d].pc \in Claiming =>
                               call'[d].gen = call[d].gen /\ call[d].pc \in Claiming
      BY <1>a, <1>3, AtCall, IdleCall DEF Refresh, Claiming
    <2>2. gen # 0 => cache[gen] \cap Answered' \subseteq cache'[gen]
      BY <1>a, <1>3 DEF Refresh, Answered
    <2> QED
      BY <1>3, <2>1, <2>2, RuntimeFrame DEF Refresh, Answered, NewestCounts
  <1>4. CASE \E o \in Owners : ClaimUnacknowledged(c, o)
    <2>1. PICK o \in Owners : ClaimUnacknowledged(c, o)
      BY <1>4
    <2>2. \A d \in Calls : call'[d].pc \in Claiming => call'[d] = call[d]
      BY <1>a, <2>1, IdleCall DEF ClaimUnacknowledged, Claiming
    <2>3. Answered' \subseteq Answered
      BY <1>a, <2>1 DEF ClaimUnacknowledged, Answered
    <2> QED
      BY <2>1, <2>2, <2>3, RuntimeFrame DEF ClaimUnacknowledged, NewestCounts
  <1>5. CASE ClaimNothing(c)
    <2>1. \A d \in Calls : call'[d].pc \in Claiming => call'[d] = call[d]
      BY <1>a, <1>5, IdleCall DEF ClaimNothing, Claiming
    <2> QED
      BY <1>5, <2>1, RuntimeFrame DEF ClaimNothing, NewestCounts, Answered
  <1>6. CASE \E o \in Owners : FinishRun(c, o)
    <2>1. PICK o \in Owners : FinishRun(c, o)
      BY <1>6
    <2>2. \A d \in Calls : call'[d].pc \in Claiming => call'[d] = call[d]
      BY <1>a, <2>1 DEF FinishRun, Claiming
    <2> QED
      BY <2>1, <2>2, RuntimeFrame DEF FinishRun, NewestCounts, Answered
  <1>7. CASE FinishDb(c)
    <2>1. \A d \in Calls : call'[d].pc \in Claiming => call'[d] = call[d]
      BY <1>a, <1>7, IdleCall, AtCall DEF FinishDb, Claiming
    <2> QED
      BY <1>7, <2>1, RuntimeFrame DEF FinishDb, NewestCounts, Answered
  <1>8. CASE Release(c)
    <2>1. \A d \in Calls : call'[d].pc \in Claiming => call'[d] = call[d]
      BY <1>a, <1>8, IdleCall DEF Release, Claiming
    <2>2. call[c].owner \notin running
      BY <1>8, CallFacts DEF Release
    <2>3. gen # 0 => cache[gen] \cap Answered' \subseteq cache'[gen]
      BY <1>a, <1>8, <2>2 DEF Release, Released, Answered
    <2> QED
      BY <1>8, <2>1, <2>3, RuntimeFrame DEF Release, NewestCounts, Answered
  <1> QED
    BY <1>1, <1>2, <1>3, <1>4, <1>5, <1>6, <1>7, <1>8 DEF CallStep

(* The claim: the check counted every run that is out, so one more fits.    *)
LEMMA RestartClaim ==
    ASSUME IInv, IInv', RestartInv, NEW c \in Calls, NEW o \in Owners, Claim(c, o)
    PROVE  RestartInv'
  <1> USE DEF Claim, runtimeVars, childVars
  <1>1. ManagedInv'
    BY DEF RestartInv, ManagedInv
  <1> SUFFICES ASSUME gaps = {} PROVE NewestCounts'
    BY <1>1 DEF RestartInv
  <1>2. NewestCounts
    BY DEF RestartInv
  <1>a. /\ call \in [Calls -> Call] /\ call[c].gen \in Gens /\ call[c].worker \in Workers
        /\ CountWorker(cache[call[c].gen], call[c].worker) < MaxPerWorker
    BY CallFacts
  <1>b. /\ running \in SUBSET Owners /\ o \notin running /\ via \in [Owners -> 0..MaxGen]
        /\ cache \in [Gens -> SUBSET Owners]
    BY DEF IInv, TypeOK
  <1>c. gen = call[c].gen /\ gen # 0
    BY <1>2, <1>a DEF NewestCounts, Claiming
  <1>3. Answered' = Answered \cup {o} /\ Answered \in SUBSET Owners /\ o \notin Answered
    BY <1>a, <1>b DEF Answered
  <1>4. Answered' \subseteq cache'[gen']
    BY <1>2, <1>3, <1>a, <1>b, <1>c DEF NewestCounts
  <1>5. \A d \in Calls : call'[d].pc \in Claiming => call'[d].gen = gen'
    BY <1>2, <1>a, IdleCall DEF NewestCounts, Claiming
  <1>6. ASSUME NEW w \in Workers PROVE CountWorker(Answered', w) <= MaxPerWorker
    <2>1. CASE w = call[c].worker
      <3>1. /\ CountWorker(Answered, w) <= CountWorker(cache[gen], w)
            /\ CountWorker(Answered, w) \in Nat /\ CountWorker(cache[gen], w) \in Nat
        BY <1>2, <1>3, <1>a, <1>b, <1>c, CountMonotone, CountFinite DEF NewestCounts
      <3>2. OwnersOf(Answered', w) = OwnersOf(Answered, w) \cup {o}
            /\ o \notin OwnersOf(Answered, w)
        BY <1>3, <2>1 DEF OwnersOf
      <3>3. IsFiniteSet(OwnersOf(Answered, w))
        BY <1>3, CountFinite
      <3>4. CountWorker(Answered', w) = CountWorker(Answered, w) + 1
        BY <3>2, <3>3, FS_AddElement DEF CountWorker
      <3> QED
        BY <1>a, <1>c, <2>1, <3>1, <3>4, BudgetPositive
    <2>2. CASE w # call[c].worker
      <3>1. OwnersOf(Answered', w) = OwnersOf(Answered, w)
        BY <1>3, <2>2 DEF OwnersOf
      <3> QED
        BY <1>2, <3>1 DEF NewestCounts, CountWorker
    <2> QED
      BY <2>1, <2>2
  <1>7. \A w \in Workers : (CountWorker(Answered, w) <= MaxPerWorker)'
    BY <1>6 DEF CountWorker, OwnersOf, MaxPerWorker
  <1> QED
    BY <1>2, <1>4, <1>5, <1>7 DEF NewestCounts, Claiming

(* Reclaims and late releases: a run leaves `running' before its slot goes. *)
LEMMA RestartCron ==
    ASSUME IInv, IInv', RestartInv,
           \/ \E g \in Gens : CronStep(g)
           \/ \E D \in SUBSET running : OtherServerReclaims(D)
    PROVE  RestartInv'
  <1> USE DEF dbVars, childVars, runtimeVars
  <1>a. /\ cache \in [Gens -> SUBSET Owners] /\ gen # 0 => gen \in Gens
        /\ \A g \in Gens : toRelease[g] \subseteq issued \ running
    BY LimiterAssumption DEF IInv, TypeOK, Settled
  <1>1. CASE \E D \in SUBSET running : OtherServerReclaims(D)
    BY <1>1, RuntimeFrame DEF OtherServerReclaims, Answered, NewestCounts
  <1>2. CASE \E g \in Gens : CronStep(g)
    <2>1. PICK g \in Gens : CronStep(g)
      BY <1>2
    <2>2. CASE \E D \in SUBSET running : Reclaim(g, D)
      BY <2>2, RuntimeFrame DEF Reclaim, Answered, NewestCounts
    <2>3. CASE \E o \in Owners : ReclaimRelease(g, o)
      <3>1. PICK o \in Owners : ReclaimRelease(g, o)
        BY <2>3
      <3>2. gen # 0 => cache[gen] \cap Answered' \subseteq cache'[gen]
        BY <1>a, <3>1 DEF ReclaimRelease, Released, Answered
      <3> QED
        BY <3>1, <3>2, RuntimeFrame DEF ReclaimRelease, Answered, NewestCounts
    <2>4. CASE CronStops(g)
      <3>1. ManagedInv'
        BY <2>4 DEF CronStops, RestartInv, ManagedInv
      <3>2. NewestCounts => NewestCounts'
        BY <2>4, CountsKept DEF CronStops, NewestCounts, Answered
      <3> QED
        BY <2>4, <3>1, <3>2 DEF CronStops, RestartInv
    <2> QED
      BY <2>1, <2>2, <2>3, <2>4 DEF CronStep
  <1> QED
    BY <1>1, <1>2

(* A new limiter without a gap has just read every row that is running, and *)
(* nobody was on the way to a claim.                                        *)
LEMMA RestartSnapshot ==
    ASSUME IInv, IInv', RestartInv, EnsureSnapshot
    PROVE  RestartInv'
  <1> USE DEF EnsureSnapshot, dbVars, childVars
  <1>1. PICK unread \in BOOLEAN :
           /\ cache' = [cache EXCEPT ![gen + 1] = IF unread THEN {} ELSE running]
           /\ gaps' = gaps \cup Gaps(unread)
    OBVIOUS
  <1>a. cache \in [Gens -> SUBSET Owners] /\ gen + 1 \in Gens /\ gen' = gen + 1
    BY LimiterAssumption DEF IInv, TypeOK
  <1>2. ManagedInv'
    BY DEF ManagedInv
  <1> SUFFICES ASSUME gaps' = {} PROVE NewestCounts'
    BY <1>2 DEF RestartInv
  <1>3. /\ gaps = {} /\ ~unread /\ ~(app # 0 /\ accepting[app])
        /\ \A c \in Calls : call[c].pc \notin Claiming
    BY <1>1 DEF Gaps, Claiming
  <1>4. cache'[gen'] = running
    BY <1>1, <1>3, <1>a
  <1>5. Answered' = Answered /\ Answered \subseteq running
    BY DEF Answered
  <1>6. \A w \in Workers : CountWorker(Answered, w) <= MaxPerWorker
    BY <1>3 DEF RestartInv, NewestCounts
  <1>7. \A w \in Workers : (CountWorker(Answered, w) <= MaxPerWorker)'
    BY <1>5, <1>6 DEF CountWorker, OwnersOf, MaxPerWorker
  <1> QED
    BY <1>3, <1>4, <1>5, <1>7 DEF NewestCounts, Claiming

(* The other management steps: only the newest runtime is ever made to      *)
(* accept, and a retired one is put back without accepting.                 *)
LEMMA RestartManager ==
    ASSUME IInv, IInv', RestartInv,
           \/ EnsureFails \/ EnsureStarted \/ EnsureSwap \/ EnsureDrainOld
           \/ \E g \in Gens : Drain(g)
           \/ Retire \/ Stop \/ RetireReinsert \/ RetireDone \/ StopDone \/ Restart
    PROVE  RestartInv'
  <1> USE DEF dbVars, childVars, runtimeVars
  <1>a. /\ gen \in Nat /\ accepting \in [Gens -> BOOLEAN] /\ app \in 0..gen
        /\ app # 0 => app \in Gens
        /\ manager.pc \notin {"idle", "down"} => manager.gen \in Gens /\ manager.gen # 0
        /\ manager \in [pc : {"idle", "snapshot", "started", "swapped", "retiring",
                              "stopping", "down"}, gen : 0..MaxGen]
    BY ManagerFacts, LimiterAssumption DEF IInv, TypeOK
  <1>b. UNCHANGED <<running, issued, via, cache, call, gen, gaps>>
    BY DEF EnsureFails, EnsureStarted, EnsureSwap, EnsureDrainOld, Drain, Retire, Stop, Remove,
           RetireReinsert, RetireDone, StopDone, Restart
  <1>1. ManagedInv'
    <2>1. CASE EnsureFails \/ RetireReinsert \/ StopDone \/ Restart \/ EnsureDrainOld
      BY <2>1 DEF EnsureFails, RetireReinsert, StopDone, Restart, EnsureDrainOld, ManagedInv
    <2>2. CASE EnsureStarted
      BY <1>a, <1>b, <2>2 DEF EnsureStarted, ManagedInv, RestartInv
    <2>3. CASE EnsureSwap
      BY <1>a, <2>3 DEF EnsureSwap, ManagedInv
    <2>4. CASE (\E g \in Gens : Drain(g)) \/ RetireDone
      BY <1>b, <2>4 DEF Drain, RetireDone, ManagedInv, RestartInv
    <2>5. CASE Retire \/ Stop
      <3>1. PICK pc \in {"retiring", "stopping"} : Remove(pc)
        BY <2>5 DEF Retire, Stop
      <3>2. /\ manager'.pc = pc /\ manager'.gen = app /\ app \in Gens
            /\ accepting' = [accepting EXCEPT ![app] = FALSE]
        BY <1>a, <3>1 DEF Remove
      <3>3. ~accepting'[app]
        BY <1>a, <3>2
      <3> QED
        BY <3>2, <3>3 DEF ManagedInv
    <2> QED
      BY <2>1, <2>2, <2>3, <2>4, <2>5
  <1>2. ASSUME NewestCounts PROVE app' # 0 /\ accepting'[app'] => app' = gen
    <2>1. app # 0 /\ accepting[app] => app = gen
      BY <1>2 DEF NewestCounts
    <2>2. CASE EnsureFails \/ EnsureStarted \/ StopDone \/ Restart \/ \E g \in Gens : Drain(g)
      BY <2>1, <2>2 DEF EnsureFails, EnsureStarted, StopDone, Restart, Drain
    <2>3. CASE EnsureSwap
      BY <2>3 DEF EnsureSwap, RestartInv, ManagedInv
    <2>4. CASE EnsureDrainOld
      BY <1>a, <2>1, <2>4 DEF EnsureDrainOld
    <2>5. CASE Retire \/ Stop \/ RetireDone
      BY <2>5 DEF Retire, Stop, Remove, RetireDone
    <2>6. CASE RetireReinsert
      BY <2>6 DEF RetireReinsert, RestartInv, ManagedInv
    <2> QED
      BY <2>2, <2>3, <2>4, <2>5, <2>6
  <1>3. NewestCounts => NewestCounts'
    BY <1>2, <1>b, CountsKept DEF NewestCounts, Answered
  <1> QED
    BY <1>1, <1>3, <1>b DEF RestartInv

(* After a crash nothing accepts and nobody is claiming. *)
LEMMA RestartCrash ==
    ASSUME IInv, IInv', RestartInv, Crash
    PROVE  RestartInv'
  <1>1. ManagedInv'
    BY DEF Crash, ManagedInv
  <1>2. \A c \in Calls : call'[c].pc \notin Claiming
    BY IdleCall DEF Crash, Claiming
  <1>3. NewestCounts => NewestCounts'
    BY <1>2, CountsKept DEF Crash, dbVars, childVars, Answered
  <1> QED
    BY <1>1, <1>3 DEF Crash, RestartInv

(* Workers come and go without touching a limiter. *)
LEMMA RestartWorkers ==
    ASSUME IInv, IInv', RestartInv, NEW w \in Workers,
           WorkerExits(w) \/ \E g \in Gens : Spawn(w, g)
    PROVE  RestartInv'
  <1>1. UNCHANGED <<dbVars, cache, runtimeVars, call>>
    BY DEF WorkerExits, Spawn
  <1> QED
    BY <1>1, RuntimeFrame DEF dbVars, Answered, NewestCounts

(* Every step keeps what the newest limiter knows. *)
LEMMA RestartStep == IInv /\ IInv' /\ RestartInv /\ [Next]_vars => RestartInv'
  <1> SUFFICES ASSUME IInv, IInv', RestartInv, [Next]_vars PROVE RestartInv'
    OBVIOUS
  <1>1. CASE \E c \in Calls : CallStep(c)
    BY <1>1, RestartCalls, RestartClaim
  <1>2. CASE (\E g \in Gens : CronStep(g)) \/ \E D \in SUBSET running : OtherServerReclaims(D)
    BY <1>2, RestartCron
  <1>3. CASE ManagerStep
    BY <1>3, RestartSnapshot, RestartManager DEF ManagerStep
  <1>4. CASE (\E w \in Workers, g \in Gens : Spawn(w, g)) \/ \E w \in Workers : WorkerExits(w)
    BY <1>4, RestartWorkers
  <1>5. CASE Crash
    BY <1>5, RestartCrash
  <1>6. CASE Restart
    BY <1>6, RestartManager
  <1>7. CASE UNCHANGED vars
    BY <1>7, RuntimeFrame DEF vars, runtimeVars, Answered, NewestCounts
  <1> QED
    BY <1>1, <1>2, <1>3, <1>4, <1>5, <1>6, <1>7 DEF Next

(* Rows still running from earlier runtimes count against the budget of the *)
(* one that serves (WorkflowManager::ensure, rehydrate): stop, retire, a    *)
(* failed ensure, a crash and a restart never let a worker exceed it, if    *)
(* every limiter was built from a successful read, while nothing accepted   *)
(* work and no claim was under way.                                         *)
THEOREM BudgetAcrossRestarts == Spec => []RestartBudget
  <1>1. Init /\ IInv => RestartInv
    BY InitRestart
  <1>2. RestartInv => RestartBudget
    <2> SUFFICES ASSUME RestartInv, gaps = {}, NEW w \in Workers
                 PROVE  Cardinality({o \in running : via[o] # 0 /\ WorkerOf[o] = w})
                            <= MaxPerWorker
      BY DEF RestartBudget, WithinBudget
    <2>1. {o \in running : via[o] # 0 /\ WorkerOf[o] = w} = OwnersOf(Answered, w)
      BY DEF OwnersOf, Answered
    <2> QED
      BY <2>1 DEF RestartInv, NewestCounts, CountWorker
  <1> QED
    BY <1>1, <1>2, RestartStep, Invariance, PTL DEF Spec
=============================================================================
