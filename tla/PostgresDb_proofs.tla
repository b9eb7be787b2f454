-------------------------- MODULE PostgresDb_proofs --------------------------
(***************************************************************************)
(* Theorems about PostgresDb, for any number of servers, runs, steps,      *)
(* events and attempts, any clock skew and any choice of deadlines.        *)
(***************************************************************************)
EXTENDS PostgresDb, FiniteSetTheorems, WellFoundedInduction, TLAPS

(* A nonempty set of natural numbers has a least element: of the intervals *)
(* 0..n the least is included in all others.                               *)
LEMMA LeastExists ==
    ASSUME NEW S \in SUBSET Nat, S # {}
    PROVE  Min(S) \in S /\ \A y \in S : Min(S) <= y
  <1> DEFINE T == {0..n : n \in S}
  <1>a. ASSUME NEW n \in S PROVE IsFiniteSet(0..n) /\ 0..n \in SUBSET Nat
    BY FS_Interval
  <1>1. T \subseteq FiniteSubsetsOf(Nat) /\ T # {}
    BY <1>a DEF FiniteSubsetsOf
  <1>2. PICK X \in T : \A Y \in T : ~(<<Y, X>> \in StrictSubsetOrdering(Nat))
    BY <1>1, WFMin, FS_StrictSubsetOrderingWellFounded
  <1>3. PICK n \in S : X = 0..n
    OBVIOUS
  <1>4. \A y \in S : n <= y
    <2> SUFFICES ASSUME NEW y \in S, y < n PROVE FALSE
      OBVIOUS
    <2>1. 0..y \in T /\ 0..y \subseteq X /\ 0..y # X /\ X \in SUBSET Nat /\ 0..y \in SUBSET Nat
      <3>1. n \in X /\ n \notin 0..y
        BY <1>3
      <3> QED
        BY <1>3, <3>1
    <2> QED
      BY <1>2, <2>1 DEF StrictSubsetOrdering
  <1> QED
    BY <1>4 DEF Min

(* A nonempty finite set of natural numbers has a greatest element.        *)
LEMMA GreatestExists ==
    ASSUME NEW S \in SUBSET Nat, S # {}, IsFiniteSet(S)
    PROVE  \E n \in S : \A y \in S : y <= n
  <1> DEFINE Above(n) == {y \in S : n <= y}
             T == {Above(n) : n \in S}
  <1>a. ASSUME NEW n \in S PROVE IsFiniteSet(Above(n)) /\ Above(n) \in SUBSET Nat
    <2>1. Above(n) \subseteq S
      OBVIOUS
    <2> QED
      BY <2>1, FS_Subset
  <1>1. T \subseteq FiniteSubsetsOf(Nat) /\ T # {}
    <2> HIDE DEF Above
    <2> QED
      BY <1>a DEF FiniteSubsetsOf
  <1>2. PICK X \in T : \A Y \in T : ~(<<Y, X>> \in StrictSubsetOrdering(Nat))
    BY <1>1, WFMin, FS_StrictSubsetOrderingWellFounded
  <1>3. PICK n \in S : X = Above(n)
    OBVIOUS
  <1>4. \A y \in S : y <= n
    <2> SUFFICES ASSUME NEW y \in S, n < y PROVE FALSE
      OBVIOUS
    <2>1. /\ Above(y) \in T /\ Above(y) \subseteq X /\ Above(y) # X
          /\ X \in SUBSET Nat /\ Above(y) \in SUBSET Nat
      <3>0. n \in Nat /\ y \in Nat /\ n < y /\ \A z \in S : z \in Nat
        OBVIOUS
      <3>1. n \in Above(n) /\ n \notin Above(y) /\ Above(y) \subseteq Above(n)
        <4>1. n <= n /\ ~(y <= n) /\ \A z \in S : y <= z => n <= z
          BY <3>0
        <4> QED
          BY ONLY <4>1, n \in S
      <3>2. Above(y) \in T
        OBVIOUS
      <3> QED
        BY <1>3, <1>a, <3>1, <3>2
    <2> QED
      BY <1>2, <2>1 DEF StrictSubsetOrdering
  <1> QED
    BY <1>4

-----------------------------------------------------------------------------
(* The inductive invariant. *)

Ops == {"idle", "claim", "claimed", "save", "wait", "signal", "reclaim", "prune"}

Values == Results \cup {JsonNull, NULL}

Transaction ==
    [op : Ops, t : Nat, owner : Owners \cup {NULL}, event : Events \cup {NULL},
     value : Results \cup {NULL}, todo : (SUBSET Keys) \cup (SUBSET RunIds), held : SUBSET RunIds,
     rows : [RunIds -> Row \cup {NULL}], puts : [Keys -> Values], dels : SUBSET Keys]

(* The tables, the history and every open transaction are well typed. *)
Typed == TypeOK /\ tx \in [Servers -> Transaction]

(* Rows: only an attempt that was answered holds a run. *)
RowOK(r) ==
    /\ runs[r].status = "running" =>
          /\ runs[r].worker_id \in Owners /\ told[runs[r].worker_id] # "none"
          /\ runs[r].lease_until \in Nat /\ runs[r].attempts >= 1
    /\ runs[r].status # "running" => runs[r].worker_id = NULL

Waiting(k) == event_waiters[k] # NULL

(* A run that waits is parked until the deadline of its only wait. *)
WaitOK(k) ==
    Waiting(k) =>
        /\ runs[k[1]].status = "pending"
        /\ runs[k[1]].run_at = IF event_waiters[k].expires_at = NULL
                               THEN Forever ELSE event_waiters[k].expires_at
        /\ \A j \in Keys : Waiting(j) /\ j[1] = k[1] => j = k

(* Only locked rows are written. *)
Covered(c) ==
    /\ \A r \in RunIds : c.rows[r] # NULL => r \in c.held
    /\ \A k \in Keys : c.puts[k] # NULL \/ k \in c.dels => k[1] \in c.held

NoRows == [r \in RunIds |-> NULL]
NoPuts == [k \in Keys |-> NULL]

(* What each kind of transaction knows of the rows it has locked, up to its *)
(* commit.                                                                  *)
ClaimOK(c) ==
    /\ c.owner \in Owners /\ told[c.owner] = "none" /\ c.t <= clock /\ c.dels = {}
    /\ c.op = "claim" => c.puts = NoPuts
    /\ \A k \in Keys : c.puts[k] \in {NULL, JsonNull}
    /\ \E r \in RunIds :
          /\ c.held = {r} /\ runs[r].status = "pending" /\ runs[r].run_at <= c.t
          /\ c.rows[r].lease_until \in Nat
          /\ c.rows[r] = Claimed(runs[r], c.owner, c.rows[r].lease_until)

SaveOK(c) ==
    /\ c.rows = NoRows /\ c.puts = NoPuts /\ c.dels = {}
    /\ \E r \in RunIds : c.held = {r} /\ c.todo = {r} /\ Owns(c.owner, r)

ParkOK(c) ==
    /\ c.puts = NoPuts /\ c.dels = {}
    /\ \E r \in RunIds, d \in Deadlines \cup {NULL} :
          /\ c.held = {r} /\ Owns(c.owner, r)
          /\ c.rows[r] = Parked(runs[r], d)

SignalOK(c) ==
    /\ c.todo \subseteq Keys /\ c.value \in Results
    /\ \A r \in c.held, k \in c.todo : r < k[1]
    /\ \A k \in Keys : IF k \in c.dels
                       THEN Waiting(k) /\ c.puts[k] = c.value /\ c.rows[k[1]] # NULL
                       ELSE c.puts[k] = NULL
    /\ \A r \in RunIds : c.rows[r] # NULL =>
          /\ runs[r].status = "pending" /\ c.rows[r] = [runs[r] EXCEPT !.run_at = c.t]
          /\ \E k \in c.dels : k[1] = r

ReclaimOK(c) ==
    /\ c.todo \subseteq RunIds /\ c.t <= clock /\ c.puts = NoPuts /\ c.dels = {}
    /\ \A r \in c.held : Expired(runs[r], c.t) /\ c.rows[r] = Left(runs[r], "pending")

PruneOK(c) ==
    /\ c.rows = NoRows /\ c.puts = NoPuts /\ c.dels = {}
    /\ \A r \in c.held : runs[r].status \in Terminal

(* The run whose lock a signal waits for comes after all it holds: r < k[1] *)
(* above.  Together: *)
TxOK(x) ==
    LET c == tx[x] IN
    /\ Covered(c)
    /\ c.op = "idle" => c = Idle
    /\ c.op \in {"claim", "claimed"} => ClaimOK(c)
    /\ c.op = "save" => SaveOK(c)
    /\ c.op = "wait" => ParkOK(c)
    /\ c.op = "signal" => SignalOK(c)
    /\ c.op = "reclaim" => ReclaimOK(c)
    /\ c.op = "prune" => PruneOK(c)

(* A row is locked by one transaction at a time. *)
Locks == \A x, y \in Servers : x # y => tx[x].held \cap tx[y].held = {}

(* The owner drawn for a claim appears nowhere else. *)
FreshOwners ==
    \A x, y \in Servers : x # y /\ tx[x].op \in {"claim", "claimed"} => tx[x].owner # tx[y].owner

(* KnowsResults, of one run. *)
Knows(r) ==
    \A s \in StepNames :
        runs[r].status = "running" /\ steps[<<r, s>>] # NULL =>
            s \in given[runs[r].worker_id] \cup saved[runs[r].worker_id]

IInv ==
    /\ Typed
    /\ \A r \in RunIds : RowOK(r) /\ Knows(r)
    /\ \A k \in Keys : WaitOK(k)
    /\ \A x \in Servers : TxOK(x)
    /\ Locks /\ FreshOwners

-----------------------------------------------------------------------------
(* What the statements do to a row. *)

(* A lease computed from a clock reading is a time. *)
LEMMA LeaseUntilType ==
    ASSUME NEW t \in Nat, NEW ms \in LeaseMs
    PROVE  LeaseUntil(t, ms) \in Nat
  <1>1. {ms, MaxLeaseMs} \in SUBSET Nat
    BY ConstantsAssumption
  <1>2. Min({ms, MaxLeaseMs}) \in Nat
    BY <1>1, LeastExists
  <1> QED
    BY <1>2 DEF LeaseUntil

(* A clock reading is a time the clock has reached. *)
LEMMA ReadingsType ==
    ASSUME Typed, NEW t \in Readings
    PROVE  t \in Nat /\ t <= clock /\ clock \in Nat
  BY ConstantsAssumption DEF Readings, Typed, TypeOK

(* The UPDATE of claim. *)
LEMMA ClaimedRow ==
    ASSUME NEW row \in Row, NEW o \in Owners, NEW lease \in Nat
    PROVE  LET new == Claimed(row, o, lease) IN
           /\ new \in Row /\ new.status = "running" /\ new.worker_id = o
           /\ new.lease_until = lease /\ new.attempts = row.attempts + 1
           /\ new.run_at = row.run_at
  <1>1. row.attempts + 1 \in Nat
    BY DEF Row
  <1> QED
    BY <1>1 DEF Claimed, Row

(* The UPDATE of complete, cancel, fail and the reclaimer. *)
LEMMA LeftRow ==
    ASSUME NEW row \in Row, NEW st \in Terminal \cup {"pending"}
    PROVE  LET new == Left(row, st) IN
           /\ new \in Row /\ new.status = st /\ new.worker_id = NULL
           /\ new.lease_until = NULL /\ new.attempts = row.attempts
           /\ new.run_at = row.run_at
  BY DEF Left, Row

(* The UPDATE of fail with a next_run_at. *)
LEMMA RescheduledRow ==
    ASSUME NEW row \in Row, NEW at \in Nat
    PROVE  LET new == Rescheduled(row, at) IN
           /\ new \in Row /\ new.status = "pending" /\ new.worker_id = NULL
           /\ new.attempts = row.attempts /\ new.run_at = at
  <1> DEFINE mid == Left(row, "pending")
  <1>1. mid \in Row /\ mid.status = "pending" /\ mid.worker_id = NULL
        /\ mid.attempts = row.attempts
    BY LeftRow
  <1>2. Rescheduled(row, at) = [mid EXCEPT !.run_at = at]
    BY DEF Rescheduled
  <1> HIDE DEF mid
  <1> QED
    BY <1>1, <1>2 DEF Row

(* The UPDATE of defer and wait_for_event: an attempt is given back. *)
LEMMA ParkedRow ==
    ASSUME NEW row \in Row, row.attempts >= 1, NEW d \in Deadlines \cup {NULL}
    PROVE  LET new == Parked(row, d) IN
           /\ new \in Row /\ new.status = "pending" /\ new.worker_id = NULL
           /\ new.run_at = IF d = NULL THEN Forever ELSE d
  <1> DEFINE at == IF d = NULL THEN Forever ELSE d
             mid == Rescheduled(row, at)
  <1>1. at \in Nat
    BY ConstantsAssumption
  <1>2. mid \in Row /\ mid.status = "pending" /\ mid.worker_id = NULL
        /\ mid.attempts = row.attempts /\ mid.run_at = at
    <2> HIDE DEF at
    <2> QED
      BY <1>1, RescheduledRow
  <1>3. Parked(row, d) = [mid EXCEPT !.attempts = mid.attempts - 1]
    BY DEF Parked
  <1>4. mid.attempts - 1 \in Nat
    BY <1>2 DEF Row
  <1> HIDE DEF mid, at
  <1>5. LET new == [mid EXCEPT !.attempts = mid.attempts - 1] IN
        new \in Row /\ new.status = "pending" /\ new.worker_id = NULL /\ new.run_at = at
    BY ONLY <1>2, <1>4 DEF Row
  <1> QED
    BY <1>3, <1>5 DEF at

(* The UPDATE of signal. *)
LEMMA WokenRow ==
    ASSUME NEW row \in Row, NEW t \in Nat
    PROVE  LET new == [row EXCEPT !.run_at = t] IN
           /\ new \in Row /\ new.run_at = t /\ new.status = row.status
           /\ new.worker_id = row.worker_id /\ new.lease_until = row.lease_until
           /\ new.attempts = row.attempts
  BY DEF Row

(* The UPDATE of heartbeat. *)
LEMMA RenewedRow ==
    ASSUME NEW row \in Row, NEW lease \in Nat
    PROVE  LET new == [row EXCEPT !.lease_until = lease] IN
           /\ new \in Row /\ new.lease_until = lease /\ new.status = row.status
           /\ new.worker_id = row.worker_id /\ new.run_at = row.run_at
           /\ new.attempts = row.attempts
  BY DEF Row

(* A row that is not there. *)
LEMMA AbsentRow == NoRow \in Row /\ NoRow.status = "absent" /\ NoRow.worker_id = NULL
  BY DEF NoRow, Row

(* A connection without a transaction. *)
LEMMA IdleTransaction ==
    /\ Idle \in Transaction /\ Idle.op = "idle" /\ Idle.owner = NULL /\ Idle.held = {}
    /\ Idle.rows = NoRows /\ Idle.puts = NoPuts /\ Idle.dels = {} /\ Idle.todo = {}
  BY DEF Idle, Transaction, Ops, Values, NoRows, NoPuts

-----------------------------------------------------------------------------
(* Frames: what nobody else touches. *)

(* An idle connection satisfies everything. *)
LEMMA IdleOK ==
    ASSUME NEW x \in Servers, tx'[x] = Idle
    PROVE  TxOK(x)'
  BY IdleTransaction DEF TxOK, Covered, NoRows, NoPuts, Idle

(* A transaction goes on undisturbed while nobody writes the rows it has    *)
(* locked, answers the owner it is claiming for or turns the clock back.    *)
LEMMA TxFrame ==
    ASSUME Typed, NEW x \in Servers, TxOK(x), tx'[x] = tx[x],
           \A r \in tx[x].held : runs'[r] = runs[r],
           \A k \in Keys : k[1] \in tx[x].held => event_waiters'[k] = event_waiters[k],
           tx[x].op \in {"claim", "claimed"} => told'[tx[x].owner] = told[tx[x].owner],
           clock' \in Nat, clock <= clock'
    PROVE  TxOK(x)'
  <1> DEFINE c == tx[x]
  <1>a. c \in Transaction /\ clock \in Nat /\ c.t \in Nat
    BY ConstantsAssumption DEF Typed, TypeOK, Transaction
  <1>b. c.t <= clock => c.t <= clock'
    BY <1>a
  <1>c. Covered(c) /\ Covered(c)'
    BY DEF TxOK, Covered
  <1>1. c.op \in {"claim", "claimed"} => ClaimOK(c)'
    <2> SUFFICES ASSUME c.op \in {"claim", "claimed"}, ClaimOK(c) PROVE ClaimOK(c)'
      BY DEF TxOK
    <2>1. PICK r \in RunIds :
             /\ c.held = {r} /\ runs[r].status = "pending" /\ runs[r].run_at <= c.t
             /\ c.rows[r].lease_until \in Nat
             /\ c.rows[r] = Claimed(runs[r], c.owner, c.rows[r].lease_until)
      BY DEF ClaimOK
    <2>2. runs'[r] = runs[r]
      BY <2>1
    <2> QED
      BY ZenonT(40), <1>b, <2>1, <2>2 DEF ClaimOK, Claimed, NoPuts
  <1>2. c.op = "save" => SaveOK(c)'
    BY DEF TxOK, SaveOK, Owns, NoRows, NoPuts
  <1>3. c.op = "wait" => ParkOK(c)'
    <2> SUFFICES ASSUME ParkOK(c) PROVE ParkOK(c)'
      BY DEF TxOK
    <2>1. PICK r \in RunIds, d \in Deadlines \cup {NULL} :
             c.held = {r} /\ Owns(c.owner, r) /\ c.rows[r] = Parked(runs[r], d)
      BY DEF ParkOK
    <2>2. runs'[r] = runs[r]
      BY <2>1
    <2>3. Owns(c.owner, r)' /\ c'.owner = c.owner /\ c'.held = {r} /\ c'.rows = c.rows
      BY <2>1, <2>2 DEF Owns
    <2>4. Parked(runs[r], d)' = Parked(runs[r], d)
      BY <2>2 DEF Parked, Rescheduled, Left
    <2>5. c'.rows[r] = Parked(runs[r], d)'
      BY <2>1, <2>3, <2>4
    <2>6. c'.puts = NoPuts /\ c'.dels = {}
      BY DEF ParkOK
    <2> QED
      BY <2>3, <2>5, <2>6 DEF ParkOK, NoPuts
  <1>4. c.op = "signal" => SignalOK(c)'
    <2> SUFFICES ASSUME SignalOK(c) PROVE SignalOK(c)'
      BY DEF TxOK
    <2>1. \A r \in RunIds : c.rows[r] # NULL => runs'[r] = runs[r]
      BY <1>c DEF Covered
    <2>2. \A k \in Keys : k \in c.dels => event_waiters'[k] = event_waiters[k]
      BY <1>c DEF Covered
    <2> QED
      BY <2>1, <2>2 DEF SignalOK, Waiting
  <1>5. c.op = "reclaim" => ReclaimOK(c)'
    BY <1>b DEF TxOK, ReclaimOK, Expired, Left, NoPuts
  <1>6. c.op = "prune" => PruneOK(c)'
    BY DEF TxOK, PruneOK, NoRows, NoPuts
  <1>7. c.op = "idle" => c = Idle
    BY DEF TxOK
  <1> QED
    BY <1>c, <1>1, <1>2, <1>3, <1>4, <1>5, <1>6, <1>7
       DEF TxOK, Idle, Covered, ClaimOK, SaveOK, ParkOK, SignalOK, ReclaimOK, PruneOK

(* What holds of a run that a step does not touch. *)
LEMMA RunFrame ==
    ASSUME IInv, NEW r \in RunIds, runs'[r] = runs[r],
           \A s \in StepNames : /\ steps'[<<r, s>>] = steps[<<r, s>>]
                                /\ event_waiters'[<<r, s>>] = event_waiters[<<r, s>>],
           \A o \in Owners : told[o] # "none" =>
               told'[o] # "none" /\ given'[o] = given[o] /\ saved[o] \subseteq saved'[o]
    PROVE  RowOK(r)' /\ Knows(r)' /\ \A s \in StepNames : WaitOK(<<r, s>>)'
  <1>1. RowOK(r) /\ Knows(r)
    BY DEF IInv
  <1>2. RowOK(r)'
    BY <1>1 DEF RowOK
  <1>3. Knows(r)'
    BY <1>1 DEF Knows, RowOK
  <1>4. ASSUME NEW s \in StepNames PROVE WaitOK(<<r, s>>)'
    <2>1. <<r, s>> \in Keys /\ WaitOK(<<r, s>>)
      BY DEF Keys, IInv
    <2>2. \A j \in Keys : j[1] = r => event_waiters'[j] = event_waiters[j]
      BY DEF Keys
    <2> QED
      BY <2>1, <2>2 DEF WaitOK, Waiting
  <1> QED
    BY <1>2, <1>3, <1>4

(* Facts of the invariant about one open transaction. *)
LEMMA TxFacts ==
    ASSUME IInv, NEW x \in Servers
    PROVE  /\ tx \in [Servers -> Transaction] /\ tx[x] \in Transaction /\ TxOK(x)
           /\ tx[x].t \in Nat /\ tx[x].held \in SUBSET RunIds /\ tx[x].dels \in SUBSET Keys
           /\ tx[x].rows \in [RunIds -> Row \cup {NULL}] /\ tx[x].puts \in [Keys -> Values]
           /\ tx[x].owner \in Owners \cup {NULL} /\ Covered(tx[x])
           /\ tx[x].op \in {"claim", "claimed"} =>
                 tx[x].owner \in Owners /\ told[tx[x].owner] = "none"
  <1>1. tx \in [Servers -> Transaction] /\ TxOK(x)
    BY DEF IInv, Typed
  <1>2. tx[x] \in Transaction
    BY <1>1
  <1>3. /\ tx[x].t \in Nat /\ tx[x].held \in SUBSET RunIds /\ tx[x].dels \in SUBSET Keys
        /\ tx[x].rows \in [RunIds -> Row \cup {NULL}] /\ tx[x].puts \in [Keys -> Values]
        /\ tx[x].owner \in Owners \cup {NULL}
    BY <1>2 DEF Transaction
  <1>4. /\ Covered(tx[x])
        /\ tx[x].op \in {"claim", "claimed"} =>
              tx[x].owner \in Owners /\ told[tx[x].owner] = "none"
    BY <1>1 DEF TxOK, ClaimOK
  <1> QED
    BY <1>1, <1>2, <1>3, <1>4

(* The tables and the history, as the invariant types them. *)
LEMMA TableFacts ==
    ASSUME IInv
    PROVE  /\ runs \in [RunIds -> Row]
           /\ steps \in [Keys -> Values]
           /\ event_waiters \in [Keys -> Waiter \cup {NULL}]
           /\ clock \in Nat
           /\ told \in [Owners -> {"none", "open", "retry", "parked", "stale"} \cup Terminal]
           /\ given \in [Owners -> SUBSET StepNames]
           /\ saved \in [Owners -> SUBSET StepNames]
  BY ConstantsAssumption DEF IInv, Typed, TypeOK, Values

(* The types are kept when the tables, the history and the transactions are. *)
LEMMA TypedFrom ==
    ASSUME runs' \in [RunIds -> Row], steps' \in [Keys -> Values],
           event_waiters' \in [Keys -> Waiter \cup {NULL}], clock' \in 0..MaxTime,
           told' \in [Owners -> {"none", "open", "retry", "parked", "stale"} \cup Terminal],
           given' \in [Owners -> SUBSET StepNames], saved' \in [Owners -> SUBSET StepNames],
           tx' \in [Servers -> Transaction]
    PROVE  Typed'
  <1>1. ASSUME NEW x \in Servers
        PROVE  /\ tx'[x].op \in Ops /\ tx'[x].held \subseteq RunIds
               /\ tx'[x].rows \in [RunIds -> Row \cup {NULL}]
    <2>1. tx'[x] \in Transaction
      OBVIOUS
    <2> QED
      BY <2>1 DEF Transaction
  <1> QED
    BY <1>1 DEF Typed, TypeOK, Values, Ops, Transaction

(* A statement that only changes its own transaction. *)
LEMMA OneTransaction ==
    ASSUME IInv, NEW x \in Servers, NEW c \in Transaction,
           tx' = [tx EXCEPT ![x] = c], UNCHANGED <<tables, clock, history>>,
           TxOK(x)',
           \A y \in Servers \ {x} : c.held \cap tx[y].held = {},
           \A y \in Servers \ {x} : c.op \in {"claim", "claimed"} => tx[y].owner # c.owner,
           \A y \in Servers \ {x} : tx[y].op \in {"claim", "claimed"} => tx[y].owner # c.owner
    PROVE  IInv'
  <1> USE DEF tables, history
  <1>a. tx \in [Servers -> Transaction]
    BY DEF IInv, Typed
  <1>b. tx' \in [Servers -> Transaction] /\ tx'[x] = c /\ \A y \in Servers \ {x} : tx'[y] = tx[y]
    BY <1>a
  <1>1. Typed'
    BY <1>b, TableFacts, TypedFrom DEF IInv, Typed, TypeOK
  <1>2. ASSUME NEW r \in RunIds PROVE RowOK(r)' /\ Knows(r)'
    BY RunFrame
  <1>3. ASSUME NEW k \in Keys PROVE WaitOK(k)'
    BY DEF IInv, WaitOK, Waiting
  <1>4. ASSUME NEW y \in Servers PROVE TxOK(y)'
    <2>1. CASE y = x
      BY <2>1
    <2>2. CASE y # x
      <3>1. tx'[y] = tx[y] /\ TxOK(y) /\ Typed /\ clock' \in Nat /\ clock <= clock'
        BY <1>b, <2>2, TableFacts DEF IInv
      <3> QED
        BY <3>1, TxFrame
    <2> QED
      BY <2>1, <2>2
  <1>5. Locks'
    <2> SUFFICES ASSUME NEW y \in Servers, NEW z \in Servers, y # z
                 PROVE  tx'[y].held \cap tx'[z].held = {}
      BY DEF Locks
    <2>1. CASE y = x
      BY <1>b, <2>1
    <2>2. CASE z = x
      BY <1>b, <2>2
    <2>3. CASE y # x /\ z # x
      BY <1>b, <2>3 DEF IInv, Locks
    <2> QED
      BY <2>1, <2>2, <2>3
  <1>6. FreshOwners'
    <2> SUFFICES ASSUME NEW y \in Servers, NEW z \in Servers, y # z,
                        tx'[y].op \in {"claim", "claimed"}
                 PROVE  tx'[y].owner # tx'[z].owner
      BY DEF FreshOwners
    <2>1. CASE y = x
      BY <1>b, <2>1
    <2>2. CASE z = x
      BY <1>b, <2>2
    <2>3. CASE y # x /\ z # x
      BY <1>b, <2>3 DEF IInv, FreshOwners
    <2> QED
      BY <2>1, <2>2, <2>3
  <1> QED
    BY <1>1, <1>2, <1>3, <1>4, <1>5, <1>6 DEF IInv

(* A transaction that is given up leaves nothing behind. *)
LEMMA GivenUp ==
    ASSUME IInv, NEW x \in Servers, Continue(x, Idle), UNCHANGED <<tables, clock, history>>
    PROVE  IInv'
  <1>1. tx' = [tx EXCEPT ![x] = Idle] /\ tx'[x] = Idle
    BY TxFacts DEF Continue
  <1>2. TxOK(x)'
    BY <1>1, IdleOK
  <1>3. \A y \in Servers : tx[y].op \in {"claim", "claimed"} => tx[y].owner # NULL
    BY TxFacts, ConstantsAssumption
  <1> QED
    BY <1>1, <1>2, <1>3, IdleTransaction, OneTransaction

(* A step that writes the runs D, which no transaction but those that end   *)
(* with it (in X) has locked.                                               *)
LEMMA Effect ==
    ASSUME IInv, Typed', NEW D \in SUBSET RunIds, NEW X \in SUBSET Servers,
           \A x \in X : tx'[x] = Idle,
           \A y \in Servers \ X : tx'[y] = tx[y] /\ D \cap tx[y].held = {},
           \A y \in Servers \ X : tx[y].op \in {"claim", "claimed"} =>
               told'[tx[y].owner] = told[tx[y].owner],
           clock' = clock,
           \A r \in RunIds \ D : runs'[r] = runs[r],
           \A k \in Keys : k[1] \notin D =>
               steps'[k] = steps[k] /\ event_waiters'[k] = event_waiters[k],
           \A o \in Owners : told[o] # "none" =>
               told'[o] # "none" /\ given'[o] = given[o] /\ saved[o] \subseteq saved'[o],
           \A r \in D : RowOK(r)' /\ Knows(r)',
           \A k \in Keys : k[1] \in D => WaitOK(k)'
    PROVE  IInv'
  <1>1. ASSUME NEW r \in RunIds \ D
        PROVE  RowOK(r)' /\ Knows(r)' /\ \A s \in StepNames : WaitOK(<<r, s>>)'
    <2>1. \A s \in StepNames : /\ steps'[<<r, s>>] = steps[<<r, s>>]
                               /\ event_waiters'[<<r, s>>] = event_waiters[<<r, s>>]
      BY DEF Keys
    <2> QED
      BY <2>1, RunFrame
  <1>2. ASSUME NEW r \in RunIds PROVE RowOK(r)' /\ Knows(r)'
    BY <1>1
  <1>3. ASSUME NEW k \in Keys PROVE WaitOK(k)'
    <2>1. PICK r \in RunIds, s \in StepNames : k = <<r, s>>
      BY DEF Keys
    <2>2. k[1] = r
      BY <2>1
    <2> QED
      BY <1>1, <2>1, <2>2
  <1>4. ASSUME NEW y \in Servers PROVE TxOK(y)'
    <2>1. CASE y \in X
      BY <2>1, IdleOK
    <2>2. CASE y \notin X
      <3>1. /\ tx'[y] = tx[y] /\ TxOK(y) /\ Typed /\ clock' \in Nat /\ clock <= clock'
            /\ tx[y].held \in SUBSET RunIds
        BY <2>2, TableFacts, TxFacts DEF IInv
      <3>2. \A r \in tx[y].held : runs'[r] = runs[r]
        BY <2>2, <3>1
      <3>3. \A k \in Keys : k[1] \in tx[y].held => event_waiters'[k] = event_waiters[k]
        BY <2>2, <3>1
      <3> QED
        BY <2>2, <3>1, <3>2, <3>3, TxFrame
    <2> QED
      BY <2>1, <2>2
  <1>5. Locks'
    <2> SUFFICES ASSUME NEW y \in Servers, NEW z \in Servers, y # z
                 PROVE  tx'[y].held \cap tx'[z].held = {}
      BY DEF Locks
    <2>1. CASE y \in X \/ z \in X
      BY <2>1, IdleTransaction
    <2>2. CASE y \notin X /\ z \notin X
      BY <2>2 DEF IInv, Locks
    <2> QED
      BY <2>1, <2>2
  <1>6. FreshOwners'
    <2> SUFFICES ASSUME NEW y \in Servers, NEW z \in Servers, y # z,
                        tx'[y].op \in {"claim", "claimed"}
                 PROVE  tx'[y].owner # tx'[z].owner
      BY DEF FreshOwners
    <2>1. y \notin X /\ tx'[y] = tx[y]
      BY IdleTransaction
    <2>2. CASE z \in X
      BY <2>1, <2>2, IdleTransaction, TxFacts, ConstantsAssumption
    <2>3. CASE z \notin X
      BY <2>1, <2>3 DEF IInv, FreshOwners
    <2> QED
      BY <2>2, <2>3
  <1> QED
    BY <1>2, <1>3, <1>4, <1>5, <1>6 DEF IInv

(* A statement that writes one row which nobody has locked. *)
LEMMA OneRow ==
    ASSUME IInv, Typed', NEW r \in RunIds,
           \A y \in Servers : tx'[y] = tx[y] /\ {r} \cap tx[y].held = {},
           \A y \in Servers : tx[y].op \in {"claim", "claimed"} =>
               told'[tx[y].owner] = told[tx[y].owner],
           clock' = clock, steps' = steps, event_waiters' = event_waiters,
           \A q \in RunIds \ {r} : runs'[q] = runs[q],
           \A o \in Owners : told[o] # "none" =>
               told'[o] # "none" /\ given'[o] = given[o] /\ saved[o] \subseteq saved'[o],
           RowOK(r)', Knows(r)',
           \A k \in Keys : k[1] = r => WaitOK(k)'
    PROVE  IInv'
  <1>1. PICK D \in SUBSET RunIds : D = {r}
    OBVIOUS
  <1>2. PICK X \in SUBSET Servers : X = {}
    OBVIOUS
  <1>3. /\ \A x \in X : tx'[x] = Idle
        /\ \A y \in Servers \ X : tx'[y] = tx[y] /\ D \cap tx[y].held = {}
        /\ \A y \in Servers \ X : tx[y].op \in {"claim", "claimed"} =>
               told'[tx[y].owner] = told[tx[y].owner]
    BY <1>1, <1>2
  <1>4. /\ \A q \in RunIds \ D : runs'[q] = runs[q]
        /\ \A k \in Keys : k[1] \notin D =>
               steps'[k] = steps[k] /\ event_waiters'[k] = event_waiters[k]
    BY <1>1
  <1>5. \A q \in D : RowOK(q)' /\ Knows(q)'
    BY <1>1, Zenon
  <1>6. \A k \in Keys : k[1] \in D => WaitOK(k)'
    BY <1>1, Zenon
  <1> QED
    BY <1>3, <1>4, <1>5, <1>6, Effect

(* An answer that goes with no write. *)
LEMMA NothingWritten ==
    ASSUME IInv, Typed', tx' = tx, clock' = clock, runs' = runs, steps' = steps,
           event_waiters' = event_waiters,
           \A y \in Servers : tx[y].op \in {"claim", "claimed"} =>
               told'[tx[y].owner] = told[tx[y].owner],
           \A o \in Owners : told[o] # "none" =>
               told'[o] # "none" /\ given'[o] = given[o] /\ saved[o] \subseteq saved'[o]
    PROVE  IInv'
  <1>1. PICK D \in SUBSET RunIds : D = {}
    OBVIOUS
  <1>2. PICK X \in SUBSET Servers : X = {}
    OBVIOUS
  <1>3. /\ \A x \in X : tx'[x] = Idle
        /\ \A y \in Servers \ X : tx'[y] = tx[y] /\ D \cap tx[y].held = {}
        /\ \A y \in Servers \ X : tx[y].op \in {"claim", "claimed"} =>
               told'[tx[y].owner] = told[tx[y].owner]
    BY <1>1, <1>2
  <1>4. \A q \in D : RowOK(q)' /\ Knows(q)'
    BY <1>1, Zenon
  <1>5. \A k \in Keys : k[1] \in D => WaitOK(k)'
    BY <1>1, Zenon
  <1> QED
    BY <1>3, <1>4, <1>5, Effect

-----------------------------------------------------------------------------
(* Transactions of one statement. *)

(* A run that is running has no waiter, and one that is not there neither. *)
LEMMA NoWaiters ==
    ASSUME IInv, NEW r \in RunIds, runs[r].status # "pending", NEW k \in Keys, k[1] = r
    PROVE  event_waiters[k] = NULL
  BY DEF IInv, WaitOK, Waiting

(* The owner of a run was answered. *)
LEMMA OwnerKnown ==
    ASSUME IInv, NEW o, NEW r \in RunIds, Owns(o, r)
    PROVE  /\ o \in Owners /\ told[o] # "none" /\ runs[r] \in Row
           /\ runs[r].status = "running" /\ runs[r].worker_id = o
           /\ runs[r].attempts >= 1 /\ runs[r].lease_until \in Nat
  BY TableFacts DEF IInv, RowOK, Owns

(* Enqueue inserts a row that nobody has locked. *)
LEMMA EnqueueStep ==
    ASSUME IInv, NEW r \in RunIds, NEW at \in Deadlines \cup Readings, Enqueue(r, at)
    PROVE  IInv'
  <1> USE DEF Enqueue, history
  <1> DEFINE row == [NoRow EXCEPT !.status = "pending", !.run_at = at]
  <1>1. at \in Nat
    <2>1. at \in Deadlines => at \in Nat
      BY ConstantsAssumption
    <2>2. at \in Readings => at \in Nat
      BY ReadingsType DEF IInv
    <2> QED
      BY <2>1, <2>2
  <1>2. row \in Row /\ row.status = "pending" /\ row.worker_id = NULL
    BY <1>1 DEF NoRow, Row
  <1>3. runs' = [runs EXCEPT ![r] = row] /\ runs \in [RunIds -> Row]
    BY TableFacts
  <1> HIDE DEF row
  <1>4. runs' \in [RunIds -> Row] /\ runs'[r] = row /\ \A q \in RunIds \ {r} : runs'[q] = runs[q]
    BY <1>2, <1>3
  <1>5. Typed'
    BY <1>4, TableFacts, TypedFrom DEF IInv, Typed, TypeOK
  <1>6. RowOK(r)' /\ Knows(r)'
    BY <1>2, <1>4 DEF RowOK, Knows
  <1>7. ASSUME NEW k \in Keys, k[1] = r PROVE WaitOK(k)'
    <2>1. event_waiters'[k] = NULL
      BY <1>7, NoWaiters
    <2> QED
      BY <2>1 DEF WaitOK, Waiting
  <1>8. \A y \in Servers : tx'[y] = tx[y] /\ {r} \cap tx[y].held = {}
    BY DEF Locked
  <1> HIDE DEF Enqueue
  <1>9. /\ tx' = tx /\ clock' = clock /\ told' = told /\ given' = given /\ saved' = saved
        /\ steps' = steps /\ event_waiters' = event_waiters
    BY DEF Enqueue
  <1> QED
    BY <1>4, <1>5, <1>6, <1>7, <1>8, <1>9, OneRow

(* update_running: the owner of a run rewrites its row and is answered.     *)
LEMMA UpdateStep ==
    ASSUME IInv, NEW o \in Owners, NEW r \in RunIds, NEW row \in Row,
           NEW a \in {"open", "retry", "parked", "stale"} \cup Terminal,
           UpdateRunning(o, r, row, a),
           row.status = "running" =>
               row.worker_id = o /\ row.lease_until \in Nat /\ row.attempts >= 1,
           row.status # "running" => row.worker_id = NULL
    PROVE  IInv'
  <1>a. /\ runs' = [runs EXCEPT ![r] = row] /\ told' = [told EXCEPT ![o] = a] /\ Owns(o, r)
        /\ tx' = tx /\ clock' = clock /\ given' = given /\ saved' = saved /\ steps' = steps
        /\ event_waiters' = event_waiters /\ \A y \in Servers : r \notin tx[y].held
    BY DEF UpdateRunning, Locked
  <1>b. /\ told[o] # "none" /\ runs[r].status = "running" /\ runs[r].worker_id = o
        /\ a # "none"
    BY <1>a, OwnerKnown DEF Terminal
  <1>4. runs' \in [RunIds -> Row] /\ runs'[r] = row /\ \A q \in RunIds \ {r} : runs'[q] = runs[q]
    BY <1>a, TableFacts
  <1>c. /\ told' \in [Owners -> {"none", "open", "retry", "parked", "stale"} \cup Terminal]
        /\ told'[o] = a /\ \A p \in Owners \ {o} : told'[p] = told[p]
    BY <1>a, TableFacts
  <1>5. Typed'
    BY <1>a, <1>4, <1>c, TableFacts, TypedFrom DEF IInv, Typed, TypeOK
  <1>6. RowOK(r)' /\ Knows(r)'
    <2>1. RowOK(r)'
      BY <1>4, <1>b, <1>c DEF RowOK
    <2>2. Knows(r)
      BY DEF IInv
    <2> QED
      BY <1>4, <1>a, <1>b, <2>1, <2>2 DEF Knows
  <1>7. ASSUME NEW k \in Keys, k[1] = r PROVE WaitOK(k)'
    <2>1. event_waiters'[k] = NULL
      BY <1>7, <1>a, <1>b, NoWaiters
    <2> QED
      BY <2>1 DEF WaitOK, Waiting
  <1>8. \A y \in Servers : tx'[y] = tx[y] /\ {r} \cap tx[y].held = {}
    BY <1>a
  <1>9. \A y \in Servers : tx[y].op \in {"claim", "claimed"} =>
            told'[tx[y].owner] = told[tx[y].owner]
    BY <1>b, <1>c, TxFacts
  <1>11. \A p \in Owners : told[p] # "none" =>
            told'[p] # "none" /\ given'[p] = given[p] /\ saved[p] \subseteq saved'[p]
    BY <1>a, <1>b, <1>c
  <1> QED
    BY <1>4, <1>5, <1>6, <1>7, <1>8, <1>9, <1>11, <1>a, OneRow

(* The owner's single statements. *)
LEMMA OwnerUpdates ==
    ASSUME IInv, NEW o \in Owners, NEW r \in RunIds,
           \/ \E t \in Readings, ms \in LeaseMs : Heartbeat(o, r, t, ms)
           \/ \E status \in Terminal : Finish(o, r, status)
           \/ \E at \in Deadlines : FailRetry(o, r, at)
           \/ \E at \in Deadlines \cup {NULL} : Defer(o, r, at)
    PROVE  IInv'
  <1>a. Owns(o, r)
    BY DEF Heartbeat, Finish, FailRetry, Defer, UpdateRunning
  <1>b. /\ runs[r] \in Row /\ runs[r].status = "running" /\ runs[r].worker_id = o
        /\ runs[r].attempts >= 1
    BY <1>a, OwnerKnown
  <1>1. CASE \E t \in Readings, ms \in LeaseMs : Heartbeat(o, r, t, ms)
    <2>1. PICK t \in Readings, ms \in LeaseMs : Heartbeat(o, r, t, ms)
      BY <1>1
    <2>2. LeaseUntil(t, ms) \in Nat
      BY ReadingsType, LeaseUntilType DEF IInv
    <2> DEFINE row == [runs[r] EXCEPT !.lease_until = LeaseUntil(t, ms)]
    <2>3. /\ row \in Row /\ row.status = "running" /\ row.worker_id = o
          /\ row.lease_until \in Nat /\ row.attempts >= 1
      BY <1>b, <2>2, RenewedRow
    <2>4. UpdateRunning(o, r, row, "open")
      BY <2>1 DEF Heartbeat
    <2> HIDE DEF row
    <2> QED
      BY <2>3, <2>4, UpdateStep
  <1>2. CASE \E status \in Terminal : Finish(o, r, status)
    <2>1. PICK status \in Terminal : Finish(o, r, status)
      BY <1>2
    <2> DEFINE row == Left(runs[r], status)
    <2>2. row \in Row /\ row.status = status /\ row.worker_id = NULL
      BY <1>b, LeftRow
    <2>3. UpdateRunning(o, r, row, status) /\ status # "running"
      BY <2>1 DEF Finish, Terminal
    <2> HIDE DEF row
    <2> QED
      BY <2>2, <2>3, UpdateStep
  <1>3. CASE \E at \in Deadlines : FailRetry(o, r, at)
    <2>1. PICK at \in Deadlines : FailRetry(o, r, at)
      BY <1>3
    <2> DEFINE row == Rescheduled(runs[r], at)
    <2>2. row \in Row /\ row.status = "pending" /\ row.worker_id = NULL
      <3>1. at \in Nat
        BY ConstantsAssumption
      <3> QED
        BY <1>b, <3>1, RescheduledRow
    <2>3. UpdateRunning(o, r, row, "retry")
      BY <2>1 DEF FailRetry
    <2> HIDE DEF row
    <2> QED
      BY <2>2, <2>3, UpdateStep
  <1>4. CASE \E at \in Deadlines \cup {NULL} : Defer(o, r, at)
    <2>1. PICK at \in Deadlines \cup {NULL} : Defer(o, r, at)
      BY <1>4
    <2> DEFINE row == Parked(runs[r], at)
    <2>2. row \in Row /\ row.status = "pending" /\ row.worker_id = NULL
      BY <1>b, ParkedRow
    <2>3. UpdateRunning(o, r, row, "parked")
      BY <2>1 DEF Defer
    <2> HIDE DEF row
    <2> QED
      BY <2>2, <2>3, UpdateStep
  <1> QED
    BY <1>1, <1>2, <1>3, <1>4

(* A refused caller is told so. *)
LEMMA StaleStep ==
    ASSUME IInv, NEW o \in Owners, StaleCall(o)
    PROVE  IInv'
  <1>a. /\ told[o] = "open" /\ told' = [told EXCEPT ![o] = "stale"]
        /\ tx' = tx /\ clock' = clock /\ given' = given /\ saved' = saved
        /\ runs' = runs /\ steps' = steps /\ event_waiters' = event_waiters
    BY DEF StaleCall, tables
  <1>b. /\ told' \in [Owners -> {"none", "open", "retry", "parked", "stale"} \cup Terminal]
        /\ told'[o] = "stale" /\ \A p \in Owners \ {o} : told'[p] = told[p]
    BY <1>a, TableFacts
  <1>1. Typed'
    BY <1>a, <1>b, TableFacts, TypedFrom DEF IInv, Typed, TypeOK
  <1>2. \A y \in Servers : tx[y].op \in {"claim", "claimed"} =>
            told'[tx[y].owner] = told[tx[y].owner]
    BY <1>a, <1>b, TxFacts
  <1>3. \A p \in Owners : told[p] # "none" =>
            told'[p] # "none" /\ given'[p] = given[p] /\ saved[p] \subseteq saved'[p]
    BY <1>a, <1>b
  <1> QED
    BY <1>1, <1>2, <1>3, <1>a, NothingWritten

(* Time passes. *)
LEMMA TickStep ==
    ASSUME IInv, Tick
    PROVE  IInv'
  <1> USE DEF Tick, tables, history
  <1>1. clock \in Nat /\ clock' \in 0..MaxTime /\ clock' \in Nat /\ clock <= clock'
    BY ConstantsAssumption DEF IInv, Typed, TypeOK
  <1>2. Typed'
    BY <1>1, TableFacts, TypedFrom DEF IInv, Typed
  <1>3. ASSUME NEW y \in Servers PROVE TxOK(y)'
    BY <1>1, TxFrame DEF IInv
  <1>4. ASSUME NEW r \in RunIds PROVE RowOK(r)' /\ Knows(r)'
    BY RunFrame
  <1>5. ASSUME NEW k \in Keys PROVE WaitOK(k)'
    BY DEF IInv, WaitOK, Waiting
  <1>6. Locks' /\ FreshOwners'
    BY DEF IInv, Locks, FreshOwners
  <1> QED
    BY <1>2, <1>3, <1>4, <1>5, <1>6 DEF IInv

-----------------------------------------------------------------------------
(* Transactions of several statements begin and go on. *)

(* The empty tables satisfy the invariant. *)
LEMMA InitIInv == Init => IInv
  <1> SUFFICES ASSUME Init PROVE IInv
    OBVIOUS
  <1> USE DEF Init
  <1>1. Typed
    <2>1. tx \in [Servers -> Transaction] /\ \A x \in Servers : tx[x] = Idle
      BY IdleTransaction
    <2>2. runs \in [RunIds -> Row]
      BY AbsentRow
    <2>3. ASSUME NEW x \in Servers
          PROVE  /\ tx[x].op \in Ops /\ tx[x].held \subseteq RunIds
                 /\ tx[x].rows \in [RunIds -> Row \cup {NULL}]
      BY <2>1, IdleTransaction DEF Ops, NoRows
    <2>4. clock \in 0..MaxTime
      BY ConstantsAssumption
    <2> QED
      BY <2>1, <2>2, <2>3, <2>4 DEF Typed, TypeOK, Ops
  <1>2. ASSUME NEW r \in RunIds PROVE RowOK(r) /\ Knows(r)
    <2>1. runs[r] = NoRow
      OBVIOUS
    <2> QED
      BY <2>1, AbsentRow DEF RowOK, Knows
  <1>3. ASSUME NEW k \in Keys PROVE WaitOK(k)
    BY DEF WaitOK, Waiting
  <1>4. ASSUME NEW x \in Servers PROVE TxOK(x)
    <2>1. tx[x] = Idle
      OBVIOUS
    <2> QED
      BY <2>1, IdleTransaction DEF TxOK, Covered, NoRows, NoPuts
  <1>5. Locks /\ FreshOwners
    <2>1. \A x \in Servers : tx[x] = Idle
      OBVIOUS
    <2> QED
      BY <2>1, IdleTransaction DEF Locks, FreshOwners
  <1> QED
    BY <1>1, <1>2, <1>3, <1>4, <1>5 DEF IInv

(* claim, first statement: the oldest due run is locked and rewritten. *)
LEMMA ClaimRowStep ==
    ASSUME IInv, NEW x \in Servers, NEW o \in Owners, NEW r \in RunIds,
           NEW t \in Readings, NEW ms \in LeaseMs, ClaimRow(x, o, r, t, ms)
    PROVE  IInv'
  <1> USE DEF ClaimRow
  <1>1. t \in Nat /\ t <= clock
    BY ReadingsType DEF IInv
  <1>2. LeaseUntil(t, ms) \in Nat
    BY <1>1, LeaseUntilType
  <1>3. PICK lease \in Nat : lease = LeaseUntil(t, ms)
    BY <1>2
  <1> DEFINE row == Claimed(runs[r], o, lease)
             rows == [NoRows EXCEPT ![r] = row]
             c == [Idle EXCEPT !.op = "claim", !.t = t, !.owner = o, !.held = {r}, !.rows = rows]
  <1>4. runs[r] \in Row /\ row \in Row /\ row.lease_until = lease
    BY TableFacts, ClaimedRow
  <1>5. /\ rows \in [RunIds -> Row \cup {NULL}] /\ rows[r] = row
        /\ \A q \in RunIds \ {r} : rows[q] = NULL
    <2> HIDE DEF row
    <2> QED
      BY <1>4 DEF NoRows
  <1>6. tx' = [tx EXCEPT ![x] = c]
    <2>1. c = [Idle EXCEPT !.op = "claim", !.t = t, !.owner = o, !.held = {r},
                           !.rows[r] = Claimed(runs[r], o, LeaseUntil(t, ms))]
      BY <1>3, IdleTransaction
    <2> QED
      BY <2>1 DEF Begin
  <1> HIDE DEF rows, row
  <1>7. /\ c \in Transaction /\ c.op = "claim" /\ c.t = t /\ c.owner = o /\ c.held = {r}
        /\ c.rows = rows /\ c.puts = NoPuts /\ c.dels = {}
    BY <1>1, <1>5, IdleTransaction DEF Idle, Transaction, Ops
  <1> HIDE DEF c
  <1>8. tx'[x] = c
    BY <1>6, TxFacts
  <1>9. /\ runs' = runs /\ told' = told /\ clock' = clock /\ runs[r].status = "pending"
        /\ runs[r].run_at <= t /\ told[o] = "none" /\ UNCHANGED <<tables, clock, history>>
        /\ \A y \in Servers : r \notin tx[y].held /\ tx[y].owner # o
    BY DEF tables, history, Due, Locked
  <1>10. TxOK(x)'
    <2>1. Covered(c)
      BY <1>5, <1>7 DEF Covered, NoPuts
    <2>2. c.rows[r] = Claimed(runs'[r], c.owner, c.rows[r].lease_until)
      BY <1>4, <1>5, <1>7, <1>9 DEF row
    <2>3. \E q \in RunIds :
             /\ c.held = {q} /\ runs'[q].status = "pending" /\ runs'[q].run_at <= c.t
             /\ c.rows[q].lease_until \in Nat
             /\ c.rows[q] = Claimed(runs'[q], c.owner, c.rows[q].lease_until)
      BY <1>4, <1>5, <1>7, <1>9, <2>2
    <2>4. \A k \in Keys : c.puts[k] = NULL
      BY <1>7 DEF NoPuts
    <2> QED
      BY <1>1, <1>7, <1>8, <1>9, <2>1, <2>3, <2>4 DEF TxOK, ClaimOK, Covered, NoPuts
  <1>11. \A y \in Servers \ {x} : c.held \cap tx[y].held = {} /\ tx[y].owner # c.owner
    BY <1>7, <1>9
  <1> HIDE DEF ClaimRow
  <1> QED
    BY <1>6, <1>7, <1>9, <1>10, <1>11, OneTransaction

(* claim, second statement: the results of the waits that timed out. *)
LEMMA ClaimWaitsStep ==
    ASSUME IInv, NEW x \in Servers, ClaimWaits(x)
    PROVE  IInv'
  <1> DEFINE puts == [k \in Keys |-> IF k \in ExpiredWaits(x) THEN JsonNull ELSE NULL]
             c == [tx[x] EXCEPT !.op = "claimed", !.puts = puts]
  <1>1. /\ puts \in [Keys -> Values] /\ \A k \in Keys : puts[k] \in {NULL, JsonNull}
        /\ \A k \in Keys : puts[k] # NULL => k[1] \in tx[x].held
    BY DEF ExpiredWaits, Values
  <1>2. tx' = [tx EXCEPT ![x] = c] /\ tx[x].op = "claim" /\ UNCHANGED <<tables, clock, history>>
    BY DEF ClaimWaits, Continue
  <1> HIDE DEF puts
  <1>3. tx[x] \in Transaction /\ TxOK(x)
    BY TxFacts
  <1>4. /\ c \in Transaction /\ c.op = "claimed" /\ c.puts = puts /\ c.t = tx[x].t
        /\ c.owner = tx[x].owner /\ c.held = tx[x].held /\ c.rows = tx[x].rows
        /\ c.dels = tx[x].dels
    BY <1>1, <1>3 DEF Transaction, Ops
  <1> HIDE DEF c
  <1>5. tx'[x] = c /\ runs' = runs /\ told' = told /\ clock' = clock
    BY <1>2, TxFacts DEF tables, history
  <1>6. TxOK(x)'
    <2>1. ClaimOK(tx[x]) /\ Covered(tx[x])
      BY <1>2, <1>3 DEF TxOK
    <2>2. PICK r \in RunIds :
             /\ tx[x].held = {r} /\ runs[r].status = "pending" /\ runs[r].run_at <= tx[x].t
             /\ tx[x].rows[r].lease_until \in Nat
             /\ tx[x].rows[r] = Claimed(runs[r], tx[x].owner, tx[x].rows[r].lease_until)
      BY <2>1 DEF ClaimOK
    <2>3. \E q \in RunIds :
             /\ c.held = {q} /\ runs'[q].status = "pending" /\ runs'[q].run_at <= c.t
             /\ c.rows[q].lease_until \in Nat
             /\ c.rows[q] = Claimed(runs'[q], c.owner, c.rows[q].lease_until)
      BY <1>4, <1>5, <2>2
    <2>4. Covered(c)
      BY <1>1, <1>4, <2>1 DEF Covered, ClaimOK
    <2>5. /\ c.owner \in Owners /\ told'[c.owner] = "none" /\ c.t <= clock' /\ c.dels = {}
          /\ \A k \in Keys : c.puts[k] \in {NULL, JsonNull}
      BY <1>1, <1>4, <1>5, <2>1 DEF ClaimOK
    <2> QED
      BY <1>4, <1>5, <2>3, <2>4, <2>5 DEF TxOK, ClaimOK, Covered
  <1>7. /\ \A y \in Servers \ {x} : c.held \cap tx[y].held = {}
        /\ \A y \in Servers \ {x} : tx[y].owner # c.owner
    BY <1>2, <1>4 DEF IInv, Locks, FreshOwners
  <1> QED
    BY <1>2, <1>4, <1>6, <1>7, OneTransaction

(* The owner of a run is no fresh owner of a claim. *)
LEMMA OwnerNotFresh ==
    ASSUME IInv, NEW o, NEW r \in RunIds, Owns(o, r), NEW y \in Servers,
           tx[y].op \in {"claim", "claimed"}
    PROVE  tx[y].owner # o
  BY TxFacts, OwnerKnown

(* save_step, first statement: the owner's row is locked. *)
LEMMA SaveCheckStep ==
    ASSUME IInv, NEW x \in Servers, NEW o \in Owners, NEW r \in RunIds, SaveCheck(x, o, r)
    PROVE  IInv'
  <1> DEFINE c == [Idle EXCEPT !.op = "save", !.owner = o, !.todo = {r}, !.held = {r}]
  <1>1. /\ tx' = [tx EXCEPT ![x] = c] /\ UNCHANGED <<tables, clock, history>>
        /\ Owns(o, r) /\ \A y \in Servers : r \notin tx[y].held
    BY DEF SaveCheck, Begin, Locked
  <1>2. /\ c \in Transaction /\ c.op = "save" /\ c.owner = o /\ c.todo = {r} /\ c.held = {r}
        /\ c.rows = NoRows /\ c.puts = NoPuts /\ c.dels = {}
    BY IdleTransaction DEF Idle, Transaction, Ops
  <1> HIDE DEF c
  <1>3. tx'[x] = c /\ runs' = runs
    BY <1>1, TxFacts DEF tables
  <1>4. TxOK(x)'
    <2>1. Covered(c)
      BY <1>2 DEF Covered, NoPuts, NoRows
    <2>2. \E q \in RunIds : c.held = {q} /\ c.todo = {q}
                            /\ runs'[q].status = "running" /\ runs'[q].worker_id = c.owner
      BY <1>1, <1>2, <1>3 DEF Owns
    <2> QED
      BY <1>2, <1>3, <2>1, <2>2 DEF TxOK, SaveOK, Covered, Owns, NoRows, NoPuts
  <1>5. \A y \in Servers \ {x} : c.held \cap tx[y].held = {}
    BY <1>1, <1>2
  <1>6. \A y \in Servers \ {x} : tx[y].op \in {"claim", "claimed"} => tx[y].owner # c.owner
    BY <1>1, <1>2, OwnerNotFresh
  <1> QED
    BY <1>1, <1>2, <1>4, <1>5, <1>6, OneTransaction

(* wait_for_event, first statement: the run is parked. *)
LEMMA WaitParkStep ==
    ASSUME IInv, NEW x \in Servers, NEW o \in Owners, NEW r \in RunIds,
           NEW d \in Deadlines \cup {NULL}, WaitPark(x, o, r, d)
    PROVE  IInv'
  <1> DEFINE row == Parked(runs[r], d)
             rows == [NoRows EXCEPT ![r] = row]
             c == [Idle EXCEPT !.op = "wait", !.owner = o, !.held = {r}, !.rows = rows]
  <1>1. /\ tx' = [tx EXCEPT ![x] = c] /\ UNCHANGED <<tables, clock, history>>
        /\ Owns(o, r) /\ \A y \in Servers : r \notin tx[y].held
    <2>1. c = [Idle EXCEPT !.op = "wait", !.owner = o, !.held = {r}, !.rows[r] = Parked(runs[r], d)]
      BY IdleTransaction
    <2> QED
      BY <2>1 DEF WaitPark, Begin, Locked
  <1>2. row \in Row
    BY <1>1, OwnerKnown, ParkedRow
  <1>3. /\ rows \in [RunIds -> Row \cup {NULL}] /\ rows[r] = row
        /\ \A q \in RunIds \ {r} : rows[q] = NULL
    <2> HIDE DEF row
    <2> QED
      BY <1>2 DEF NoRows
  <1> HIDE DEF row, rows
  <1>4. /\ c \in Transaction /\ c.op = "wait" /\ c.owner = o /\ c.held = {r}
        /\ c.rows = rows /\ c.puts = NoPuts /\ c.dels = {}
    BY <1>3, IdleTransaction DEF Idle, Transaction, Ops
  <1> HIDE DEF c
  <1>5. tx'[x] = c /\ runs' = runs
    BY <1>1, TxFacts DEF tables
  <1>6. TxOK(x)'
    <2>1. Covered(c)
      BY <1>3, <1>4 DEF Covered, NoPuts
    <2>2. c.rows[r] = Parked(runs'[r], d)
      BY <1>3, <1>4, <1>5 DEF row
    <2>3. \E q \in RunIds, e \in Deadlines \cup {NULL} :
             /\ c.held = {q} /\ runs'[q].status = "running" /\ runs'[q].worker_id = c.owner
             /\ c.rows[q] = Parked(runs'[q], e)
      BY <1>1, <1>4, <1>5, <2>2 DEF Owns
    <2> QED
      BY <1>4, <1>5, <2>1, <2>3 DEF TxOK, ParkOK, Covered, Owns, NoPuts
  <1>7. \A y \in Servers \ {x} : c.held \cap tx[y].held = {}
    BY <1>1, <1>4
  <1>8. \A y \in Servers \ {x} : tx[y].op \in {"claim", "claimed"} => tx[y].owner # c.owner
    BY <1>1, <1>4, OwnerNotFresh
  <1> QED
    BY <1>1, <1>4, <1>6, <1>7, <1>8, OneTransaction

(* A statement that only changes its own transaction, which claims nothing. *)
LEMMA OwnLocks ==
    ASSUME IInv, NEW x \in Servers, NEW c \in Transaction,
           tx' = [tx EXCEPT ![x] = c], UNCHANGED <<tables, clock, history>>,
           TxOK(x)', c.op \notin {"claim", "claimed"}, c.owner \in {NULL, tx[x].owner},
           \A r \in c.held : r \in tx[x].held \/ ~LockedForOthers(x, r)
    PROVE  IInv'
  <1>1. \A y \in Servers \ {x} : c.held \cap tx[y].held = {}
    BY DEF LockedForOthers, IInv, Locks
  <1>2. ASSUME NEW y \in Servers \ {x}, tx[y].op \in {"claim", "claimed"}
        PROVE  tx[y].owner # c.owner
    <2>1. tx[y].owner # NULL
      BY <1>2, TxFacts, ConstantsAssumption
    <2>2. tx[y].owner # tx[x].owner
      BY <1>2 DEF IInv, FreshOwners
    <2> QED
      BY <2>1, <2>2
  <1> QED
    BY <1>1, <1>2, OneTransaction

(* signal, first statement: the waiters are only read. *)
LEMMA SignalFindStep ==
    ASSUME IInv, NEW x \in Servers, NEW e \in Events, NEW v \in Results, NEW t \in Readings,
           SignalFind(x, e, v, t)
    PROVE  IInv'
  <1> DEFINE f == {k \in Keys : event_waiters[k] # NULL /\ event_waiters[k].event = e}
  <1>1. PICK found \in SUBSET Keys : found = f
    OBVIOUS
  <1> DEFINE c == [Idle EXCEPT !.op = "signal", !.t = t, !.event = e, !.value = v, !.todo = found]
  <1>2. tx' = [tx EXCEPT ![x] = c] /\ UNCHANGED <<tables, clock, history>>
    BY <1>1 DEF SignalFind, Begin
  <1>3. t \in Nat
    BY ReadingsType DEF IInv
  <1> HIDE DEF f
  <1>4. /\ c \in Transaction /\ c.op = "signal" /\ c.value = v /\ c.todo = found /\ c.held = {}
        /\ c.rows = NoRows /\ c.puts = NoPuts /\ c.dels = {} /\ c.owner = NULL
    BY <1>3, IdleTransaction DEF Idle, Transaction, Ops
  <1> HIDE DEF c
  <1>5. tx'[x] = c
    BY <1>2, TxFacts
  <1>6. TxOK(x)'
    BY <1>4, <1>5 DEF TxOK, SignalOK, Covered, NoRows, NoPuts
  <1> QED
    BY <1>2, <1>4, <1>6, OwnLocks

(* The next run of a signal is one of those it found, and the least.        *)
LEMMA NextRunLeast ==
    ASSUME IInv, NEW x \in Servers, tx[x].op = "signal", tx[x].todo # {}
    PROVE  /\ NextRun(x) \in RunIds /\ NextRun(x) \in Nat
           /\ \A k \in tx[x].todo : NextRun(x) <= k[1]
           /\ \A q \in tx[x].held : q < NextRun(x)
           /\ NextRun(x) \notin tx[x].held /\ tx[x].rows[NextRun(x)] = NULL
  <1> DEFINE S == {k[1] : k \in tx[x].todo}
  <1>1. SignalOK(tx[x]) /\ Covered(tx[x]) /\ tx[x].held \in SUBSET RunIds
    BY TxFacts DEF TxOK
  <1>2. S \in SUBSET RunIds /\ S # {} /\ RunIds \subseteq Nat
    BY <1>1, ConstantsAssumption DEF SignalOK, Keys
  <1>3. PICK r : r = NextRun(x)
    OBVIOUS
  <1>4. r \in S /\ \A y \in S : r <= y
    <2> HIDE DEF S
    <2>1. Min(S) \in S /\ \A y \in S : Min(S) <= y
      BY <1>2, LeastExists
    <2> QED
      BY <1>3, <2>1 DEF NextRun, S
  <1>5. PICK k \in tx[x].todo : r = k[1]
    BY <1>4
  <1>6. \A q \in tx[x].held : q < r
    BY <1>1, <1>5 DEF SignalOK
  <1>7. r \in RunIds /\ r \in Nat
    BY <1>2, <1>4
  <1>8. r \notin tx[x].held
    BY <1>6, <1>7
  <1>9. tx[x].rows[r] = NULL
    BY <1>1, <1>7, <1>8 DEF Covered
  <1> QED
    BY <1>3, <1>4, <1>6, <1>7, <1>8, <1>9

(* signal, one run: it is locked, its waiters consumed and the run woken.   *)
LEMMA SignalNextStep ==
    ASSUME IInv, NEW x \in Servers, SignalNext(x)
    PROVE  IInv'
  <1>0. tx[x].op = "signal" /\ tx[x].todo # {}
    BY DEF SignalNext
  <1>1. PICK r \in RunIds : r = NextRun(x)
    BY <1>0, NextRunLeast
  <1>2. /\ r \in Nat /\ \A k \in tx[x].todo : r <= k[1]
        /\ r \notin tx[x].held /\ tx[x].rows[r] = NULL
    BY <1>0, <1>1, NextRunLeast
  <1>3. /\ tx[x] \in Transaction /\ tx[x].t \in Nat /\ tx[x].dels \in SUBSET Keys
        /\ tx[x].rows \in [RunIds -> Row \cup {NULL}] /\ tx[x].puts \in [Keys -> Values]
        /\ tx[x].held \in SUBSET RunIds /\ Covered(tx[x]) /\ SignalOK(tx[x])
    BY <1>0, TxFacts DEF TxOK
  <1>4. tx[x].todo \in SUBSET Keys /\ tx[x].value \in Results
    BY <1>3 DEF SignalOK
  <1>5. PICK hit \in SUBSET Keys : hit = Consumed(x, r)
    BY <1>4 DEF Consumed
  <1>6. \A k \in hit : k[1] = r /\ Waiting(k) /\ k \in tx[x].todo
    BY <1>5 DEF Consumed, Waiting
  <1>7. hit # {} => runs[r].status = "pending"
    BY <1>6 DEF IInv, WaitOK
  <1>8. PICK woken \in Row : woken = [runs[r] EXCEPT !.run_at = tx[x].t]
    <2>1. runs[r] \in Row
      BY TableFacts
    <2> QED
      BY <1>3, <2>1, WokenRow
  <1>9. PICK todo \in SUBSET Keys : todo = {k \in tx[x].todo : k[1] # r}
    BY <1>4
  <1>10. PICK held \in SUBSET RunIds :
            held = IF runs[r].status = "absent" THEN tx[x].held ELSE tx[x].held \cup {r}
    BY <1>3
  <1>11. PICK dels \in SUBSET Keys : dels = tx[x].dels \cup hit
    BY <1>3
  <1>12. PICK puts \in [Keys -> Values] :
            puts = [k \in Keys |-> IF k \in hit THEN tx[x].value ELSE tx[x].puts[k]]
    BY <1>3, <1>4 DEF Values
  <1>13. PICK rows \in [RunIds -> Row \cup {NULL}] :
            rows = [tx[x].rows EXCEPT ![r] = IF hit # {} /\ runs[r].status = "pending"
                                             THEN woken ELSE tx[x].rows[r]]
    BY <1>3
  <1> DEFINE c == [tx[x] EXCEPT !.todo = todo, !.held = held, !.dels = dels, !.puts = puts,
                                !.rows = rows]
  <1>14. /\ tx' = [tx EXCEPT ![x] = c] /\ UNCHANGED <<tables, clock, history>>
         /\ ~LockedForOthers(x, r)
    BY <1>1, <1>5, <1>8, <1>9, <1>10, <1>11, <1>12, <1>13 DEF SignalNext, Continue
  <1>15. /\ c \in Transaction /\ c.op = "signal" /\ c.t = tx[x].t /\ c.value = tx[x].value
         /\ c.todo = todo /\ c.held = held /\ c.dels = dels /\ c.puts = puts /\ c.rows = rows
         /\ c.owner = tx[x].owner
    BY ONLY <1>0, <1>3, todo \in SUBSET Keys, held \in SUBSET RunIds, dels \in SUBSET Keys,
            puts \in [Keys -> Values], rows \in [RunIds -> Row \cup {NULL}] DEF Transaction
  <1> HIDE DEF c
  <1>16. tx'[x] = c /\ runs' = runs /\ event_waiters' = event_waiters
    BY <1>14, TxFacts DEF tables
  <1>17. rows[r] = (IF hit # {} THEN woken ELSE NULL) /\ \A q \in RunIds \ {r} : rows[q] = tx[x].rows[q]
    BY <1>2, <1>3, <1>7, <1>13
  <1>18. woken # NULL
    BY NullAssumption
  <1>19. Covered(c)
    <2>1. \A q \in RunIds : rows[q] # NULL => q \in held
      BY <1>3, <1>7, <1>10, <1>17 DEF Covered
    <2>2. \A k \in Keys : puts[k] # NULL \/ k \in dels => k[1] \in held
      BY <1>3, <1>6, <1>7, <1>10, <1>11, <1>12 DEF Covered
    <2> QED
      BY <1>15, <2>1, <2>2 DEF Covered
  <1>20. ASSUME NEW q \in held, NEW k \in todo PROVE q < k[1]
    <2>1. k \in tx[x].todo /\ k[1] # r /\ k[1] \in Nat
      BY <1>4, <1>9, ConstantsAssumption DEF Keys
    <2>2. CASE q \in tx[x].held
      BY <1>3, <2>1, <2>2 DEF SignalOK
    <2>3. CASE q = r
      BY <1>2, <2>1, <2>3
    <2> QED
      BY <1>10, <2>2, <2>3
  <1>21. ASSUME NEW k \in Keys
         PROVE  IF k \in dels THEN Waiting(k) /\ puts[k] = tx[x].value /\ rows[k[1]] # NULL
                              ELSE puts[k] = NULL
    <2>0. k[1] \in RunIds
      BY DEF Keys
    <2>1. CASE k \in hit
      BY <1>6, <1>11, <1>12, <1>17, <1>18, <2>1
    <2>2. CASE k \notin hit /\ k \in tx[x].dels
      <3>1. Waiting(k) /\ tx[x].puts[k] = tx[x].value /\ tx[x].rows[k[1]] # NULL
        BY <1>3, <2>2 DEF SignalOK
      <3>2. k[1] # r
        BY <1>2, <3>1
      <3> QED
        BY <1>11, <1>12, <1>17, <2>0, <2>2, <3>1, <3>2
    <2>3. CASE k \notin hit /\ k \notin tx[x].dels
      BY <1>3, <1>11, <1>12, <2>3 DEF SignalOK
    <2> QED
      BY <2>1, <2>2, <2>3
  <1>22. ASSUME NEW q \in RunIds, rows[q] # NULL
         PROVE  /\ runs[q].status = "pending" /\ rows[q] = [runs[q] EXCEPT !.run_at = tx[x].t]
                /\ \E k \in dels : k[1] = q
    <2>1. CASE q = r
      BY <1>6, <1>7, <1>8, <1>11, <1>17, <1>22, <2>1
    <2>2. CASE q # r
      <3>1. rows[q] = tx[x].rows[q]
        BY <1>17, <2>2
      <3>2. /\ runs[q].status = "pending" /\ tx[x].rows[q] = [runs[q] EXCEPT !.run_at = tx[x].t]
            /\ \E k \in tx[x].dels : k[1] = q
        BY <1>3, <1>22, <3>1 DEF SignalOK
      <3> QED
        BY <1>11, <3>1, <3>2
    <2> QED
      BY <2>1, <2>2
  <1>23. SignalOK(c)
    BY <1>4, <1>15, <1>20, <1>21, <1>22 DEF SignalOK
  <1>24. TxOK(x)'
    BY <1>15, <1>16, <1>19, <1>23 DEF TxOK, SignalOK, Covered, Waiting
  <1>25. \A q \in c.held : q \in tx[x].held \/ ~LockedForOthers(x, q)
    BY <1>10, <1>14, <1>15
  <1> QED
    BY <1>14, <1>15, <1>24, <1>25, OwnLocks

(* reclaim, the scan: the expired runs are only read. *)
LEMMA ReclaimFindStep ==
    ASSUME IInv, NEW x \in Servers, NEW t \in Readings, ReclaimFind(x, t)
    PROVE  IInv'
  <1>1. PICK found \in SUBSET RunIds : found = {r \in RunIds : Expired(runs[r], t)}
    OBVIOUS
  <1> DEFINE c == [Idle EXCEPT !.op = "reclaim", !.t = t, !.todo = found]
  <1>2. tx' = [tx EXCEPT ![x] = c] /\ UNCHANGED <<tables, clock, history>>
    BY <1>1 DEF ReclaimFind, Begin
  <1>3. t \in Nat /\ t <= clock
    BY ReadingsType DEF IInv
  <1>4. /\ c \in Transaction /\ c.op = "reclaim" /\ c.t = t /\ c.todo = found /\ c.held = {}
        /\ c.rows = NoRows /\ c.puts = NoPuts /\ c.dels = {} /\ c.owner = NULL
    BY <1>3, IdleTransaction DEF Idle, Transaction, Ops
  <1> HIDE DEF c
  <1>5. tx'[x] = c /\ clock' = clock
    BY <1>2, TxFacts
  <1>6. TxOK(x)'
    BY <1>3, <1>4, <1>5 DEF TxOK, ReclaimOK, Covered, NoRows, NoPuts
  <1> QED
    BY <1>2, <1>4, <1>6, OwnLocks

(* reclaim, one row: locked, looked at again and rewritten. *)
LEMMA ReclaimNextStep ==
    ASSUME IInv, NEW x \in Servers, NEW r \in RunIds, ReclaimNext(x, r)
    PROVE  IInv'
  <1>0. /\ tx[x].op = "reclaim" /\ r \in tx[x].todo /\ ~LockedForOthers(x, r)
        /\ UNCHANGED <<tables, clock, history>>
    BY DEF ReclaimNext
  <1>1. /\ tx[x] \in Transaction /\ tx[x].rows \in [RunIds -> Row \cup {NULL}]
        /\ tx[x].held \in SUBSET RunIds /\ Covered(tx[x]) /\ ReclaimOK(tx[x])
    BY <1>0, TxFacts DEF TxOK
  <1>2. PICK todo \in SUBSET RunIds : todo = tx[x].todo \ {r}
    BY <1>1 DEF ReclaimOK
  <1>3. runs' = runs /\ clock' = clock
    BY <1>0 DEF tables
  <1>4. CASE Recheck(runs[r], tx[x].t)
    <2>1. PICK row \in Row : row = Left(runs[r], "pending")
      BY TableFacts, LeftRow
    <2>2. PICK held \in SUBSET RunIds : held = tx[x].held \cup {r}
      BY <1>1
    <2>3. PICK rows \in [RunIds -> Row \cup {NULL}] : rows = [tx[x].rows EXCEPT ![r] = row]
      BY <1>1
    <2> DEFINE c == [tx[x] EXCEPT !.todo = todo, !.held = held, !.rows = rows]
    <2>4. tx' = [tx EXCEPT ![x] = c]
      BY <1>2, <1>4, <2>1, <2>2, <2>3 DEF ReclaimNext, Continue
    <2>5. /\ c \in Transaction /\ c.op = "reclaim" /\ c.t = tx[x].t /\ c.todo = todo
          /\ c.held = held /\ c.rows = rows /\ c.puts = tx[x].puts /\ c.dels = tx[x].dels
          /\ c.owner = tx[x].owner
      BY ONLY <1>0, <1>1, todo \in SUBSET RunIds, held \in SUBSET RunIds,
              rows \in [RunIds -> Row \cup {NULL}] DEF Transaction
    <2> HIDE DEF c
    <2>6. tx'[x] = c
      BY <2>4, TxFacts
    <2>7. rows[r] = row /\ \A q \in RunIds \ {r} : rows[q] = tx[x].rows[q]
      BY <1>1, <2>3
    <2>8. Covered(c)
      BY <1>1, <2>2, <2>5, <2>7 DEF Covered
    <2>9. \A q \in held : Expired(runs[q], tx[x].t) /\ rows[q] = Left(runs[q], "pending")
      BY <1>1, <1>4, <2>1, <2>2, <2>7 DEF ReclaimOK, Recheck
    <2>10. ReclaimOK(c)
      BY <1>1, <2>5, <2>9 DEF ReclaimOK
    <2>11. TxOK(x)'
      BY <1>3, <2>5, <2>6, <2>8, <2>10 DEF TxOK, ReclaimOK, Covered, NoPuts
    <2>12. \A q \in c.held : q \in tx[x].held \/ ~LockedForOthers(x, q)
      BY <1>0, <2>2, <2>5
    <2> QED
      BY <1>0, <2>4, <2>5, <2>11, <2>12, OwnLocks
  <1>5. CASE ~Recheck(runs[r], tx[x].t)
    <2> DEFINE c == [tx[x] EXCEPT !.todo = todo]
    <2>1. tx' = [tx EXCEPT ![x] = c]
      BY <1>2, <1>5 DEF ReclaimNext, Continue
    <2>2. /\ c \in Transaction /\ c.op = "reclaim" /\ c.t = tx[x].t /\ c.todo = todo
          /\ c.held = tx[x].held /\ c.rows = tx[x].rows /\ c.puts = tx[x].puts
          /\ c.dels = tx[x].dels /\ c.owner = tx[x].owner
      BY ONLY <1>0, <1>1, todo \in SUBSET RunIds DEF Transaction
    <2> HIDE DEF c
    <2>3. tx'[x] = c
      BY <2>1, TxFacts
    <2>4. Covered(c) /\ ReclaimOK(c)
      BY <1>1, <2>2 DEF Covered, ReclaimOK
    <2>5. TxOK(x)'
      BY <1>3, <2>2, <2>3, <2>4 DEF TxOK, ReclaimOK, Covered, NoPuts
    <2> QED
      BY <1>0, <2>1, <2>2, <2>5, OwnLocks
  <1> QED
    BY <1>4, <1>5

(* prune, first statement: finished runs nobody has locked are locked. *)
LEMMA PruneFindStep ==
    ASSUME IInv, NEW x \in Servers, NEW D \in SUBSET RunIds, PruneFind(x, D)
    PROVE  IInv'
  <1> DEFINE c == [Idle EXCEPT !.op = "prune", !.held = D]
  <1>1. /\ tx' = [tx EXCEPT ![x] = c] /\ UNCHANGED <<tables, clock, history>>
        /\ \A r \in D : ~Locked(r) /\ runs[r].status \in Terminal
    BY DEF PruneFind, Begin
  <1>2. /\ c \in Transaction /\ c.op = "prune" /\ c.held = D
        /\ c.rows = NoRows /\ c.puts = NoPuts /\ c.dels = {} /\ c.owner = NULL
    BY IdleTransaction DEF Idle, Transaction, Ops
  <1> HIDE DEF c
  <1>3. tx'[x] = c /\ runs' = runs
    BY <1>1, TxFacts DEF tables
  <1>4. TxOK(x)'
    BY <1>1, <1>2, <1>3 DEF TxOK, PruneOK, Covered, NoRows, NoPuts
  <1>5. \A r \in c.held : ~LockedForOthers(x, r)
    BY <1>1, <1>2 DEF Locked, LockedForOthers
  <1> QED
    BY <1>1, <1>2, <1>4, <1>5, OwnLocks

(* A rollback, asked for or forced by Postgres. *)
LEMMA RollbackStep ==
    ASSUME IInv, NEW x \in Servers, Rollback(x) \/ DeadlockVictim(x)
    PROVE  IInv'
  BY GivenUp DEF Rollback, DeadlockVictim

-----------------------------------------------------------------------------
(* Transactions commit. *)

(* A transaction that ends wrote only what it had locked. *)
LEMMA Ends ==
    ASSUME IInv, Typed', NEW x \in Servers, tx' = [tx EXCEPT ![x] = Idle], clock' = clock,
           \A y \in Servers \ {x} : tx[y].op \in {"claim", "claimed"} =>
               told'[tx[y].owner] = told[tx[y].owner],
           \A r \in RunIds \ tx[x].held : runs'[r] = runs[r],
           \A k \in Keys : k[1] \notin tx[x].held =>
               steps'[k] = steps[k] /\ event_waiters'[k] = event_waiters[k],
           \A o \in Owners : told[o] # "none" =>
               told'[o] # "none" /\ given'[o] = given[o] /\ saved[o] \subseteq saved'[o],
           \A r \in tx[x].held : RowOK(r)' /\ Knows(r)',
           \A k \in Keys : k[1] \in tx[x].held => WaitOK(k)'
    PROVE  IInv'
  <1>1. PICK D \in SUBSET RunIds : D = tx[x].held
    BY TxFacts
  <1>2. PICK X \in SUBSET Servers : X = {x}
    OBVIOUS
  <1>3. tx \in [Servers -> Transaction]
    BY TxFacts
  <1>4. /\ \A y \in X : tx'[y] = Idle
        /\ \A y \in Servers \ X : tx'[y] = tx[y] /\ D \cap tx[y].held = {}
        /\ \A y \in Servers \ X : tx[y].op \in {"claim", "claimed"} =>
               told'[tx[y].owner] = told[tx[y].owner]
    BY <1>1, <1>2, <1>3 DEF IInv, Locks
  <1>5. \A r \in D : RowOK(r)' /\ Knows(r)'
    BY ONLY <1>1, \A r \in tx[x].held : RowOK(r)' /\ Knows(r)', Zenon
  <1>6. \A k \in Keys : k[1] \in D => WaitOK(k)'
    BY ONLY <1>1, \A k \in Keys : k[1] \in tx[x].held => WaitOK(k)', Zenon
  <1>7. /\ \A r \in RunIds \ D : runs'[r] = runs[r]
        /\ \A k \in Keys : k[1] \notin D =>
               steps'[k] = steps[k] /\ event_waiters'[k] = event_waiters[k]
    BY <1>1
  <1> QED
    BY <1>4, <1>5, <1>6, <1>7, Effect

(* What a commit leaves in the tables. *)
LEMMA Committed ==
    ASSUME IInv, NEW x \in Servers, NEW puts \in [Keys -> Values], NEW dels \in SUBSET Keys,
           \A k \in Keys : puts[k] # NULL \/ k \in dels => k[1] \in tx[x].held,
           runs' = [r \in RunIds |-> IF tx[x].rows[r] = NULL THEN runs[r] ELSE tx[x].rows[r]],
           steps' = Inserted(steps, puts), event_waiters' = Removed(event_waiters, dels)
    PROVE  /\ runs' \in [RunIds -> Row] /\ steps' \in [Keys -> Values]
           /\ event_waiters' \in [Keys -> Waiter \cup {NULL}]
           /\ \A r \in RunIds : runs'[r] = IF tx[x].rows[r] = NULL THEN runs[r]
                                           ELSE tx[x].rows[r]
           /\ \A k \in Keys : steps'[k] = IF steps[k] = NULL THEN puts[k] ELSE steps[k]
           /\ \A k \in Keys : event_waiters'[k] = IF k \in dels THEN NULL ELSE event_waiters[k]
           /\ \A r \in RunIds \ tx[x].held : runs'[r] = runs[r]
           /\ \A k \in Keys : k[1] \notin tx[x].held =>
                  steps'[k] = steps[k] /\ event_waiters'[k] = event_waiters[k]
  <1>1. tx[x].rows \in [RunIds -> Row \cup {NULL}] /\ Covered(tx[x])
    BY TxFacts
  <1>2. /\ runs' \in [RunIds -> Row]
        /\ \A r \in RunIds : runs'[r] = IF tx[x].rows[r] = NULL THEN runs[r]
                                           ELSE tx[x].rows[r]
    BY <1>1, TableFacts
  <1>3. /\ steps' \in [Keys -> Values]
        /\ \A k \in Keys : steps'[k] = IF steps[k] = NULL THEN puts[k] ELSE steps[k]
    BY TableFacts DEF Inserted
  <1>4. /\ event_waiters' \in [Keys -> Waiter \cup {NULL}]
        /\ \A k \in Keys : event_waiters'[k] = IF k \in dels THEN NULL ELSE event_waiters[k]
    BY TableFacts DEF Removed
  <1>5. \A r \in RunIds \ tx[x].held : runs'[r] = runs[r]
    BY <1>1, <1>2 DEF Covered
  <1>6. \A k \in Keys : k[1] \notin tx[x].held =>
                  steps'[k] = steps[k] /\ event_waiters'[k] = event_waiters[k]
    BY <1>3, <1>4
  <1> QED
    BY <1>2, <1>3, <1>4, <1>5, <1>6

(* The transactions after x ended are well typed. *)
LEMMA EndedType ==
    ASSUME IInv, NEW x \in Servers, tx' = [tx EXCEPT ![x] = Idle]
    PROVE  tx' \in [Servers -> Transaction]
  BY TxFacts, IdleTransaction

(* claim commits: the owner is answered with the run and the results of all *)
(* its steps.                                                               *)
LEMMA ClaimCommitFacts ==
    ASSUME IInv, NEW x \in Servers, ClaimCommit(x)
    PROVE  \E r \in RunIds, o \in Owners, row \in Row :
              /\ o = tx[x].owner /\ tx[x].held = {r} /\ row = tx[x].rows[r]
              /\ row.status = "running" /\ row.worker_id = o /\ row.lease_until \in Nat
              /\ row.attempts >= 1 /\ runs[r].status = "pending" /\ told[o] = "none"
              /\ told' = [told EXCEPT ![o] = "open"] /\ tx' = [tx EXCEPT ![x] = Idle]
              /\ given' = [given EXCEPT ![o] =
                    {k[2] : k \in {j \in Keys : j[1] = r /\ steps'[j] # NULL}}]
              /\ saved' = saved /\ clock' = clock
              /\ runs' \in [RunIds -> Row] /\ steps' \in [Keys -> Values]
              /\ event_waiters' \in [Keys -> Waiter \cup {NULL}]
              /\ runs'[r] = row /\ \A q \in RunIds \ {r} : runs'[q] = runs[q]
              /\ \A k \in Keys : k[1] # r =>
                     steps'[k] = steps[k] /\ event_waiters'[k] = event_waiters[k]
              /\ \A k \in Keys : k[1] = r => event_waiters'[k] = NULL
              /\ \A k \in Keys : steps'[k] = steps[k]
                                 \/ (steps[k] = NULL /\ steps'[k] = JsonNull)
  <1>0. tx[x].op = "claimed" /\ tx[x] \in Transaction
    BY TxFacts DEF ClaimCommit
  <1>1. /\ tx[x].t \in Nat /\ tx[x].rows \in [RunIds -> Row \cup {NULL}]
        /\ tx[x].puts \in [Keys -> Values] /\ Covered(tx[x]) /\ ClaimOK(tx[x])
    BY <1>0, TxFacts DEF TxOK
  <1>2. PICK o \in Owners : o = tx[x].owner
    BY <1>1 DEF ClaimOK
  <1>3. PICK r \in RunIds :
             /\ tx[x].held = {r} /\ runs[r].status = "pending" /\ runs[r].run_at <= tx[x].t
             /\ tx[x].rows[r].lease_until \in Nat
             /\ tx[x].rows[r] = Claimed(runs[r], tx[x].owner, tx[x].rows[r].lease_until)
    BY <1>1 DEF ClaimOK
  <1>4. PICK lease \in Nat : lease = tx[x].rows[r].lease_until
    BY <1>3
  <1>5. runs[r] \in Row /\ runs[r].attempts \in Nat
    BY TableFacts DEF Row
  <1>6. PICK row \in Row :
             /\ row = tx[x].rows[r] /\ row.status = "running" /\ row.worker_id = o
             /\ row.lease_until \in Nat /\ row.attempts >= 1
    <2>1. tx[x].rows[r] = Claimed(runs[r], o, lease)
      BY <1>2, <1>3, <1>4
    <2> QED
      BY SMTT(30), <1>5, <2>1, ClaimedRow
  <1>7. PICK dels \in SUBSET Keys : dels = ExpiredWaits(x)
    BY DEF ExpiredWaits
  <1>8. PICK puts \in [Keys -> Values] : puts = tx[x].puts
    BY <1>1
  <1>9. \A k \in Keys : puts[k] # NULL \/ k \in dels => k[1] \in tx[x].held
    BY <1>1, <1>7, <1>8 DEF Covered, ExpiredWaits
  <1> DEFINE c == [tx[x] EXCEPT !.dels = dels]
  <1>10. c.rows = tx[x].rows /\ c.puts = puts /\ c.dels = dels
    BY <1>0, <1>8 DEF Transaction
  <1>11. /\ Commit(x, c) /\ told' = [told EXCEPT ![o] = "open"] /\ saved' = saved
         /\ clock' = clock
         /\ given' = [given EXCEPT ![o] =
                    {k[2] : k \in {j \in Keys : j[1] \in tx[x].held /\ steps'[j] # NULL}}]
    BY <1>2, <1>7 DEF ClaimCommit
  <1> HIDE DEF c
  <1>12. /\ runs' = [q \in RunIds |-> IF tx[x].rows[q] = NULL THEN runs[q] ELSE tx[x].rows[q]]
         /\ steps' = Inserted(steps, puts) /\ event_waiters' = Removed(event_waiters, dels)
         /\ tx' = [tx EXCEPT ![x] = Idle]
    BY <1>10, <1>11 DEF Commit
  <1>13. /\ runs' \in [RunIds -> Row] /\ steps' \in [Keys -> Values]
         /\ event_waiters' \in [Keys -> Waiter \cup {NULL}]
         /\ runs'[r] = IF tx[x].rows[r] = NULL THEN runs[r] ELSE tx[x].rows[r]
         /\ \A k \in Keys : steps'[k] = IF steps[k] = NULL THEN puts[k] ELSE steps[k]
         /\ \A k \in Keys : event_waiters'[k] = IF k \in dels THEN NULL ELSE event_waiters[k]
         /\ \A q \in RunIds \ tx[x].held : runs'[q] = runs[q]
         /\ \A k \in Keys : k[1] \notin tx[x].held =>
                  steps'[k] = steps[k] /\ event_waiters'[k] = event_waiters[k]
    BY <1>9, <1>12, Committed
  <1>14. runs'[r] = row
    BY <1>6, <1>13, NullAssumption
  <1>15. ASSUME NEW k \in Keys, k[1] = r PROVE event_waiters'[k] = NULL
    <2> SUFFICES ASSUME Waiting(k) PROVE k \in dels
      BY <1>13 DEF Waiting
    <2>1. runs[r].run_at = IF event_waiters[k].expires_at = NULL
                           THEN Forever ELSE event_waiters[k].expires_at
      BY <1>15 DEF IInv, WaitOK
    <2>2. clock < Forever /\ tx[x].t <= clock /\ clock \in Nat /\ Forever \in Nat
      BY <1>1, ConstantsAssumption DEF ClaimOK, IInv, Typed, TypeOK
    <2>3. runs[r].run_at \in Nat
      BY <1>5 DEF Row
    <2>4. runs[r].run_at # Forever
      BY <1>1, <1>3, <2>2, <2>3
    <2> QED
      BY <1>3, <1>7, <1>15, <2>1, <2>4 DEF ExpiredWaits, Waiting
  <1>16. given' = [given EXCEPT ![o] =
                    {k[2] : k \in {j \in Keys : j[1] = r /\ steps'[j] # NULL}}]
    <2>1. {j \in Keys : j[1] \in tx[x].held /\ steps'[j] # NULL}
          = {j \in Keys : j[1] = r /\ steps'[j] # NULL}
      BY <1>3
    <2> QED
      BY <1>11, <2>1
  <1>17. \A k \in Keys : steps'[k] = steps[k] \/ (steps[k] = NULL /\ steps'[k] = JsonNull)
    BY <1>1, <1>8, <1>13 DEF ClaimOK
  <1>18. /\ \A q \in RunIds \ {r} : runs'[q] = runs[q]
         /\ \A k \in Keys : k[1] # r =>
                     steps'[k] = steps[k] /\ event_waiters'[k] = event_waiters[k]
    BY <1>3, <1>13
  <1>19. told[o] = "none"
    BY <1>1, <1>2 DEF ClaimOK
  <1> QED
    BY <1>2, <1>3, <1>6, <1>11, <1>12, <1>13, <1>14, <1>15, <1>16, <1>17, <1>18, <1>19

(* claim keeps the invariant: a wait of the run that is still open when its *)
(* time comes is over by then, so no waiter is left.                        *)
LEMMA ClaimCommitStep ==
    ASSUME IInv, NEW x \in Servers, ClaimCommit(x)
    PROVE  IInv'
  <1>1. PICK r \in RunIds, o \in Owners, row \in Row :
              /\ o = tx[x].owner /\ tx[x].held = {r} /\ row = tx[x].rows[r]
              /\ row.status = "running" /\ row.worker_id = o /\ row.lease_until \in Nat
              /\ row.attempts >= 1 /\ runs[r].status = "pending" /\ told[o] = "none"
              /\ told' = [told EXCEPT ![o] = "open"] /\ tx' = [tx EXCEPT ![x] = Idle]
              /\ given' = [given EXCEPT ![o] =
                    {k[2] : k \in {j \in Keys : j[1] = r /\ steps'[j] # NULL}}]
              /\ saved' = saved /\ clock' = clock
              /\ runs' \in [RunIds -> Row] /\ steps' \in [Keys -> Values]
              /\ event_waiters' \in [Keys -> Waiter \cup {NULL}]
              /\ runs'[r] = row /\ \A q \in RunIds \ {r} : runs'[q] = runs[q]
              /\ \A k \in Keys : k[1] # r =>
                     steps'[k] = steps[k] /\ event_waiters'[k] = event_waiters[k]
              /\ \A k \in Keys : k[1] = r => event_waiters'[k] = NULL
              /\ \A k \in Keys : steps'[k] = steps[k]
                                 \/ (steps[k] = NULL /\ steps'[k] = JsonNull)
    BY ClaimCommitFacts, Zenon
  <1>2. PICK known \in SUBSET StepNames :
           known = {k[2] : k \in {j \in Keys : j[1] = r /\ steps'[j] # NULL}}
    <2>1. ASSUME NEW k \in Keys PROVE k[2] \in StepNames
      BY DEF Keys
    <2>2. {k[2] : k \in {j \in Keys : j[1] = r /\ steps'[j] # NULL}} \in SUBSET StepNames
      BY <2>1
    <2> QED
      BY <2>2, Zenon
  <1>3. /\ given' \in [Owners -> SUBSET StepNames] /\ given'[o] = known
        /\ \A p \in Owners \ {o} : given'[p] = given[p]
    BY <1>1, <1>2, TableFacts
  <1>4. /\ told' \in [Owners -> {"none", "open", "retry", "parked", "stale"} \cup Terminal]
        /\ told'[o] = "open" /\ \A p \in Owners \ {o} : told'[p] = told[p]
    BY <1>1, TableFacts
  <1>5. tx' \in [Servers -> Transaction]
    BY <1>1, EndedType
  <1>6. Typed'
    <2>1. clock' \in 0..MaxTime /\ saved' \in [Owners -> SUBSET StepNames]
      BY <1>1 DEF IInv, Typed, TypeOK
    <2> QED
      BY <1>1, <1>3, <1>4, <1>5, <2>1, TypedFrom
  <1>7. ASSUME NEW q \in tx[x].held PROVE RowOK(q)' /\ Knows(q)'
    <2>1. q = r
      BY <1>1
    <2>2. RowOK(r)'
      BY <1>1, <1>4 DEF RowOK
    <2>3. \A s \in StepNames : steps'[<<r, s>>] # NULL => s \in known
      <3> SUFFICES ASSUME NEW s \in StepNames, steps'[<<r, s>>] # NULL PROVE s \in known
        OBVIOUS
      <3>1. <<r, s>> \in Keys /\ <<r, s>>[1] = r /\ <<r, s>>[2] = s
        BY DEF Keys
      <3> QED
        BY <1>2, <3>1
    <2>4. Knows(r)'
      BY <1>1, <1>3, <2>3 DEF Knows
    <2> QED
      BY <2>1, <2>2, <2>4, Zenon
  <1>8. ASSUME NEW k \in Keys, k[1] \in tx[x].held PROVE WaitOK(k)'
    BY <1>1, <1>8 DEF WaitOK, Waiting
  <1>9. \A y \in Servers \ {x} : tx[y].op \in {"claim", "claimed"} =>
               told'[tx[y].owner] = told[tx[y].owner]
    <2> SUFFICES ASSUME NEW y \in Servers \ {x}, tx[y].op \in {"claim", "claimed"}
                 PROVE  told'[tx[y].owner] = told[tx[y].owner]
      OBVIOUS
    <2>1. tx[y].owner \in Owners /\ tx[y].owner # tx[x].owner
      BY TxFacts DEF IInv, FreshOwners
    <2> QED
      BY <1>1, <1>4, <2>1
  <1>10. \A p \in Owners : told[p] # "none" =>
               told'[p] # "none" /\ given'[p] = given[p] /\ saved[p] \subseteq saved'[p]
    BY <1>1, <1>3, <1>4
  <1>11. /\ \A q \in RunIds \ tx[x].held : runs'[q] = runs[q]
         /\ \A k \in Keys : k[1] \notin tx[x].held =>
                     steps'[k] = steps[k] /\ event_waiters'[k] = event_waiters[k]
    BY <1>1
  <1> QED
    BY <1>1, <1>6, <1>7, <1>8, <1>9, <1>10, <1>11, Ends

(* save_step commits: the result of one step, unless it has one. *)
LEMMA SaveCommitFacts ==
    ASSUME IInv, NEW x \in Servers, NEW s \in StepNames, NEW v \in Results, SaveCommit(x, s, v)
    PROVE  \E r \in RunIds, o \in Owners :
              /\ o = tx[x].owner /\ tx[x].held = {r} /\ Owns(o, r)
              /\ tx' = [tx EXCEPT ![x] = Idle] /\ saved' = [saved EXCEPT ![o] = saved[o] \cup {s}]
              /\ clock' = clock /\ told' = told /\ given' = given
              /\ runs' = runs /\ event_waiters' = event_waiters
              /\ steps' = IF steps[<<r, s>>] = NULL THEN [steps EXCEPT ![<<r, s>>] = v] ELSE steps
  <1>0. tx[x].op = "save" /\ tx[x] \in Transaction
    BY TxFacts DEF SaveCommit
  <1>1. SaveOK(tx[x])
    BY <1>0, TxFacts DEF TxOK
  <1>2. PICK r \in RunIds : tx[x].held = {r} /\ tx[x].todo = {r} /\ Owns(tx[x].owner, r)
    BY <1>1 DEF SaveOK
  <1>3. PICK o \in Owners : o = tx[x].owner
    BY <1>2, OwnerKnown
  <1>4. /\ Commit(x, [tx[x] EXCEPT !.puts[<<r, s>>] = v])
        /\ saved' = [saved EXCEPT ![o] = saved[o] \cup {s}]
        /\ clock' = clock /\ told' = told /\ given' = given
    BY <1>2, <1>3 DEF SaveCommit
  <1>5. PICK puts : puts = [NoPuts EXCEPT ![<<r, s>>] = v]
    OBVIOUS
  <1> DEFINE c == [tx[x] EXCEPT !.puts[<<r, s>>] = v]
  <1>6. c.rows = NoRows /\ c.puts = puts /\ c.dels = {}
    BY <1>0, <1>1, <1>5 DEF SaveOK, Transaction
  <1> HIDE DEF c
  <1>7. Commit(x, c)
    BY <1>4 DEF c
  <1>8. /\ runs' = [q \in RunIds |-> IF NoRows[q] = NULL THEN runs[q] ELSE NoRows[q]]
        /\ steps' = Inserted(steps, puts) /\ event_waiters' = Removed(event_waiters, {})
        /\ tx' = [tx EXCEPT ![x] = Idle]
    BY <1>6, <1>7 DEF Commit
  <1>9. runs' = runs /\ event_waiters' = event_waiters
    BY <1>8, TableFacts DEF NoRows, Removed
  <1>10. <<r, s>> \in Keys
    BY DEF Keys
  <1>11. steps' = IF steps[<<r, s>>] = NULL THEN [steps EXCEPT ![<<r, s>>] = v] ELSE steps
    <2>1. puts[<<r, s>>] = v /\ \A k \in Keys : k # <<r, s>> => puts[k] = NULL
      BY <1>5, <1>10 DEF NoPuts
    <2>2. /\ steps' = [k \in Keys |-> IF steps[k] = NULL THEN puts[k] ELSE steps[k]]
          /\ steps \in [Keys -> Values]
      BY <1>8, TableFacts DEF Inserted
    <2> QED
      BY <1>10, <2>1, <2>2
  <1> QED
    BY <1>2, <1>3, <1>4, <1>8, <1>9, <1>11

(* save_step keeps the invariant: the row was locked from the check on.     *)
LEMMA SaveCommitStep ==
    ASSUME IInv, NEW x \in Servers, NEW s \in StepNames, NEW v \in Results, SaveCommit(x, s, v)
    PROVE  IInv'
  <1>1. PICK r \in RunIds, o \in Owners :
              /\ o = tx[x].owner /\ tx[x].held = {r} /\ Owns(o, r)
              /\ tx' = [tx EXCEPT ![x] = Idle] /\ saved' = [saved EXCEPT ![o] = saved[o] \cup {s}]
              /\ clock' = clock /\ told' = told /\ given' = given
              /\ runs' = runs /\ event_waiters' = event_waiters
              /\ steps' = IF steps[<<r, s>>] = NULL THEN [steps EXCEPT ![<<r, s>>] = v] ELSE steps
    BY SaveCommitFacts
  <1>2. <<r, s>> \in Keys /\ <<r, s>>[1] = r
    BY DEF Keys
  <1>3. steps' \in [Keys -> Values] /\ \A k \in Keys : k # <<r, s>> => steps'[k] = steps[k]
    BY <1>1, <1>2, TableFacts DEF Values
  <1>4. /\ saved' \in [Owners -> SUBSET StepNames] /\ saved'[o] = saved[o] \cup {s}
        /\ \A p \in Owners : saved[p] \subseteq saved'[p]
    BY <1>1, TableFacts
  <1>5. tx' \in [Servers -> Transaction]
    BY <1>1, EndedType
  <1>6. Typed'
    <2>1. clock' \in 0..MaxTime
      BY <1>1 DEF IInv, Typed, TypeOK
    <2> QED
      BY <1>1, <1>3, <1>4, <1>5, <2>1, TableFacts, TypedFrom
  <1>7. ASSUME NEW q \in tx[x].held PROVE RowOK(q)' /\ Knows(q)'
    <2>1. q = r
      BY <1>1
    <2>2. RowOK(r)'
      BY <1>1 DEF RowOK, IInv
    <2>3. Knows(r) /\ runs[r].worker_id = o
      BY <1>1 DEF IInv, Owns
    <2>4. Knows(r)'
      <3> SUFFICES ASSUME NEW z \in StepNames, steps'[<<r, z>>] # NULL
                   PROVE  z \in given[o] \cup saved'[o]
        BY <1>1, <2>3 DEF Knows
      <3>1. CASE z = s
        BY <1>4, <3>1
      <3>2. CASE z # s
        <4>1. <<r, z>> \in Keys /\ <<r, z>> # <<r, s>>
          BY <3>2 DEF Keys
        <4> QED
          BY <1>1, <1>3, <1>4, <2>3, <4>1 DEF Knows, Owns
      <3> QED
        BY <3>1, <3>2
    <2> QED
      BY <2>1, <2>2, <2>4, Zenon
  <1>8. ASSUME NEW k \in Keys, k[1] \in tx[x].held PROVE WaitOK(k)'
    BY <1>1 DEF WaitOK, Waiting, IInv
  <1>9. /\ \A q \in RunIds \ tx[x].held : runs'[q] = runs[q]
        /\ \A k \in Keys : k[1] \notin tx[x].held =>
                     steps'[k] = steps[k] /\ event_waiters'[k] = event_waiters[k]
    BY <1>1, <1>2, <1>3
  <1> QED
    BY <1>1, <1>4, <1>6, <1>7, <1>8, <1>9, Ends

(* wait_for_event commits: the run is parked with its waiter. *)
LEMMA WaitCommitFacts ==
    ASSUME IInv, NEW x \in Servers, NEW s \in StepNames, NEW e \in Events, WaitCommit(x, s, e)
    PROVE  \E r \in RunIds, o \in Owners, row \in Row, w \in Waiter :
              /\ o = tx[x].owner /\ tx[x].held = {r} /\ Owns(o, r)
              /\ row.status = "pending" /\ row.worker_id = NULL
              /\ row.run_at = (IF w.expires_at = NULL THEN Forever ELSE w.expires_at)
              /\ runs' = [runs EXCEPT ![r] = row]
              /\ event_waiters' = [event_waiters EXCEPT ![<<r, s>>] = w]
              /\ tx' = [tx EXCEPT ![x] = Idle] /\ told' = [told EXCEPT ![o] = "parked"]
              /\ clock' = clock /\ saved' = saved /\ given' = given /\ steps' = steps
  <1>0. tx[x].op = "wait" /\ tx[x] \in Transaction
    BY TxFacts DEF WaitCommit
  <1>1. ParkOK(tx[x])
    BY <1>0, TxFacts DEF TxOK
  <1>2. PICK r \in RunIds, d \in Deadlines \cup {NULL} :
           /\ tx[x].held = {r} /\ Owns(tx[x].owner, r) /\ tx[x].rows[r] = Parked(runs[r], d)
    BY <1>1 DEF ParkOK
  <1>3. PICK o \in Owners : o = tx[x].owner
    BY <1>2, OwnerKnown
  <1>4. PICK row \in Row :
           /\ row = tx[x].rows[r] /\ row.status = "pending" /\ row.worker_id = NULL
           /\ row.run_at = IF d = NULL THEN Forever ELSE d
    BY <1>2, OwnerKnown, ParkedRow
  <1>5. row.run_at \in Nat
    BY DEF Row
  <1> DEFINE at == row.run_at
  <1>6. PICK w \in Waiter : w = [event |-> e, expires_at |-> IF at = Forever THEN NULL ELSE at]
    <2>1. (IF at = Forever THEN NULL ELSE at) \in Nat \cup {NULL}
      BY <1>5
    <2> QED
      BY <2>1 DEF Waiter
  <1>7. w.expires_at = IF at = Forever THEN NULL ELSE at
    BY <1>6
  <1>8. at = IF w.expires_at = NULL THEN Forever ELSE w.expires_at
    BY <1>5, <1>7, ConstantsAssumption
  <1>9. /\ runs' = [runs EXCEPT ![r] = row]
        /\ event_waiters' = [event_waiters EXCEPT ![<<r, s>>] = w]
        /\ tx' = [tx EXCEPT ![x] = Idle] /\ told' = [told EXCEPT ![o] = "parked"]
        /\ clock' = clock /\ saved' = saved /\ given' = given /\ steps' = steps
    BY <1>2, <1>3, <1>4, <1>6 DEF WaitCommit, Continue
  <1> QED
    BY <1>2, <1>3, <1>4, <1>8, <1>9

(* wait_for_event keeps the invariant: a running run has no other waiter.   *)
LEMMA WaitCommitStep ==
    ASSUME IInv, NEW x \in Servers, NEW s \in StepNames, NEW e \in Events, WaitCommit(x, s, e)
    PROVE  IInv'
  <1>1. PICK r \in RunIds, o \in Owners, row \in Row, w \in Waiter :
              /\ o = tx[x].owner /\ tx[x].held = {r} /\ Owns(o, r)
              /\ row.status = "pending" /\ row.worker_id = NULL
              /\ row.run_at = (IF w.expires_at = NULL THEN Forever ELSE w.expires_at)
              /\ runs' = [runs EXCEPT ![r] = row]
              /\ event_waiters' = [event_waiters EXCEPT ![<<r, s>>] = w]
              /\ tx' = [tx EXCEPT ![x] = Idle] /\ told' = [told EXCEPT ![o] = "parked"]
              /\ clock' = clock /\ saved' = saved /\ given' = given /\ steps' = steps
    BY WaitCommitFacts
  <1>2. <<r, s>> \in Keys /\ <<r, s>>[1] = r
    BY DEF Keys
  <1>3. runs' \in [RunIds -> Row] /\ runs'[r] = row /\ \A q \in RunIds \ {r} : runs'[q] = runs[q]
    BY <1>1, TableFacts
  <1>4. /\ event_waiters' \in [Keys -> Waiter \cup {NULL}] /\ event_waiters'[<<r, s>>] = w
        /\ \A k \in Keys : k # <<r, s>> => event_waiters'[k] = event_waiters[k]
    BY <1>1, <1>2, TableFacts
  <1>5. /\ told' \in [Owners -> {"none", "open", "retry", "parked", "stale"} \cup Terminal]
        /\ told'[o] = "parked" /\ \A p \in Owners \ {o} : told'[p] = told[p]
    BY <1>1, TableFacts
  <1>6. Typed'
    <2>1. clock' \in 0..MaxTime
      BY <1>1 DEF IInv, Typed, TypeOK
    <2> QED
      BY <1>1, <1>3, <1>4, <1>5, <2>1, TableFacts, EndedType, TypedFrom
  <1>7. ASSUME NEW q \in tx[x].held PROVE RowOK(q)' /\ Knows(q)'
    <2>1. q = r
      BY <1>1
    <2>2. RowOK(r)' /\ Knows(r)'
      BY <1>1, <1>3 DEF RowOK, Knows
    <2> QED
      BY <2>1, <2>2, Zenon
  <1>8. ASSUME NEW k \in Keys, k[1] \in tx[x].held PROVE WaitOK(k)'
    <2>1. k[1] = r
      BY <1>1, <1>8
    <2>2. \A j \in Keys : j[1] = r /\ j # <<r, s>> => event_waiters'[j] = NULL
      BY <1>1, <1>4, NoWaiters DEF Owns
    <2> QED
      BY <1>1, <1>3, <1>4, <2>1, <2>2 DEF WaitOK, Waiting
  <1>9. \A y \in Servers \ {x} : tx[y].op \in {"claim", "claimed"} =>
               told'[tx[y].owner] = told[tx[y].owner]
    BY <1>1, <1>5, TxFacts, OwnerNotFresh
  <1>10. \A p \in Owners : told[p] # "none" =>
               told'[p] # "none" /\ given'[p] = given[p] /\ saved[p] \subseteq saved'[p]
    BY <1>1, <1>5
  <1>11. /\ \A q \in RunIds \ tx[x].held : runs'[q] = runs[q]
         /\ \A k \in Keys : k[1] \notin tx[x].held =>
                     steps'[k] = steps[k] /\ event_waiters'[k] = event_waiters[k]
    BY <1>1, <1>2, <1>3, <1>4
  <1> QED
    BY <1>1, <1>6, <1>7, <1>8, <1>9, <1>10, <1>11, Ends

(* signal commits: the waiters found again under the lock are gone, their   *)
(* steps have the event's value, and their runs are due.                    *)
LEMMA SignalCommitFacts ==
    ASSUME IInv, NEW x \in Servers, SignalCommit(x)
    PROVE  /\ tx' = [tx EXCEPT ![x] = Idle] /\ clock' = clock
           /\ told' = told /\ given' = given /\ saved' = saved
           /\ runs' \in [RunIds -> Row] /\ steps' \in [Keys -> Values]
           /\ event_waiters' \in [Keys -> Waiter \cup {NULL}]
           /\ tx[x].value \in Results /\ tx[x].held \in SUBSET RunIds
           /\ \A r \in RunIds : tx[x].rows[r] = NULL =>
                 /\ runs'[r] = runs[r]
                 /\ \A s \in StepNames : /\ steps'[<<r, s>>] = steps[<<r, s>>]
                                         /\ event_waiters'[<<r, s>>] = event_waiters[<<r, s>>]
           /\ \A r \in RunIds : tx[x].rows[r] # NULL =>
                 /\ r \in tx[x].held /\ runs[r].status = "pending"
                 /\ runs'[r].status = "pending" /\ runs'[r].worker_id = runs[r].worker_id
                 /\ \A k \in Keys : k[1] = r => event_waiters'[k] = NULL
           /\ \A k \in Keys : steps'[k] = steps[k]
                              \/ (steps[k] = NULL /\ steps'[k] = tx[x].value)
  <1>0. tx[x].op = "signal" /\ tx[x] \in Transaction
    BY TxFacts DEF SignalCommit
  <1>1. /\ tx[x].t \in Nat /\ tx[x].dels \in SUBSET Keys
        /\ tx[x].rows \in [RunIds -> Row \cup {NULL}] /\ tx[x].puts \in [Keys -> Values]
        /\ tx[x].held \in SUBSET RunIds /\ Covered(tx[x]) /\ SignalOK(tx[x])
    BY <1>0, TxFacts DEF TxOK
  <1>2. /\ tx' = [tx EXCEPT ![x] = Idle] /\ clock' = clock
        /\ told' = told /\ given' = given /\ saved' = saved
        /\ runs' = [q \in RunIds |-> IF tx[x].rows[q] = NULL THEN runs[q] ELSE tx[x].rows[q]]
        /\ steps' = Inserted(steps, tx[x].puts)
        /\ event_waiters' = Removed(event_waiters, tx[x].dels)
    BY DEF SignalCommit, Commit, history
  <1>3. /\ runs' \in [RunIds -> Row] /\ steps' \in [Keys -> Values]
        /\ event_waiters' \in [Keys -> Waiter \cup {NULL}]
        /\ \A r \in RunIds : runs'[r] = IF tx[x].rows[r] = NULL THEN runs[r]
                                           ELSE tx[x].rows[r]
        /\ \A k \in Keys : steps'[k] = IF steps[k] = NULL THEN tx[x].puts[k] ELSE steps[k]
        /\ \A k \in Keys : event_waiters'[k] = IF k \in tx[x].dels THEN NULL ELSE event_waiters[k]
    <2>1. \A k \in Keys : tx[x].puts[k] # NULL \/ k \in tx[x].dels => k[1] \in tx[x].held
      BY <1>1 DEF Covered
    <2> QED
      BY <1>1, <1>2, <2>1, Committed
  <1>4. ASSUME NEW r \in RunIds, tx[x].rows[r] = NULL
        PROVE  /\ runs'[r] = runs[r]
               /\ \A s \in StepNames : /\ steps'[<<r, s>>] = steps[<<r, s>>]
                                       /\ event_waiters'[<<r, s>>] = event_waiters[<<r, s>>]
    <2>1. runs'[r] = runs[r]
      BY <1>3, <1>4
    <2>2. ASSUME NEW s \in StepNames
          PROVE  /\ steps'[<<r, s>>] = steps[<<r, s>>]
                 /\ event_waiters'[<<r, s>>] = event_waiters[<<r, s>>]
      <3>1. <<r, s>> \in Keys /\ <<r, s>>[1] = r
        BY DEF Keys
      <3>2. <<r, s>> \notin tx[x].dels /\ tx[x].puts[<<r, s>>] = NULL
        BY <1>1, <1>4, <3>1 DEF SignalOK
      <3> QED
        BY <1>3, <3>1, <3>2
    <2> QED
      BY <2>1, <2>2
  <1>5. ASSUME NEW r \in RunIds, tx[x].rows[r] # NULL
        PROVE  /\ r \in tx[x].held /\ runs[r].status = "pending"
               /\ runs'[r].status = "pending" /\ runs'[r].worker_id = runs[r].worker_id
               /\ \A k \in Keys : k[1] = r => event_waiters'[k] = NULL
    <2>1. /\ runs[r].status = "pending" /\ tx[x].rows[r] = [runs[r] EXCEPT !.run_at = tx[x].t]
          /\ \E k \in tx[x].dels : k[1] = r
      BY <1>1, <1>5 DEF SignalOK
    <2>2. r \in tx[x].held
      BY <1>1, <1>5 DEF Covered
    <2>3. runs[r] \in Row /\ runs'[r] = [runs[r] EXCEPT !.run_at = tx[x].t]
      BY <1>3, <1>5, <2>1, TableFacts
    <2>4. runs'[r].status = "pending" /\ runs'[r].worker_id = runs[r].worker_id
      BY <1>1, <2>1, <2>3, WokenRow
    <2>5. PICK j \in tx[x].dels : j[1] = r
      BY <2>1
    <2>6. j \in Keys /\ Waiting(j) /\ WaitOK(j)
      BY <1>1, <2>5 DEF SignalOK, IInv
    <2>7. \A k \in Keys : k[1] = r /\ Waiting(k) => k = j
      BY <2>5, <2>6 DEF WaitOK
    <2>8. \A k \in Keys : k[1] = r => event_waiters'[k] = NULL
      BY <1>3, <2>5, <2>7 DEF Waiting
    <2> QED
      BY <2>1, <2>2, <2>4, <2>8
  <1>6. \A k \in Keys : steps'[k] = steps[k] \/ (steps[k] = NULL /\ steps'[k] = tx[x].value)
    BY <1>1, <1>3 DEF SignalOK
  <1>7. tx[x].value \in Results
    BY <1>1 DEF SignalOK
  <1> QED
    BY <1>1, <1>2, <1>3, <1>4, <1>5, <1>6, <1>7

(* signal keeps the invariant: it gives results only to runs that nobody    *)
(* executes, and leaves the run of a waiter that is gone alone.             *)
LEMMA SignalCommitStep ==
    ASSUME IInv, NEW x \in Servers, SignalCommit(x)
    PROVE  IInv'
  <1>1. /\ tx' = [tx EXCEPT ![x] = Idle] /\ clock' = clock
        /\ told' = told /\ given' = given /\ saved' = saved
        /\ runs' \in [RunIds -> Row] /\ steps' \in [Keys -> Values]
        /\ event_waiters' \in [Keys -> Waiter \cup {NULL}]
    BY SignalCommitFacts
  <1>2. \A r \in RunIds : tx[x].rows[r] = NULL =>
                 /\ runs'[r] = runs[r]
                 /\ \A s \in StepNames : /\ steps'[<<r, s>>] = steps[<<r, s>>]
                                         /\ event_waiters'[<<r, s>>] = event_waiters[<<r, s>>]
    BY SignalCommitFacts
  <1>3. \A r \in RunIds : tx[x].rows[r] # NULL =>
                 /\ r \in tx[x].held /\ runs[r].status = "pending"
                 /\ runs'[r].status = "pending" /\ runs'[r].worker_id = runs[r].worker_id
                 /\ \A k \in Keys : k[1] = r => event_waiters'[k] = NULL
    BY SignalCommitFacts
  <1>4. Typed'
    <2>1. clock' \in 0..MaxTime
      BY <1>1 DEF IInv, Typed, TypeOK
    <2> QED
      BY <1>1, <2>1, TableFacts, EndedType, TypedFrom
  <1>5. ASSUME NEW r \in RunIds
        PROVE  RowOK(r)' /\ Knows(r)' /\ \A s \in StepNames : WaitOK(<<r, s>>)'
    <2>1. CASE tx[x].rows[r] = NULL
      BY <1>1, <1>2, <2>1, RunFrame
    <2>2. CASE tx[x].rows[r] # NULL
      <3>1. /\ runs'[r].status = "pending" /\ runs'[r].worker_id = runs[r].worker_id
            /\ runs[r].status = "pending" /\ \A k \in Keys : k[1] = r => event_waiters'[k] = NULL
        BY <1>3, <2>2
      <3>2. RowOK(r)'
        BY <3>1 DEF RowOK, IInv
      <3>3. Knows(r)'
        BY <3>1 DEF Knows
      <3>4. ASSUME NEW s \in StepNames PROVE WaitOK(<<r, s>>)'
        <4>1. <<r, s>> \in Keys /\ <<r, s>>[1] = r
          BY DEF Keys
        <4> QED
          BY <3>1, <4>1 DEF WaitOK, Waiting
      <3> QED
        BY <3>2, <3>3, <3>4
    <2> QED
      BY <2>1, <2>2
  <1>6. ASSUME NEW k \in Keys PROVE WaitOK(k)'
    <2>1. PICK r \in RunIds, s \in StepNames : k = <<r, s>>
      BY DEF Keys
    <2> QED
      BY <1>5, <2>1
  <1>7. \A q \in RunIds \ tx[x].held : tx[x].rows[q] = NULL
    BY <1>3
  <1>8. ASSUME NEW k \in Keys, k[1] \notin tx[x].held
        PROVE  steps'[k] = steps[k] /\ event_waiters'[k] = event_waiters[k]
    <2>1. PICK r \in RunIds, s \in StepNames : k = <<r, s>>
      BY DEF Keys
    <2>2. r \notin tx[x].held
      BY <1>8, <2>1
    <2> QED
      BY <1>2, <1>7, <2>1, <2>2
  <1>9. tx[x].held \in SUBSET RunIds
    BY TxFacts
  <1> QED
    BY <1>1, <1>2, <1>4, <1>5, <1>6, <1>7, <1>8, <1>9, Ends

(* reclaim commits: the runs whose lease is over are due again. *)
LEMMA ReclaimCommitFacts ==
    ASSUME IInv, NEW x \in Servers, ReclaimCommit(x)
    PROVE  /\ tx' = [tx EXCEPT ![x] = Idle] /\ clock' = clock
           /\ told' = told /\ given' = given /\ saved' = saved
           /\ runs' \in [RunIds -> Row] /\ steps' = steps /\ event_waiters' = event_waiters
           /\ tx[x].held \in SUBSET RunIds
           /\ \A r \in RunIds \ tx[x].held : runs'[r] = runs[r]
           /\ \A r \in tx[x].held :
                 /\ runs[r].status = "running" /\ runs[r].lease_until < clock
                 /\ runs'[r].status = "pending" /\ runs'[r].worker_id = NULL
  <1>0. tx[x].op = "reclaim" /\ tx[x] \in Transaction
    BY TxFacts DEF ReclaimCommit
  <1>1. /\ tx[x].t \in Nat /\ tx[x].rows \in [RunIds -> Row \cup {NULL}]
        /\ tx[x].puts \in [Keys -> Values] /\ tx[x].dels \in SUBSET Keys
        /\ tx[x].held \in SUBSET RunIds /\ Covered(tx[x]) /\ ReclaimOK(tx[x])
    BY <1>0, TxFacts DEF TxOK
  <1>2. /\ tx' = [tx EXCEPT ![x] = Idle] /\ clock' = clock
        /\ told' = told /\ given' = given /\ saved' = saved
        /\ runs' = [q \in RunIds |-> IF tx[x].rows[q] = NULL THEN runs[q] ELSE tx[x].rows[q]]
        /\ steps' = Inserted(steps, NoPuts) /\ event_waiters' = Removed(event_waiters, {})
    BY <1>1 DEF ReclaimCommit, Commit, history, ReclaimOK
  <1>3. runs' \in [RunIds -> Row] /\ steps' = steps /\ event_waiters' = event_waiters
    BY <1>1, <1>2, TableFacts DEF Inserted, Removed, NoPuts
  <1>4. \A r \in RunIds \ tx[x].held : runs'[r] = runs[r]
    BY <1>1, <1>2 DEF Covered
  <1>5. ASSUME NEW r \in tx[x].held
        PROVE  /\ runs[r].status = "running" /\ runs[r].lease_until < clock
               /\ runs'[r].status = "pending" /\ runs'[r].worker_id = NULL
    <2>1. r \in RunIds /\ runs[r] \in Row
      BY <1>1, TableFacts
    <2>2. Expired(runs[r], tx[x].t) /\ tx[x].rows[r] = Left(runs[r], "pending") /\ tx[x].t <= clock
      BY <1>1 DEF ReclaimOK
    <2>3. runs[r].status = "running" /\ runs[r].lease_until \in Nat
      BY <2>1, <2>2 DEF Expired, IInv, RowOK
    <2>4. runs[r].lease_until < clock
      <3>1. clock \in Nat
        BY TableFacts
      <3> QED
        BY <1>1, <2>2, <2>3, <3>1 DEF Expired
    <2>5. PICK row \in Row : row = Left(runs[r], "pending") /\ row.status = "pending" /\ row.worker_id = NULL
      BY <2>1, LeftRow
    <2>6. runs'[r] = row
      BY <1>2, <2>1, <2>2, <2>5, NullAssumption
    <2> QED
      BY <2>3, <2>4, <2>5, <2>6
  <1> QED
    BY <1>1, <1>2, <1>3, <1>4, <1>5

(* reclaim keeps the invariant. *)
LEMMA ReclaimCommitStep ==
    ASSUME IInv, NEW x \in Servers, ReclaimCommit(x)
    PROVE  IInv'
  <1>1. /\ tx' = [tx EXCEPT ![x] = Idle] /\ clock' = clock
        /\ told' = told /\ given' = given /\ saved' = saved
        /\ runs' \in [RunIds -> Row] /\ steps' = steps /\ event_waiters' = event_waiters
        /\ tx[x].held \in SUBSET RunIds
        /\ \A r \in RunIds \ tx[x].held : runs'[r] = runs[r]
        /\ \A r \in tx[x].held :
              /\ runs[r].status = "running" /\ runs[r].lease_until < clock
              /\ runs'[r].status = "pending" /\ runs'[r].worker_id = NULL
    BY ReclaimCommitFacts
  <1>2. Typed'
    <2>1. clock' \in 0..MaxTime
      BY <1>1 DEF IInv, Typed, TypeOK
    <2> QED
      BY <1>1, <2>1, TableFacts, EndedType, TypedFrom
  <1>3. ASSUME NEW r \in tx[x].held PROVE RowOK(r)' /\ Knows(r)'
    BY <1>1 DEF RowOK, Knows
  <1>4. ASSUME NEW k \in Keys, k[1] \in tx[x].held PROVE WaitOK(k)'
    <2>1. event_waiters'[k] = NULL
      BY <1>1, <1>4, NoWaiters
    <2> QED
      BY <2>1 DEF WaitOK, Waiting
  <1> QED
    BY <1>1, <1>2, <1>3, <1>4, Ends

(* prune commits: the runs it locked are gone, with all they had. *)
LEMMA PruneCommitFacts ==
    ASSUME IInv, NEW x \in Servers, PruneCommit(x)
    PROVE  /\ tx' = [tx EXCEPT ![x] = Idle] /\ clock' = clock
           /\ told' = told /\ given' = given /\ saved' = saved
           /\ tx[x].held \in SUBSET RunIds
           /\ runs' = [r \in RunIds |-> IF r \in tx[x].held THEN NoRow ELSE runs[r]]
           /\ steps' = [k \in Keys |-> IF k[1] \in tx[x].held THEN NULL ELSE steps[k]]
           /\ event_waiters' =
                 [k \in Keys |-> IF k[1] \in tx[x].held THEN NULL ELSE event_waiters[k]]
           /\ \A r \in tx[x].held : runs[r].status \in Terminal
  <1>0. tx[x].op = "prune" /\ tx[x].held \in SUBSET RunIds
    BY TxFacts DEF PruneCommit
  <1>1. PruneOK(tx[x])
    BY <1>0, TxFacts DEF TxOK
  <1> QED
    BY <1>0, <1>1 DEF PruneOK, PruneCommit, Removed, Continue, history

(* prune keeps the invariant. *)
LEMMA PruneCommitStep ==
    ASSUME IInv, NEW x \in Servers, PruneCommit(x)
    PROVE  IInv'
  <1>1. /\ tx' = [tx EXCEPT ![x] = Idle] /\ clock' = clock
        /\ told' = told /\ given' = given /\ saved' = saved
        /\ tx[x].held \in SUBSET RunIds
        /\ runs' = [r \in RunIds |-> IF r \in tx[x].held THEN NoRow ELSE runs[r]]
        /\ steps' = [k \in Keys |-> IF k[1] \in tx[x].held THEN NULL ELSE steps[k]]
        /\ event_waiters' =
              [k \in Keys |-> IF k[1] \in tx[x].held THEN NULL ELSE event_waiters[k]]
    BY PruneCommitFacts
  <1>2. /\ runs' \in [RunIds -> Row] /\ steps' \in [Keys -> Values]
        /\ event_waiters' \in [Keys -> Waiter \cup {NULL}]
    BY <1>1, TableFacts, AbsentRow DEF Values
  <1>3. Typed'
    <2>1. clock' \in 0..MaxTime
      BY <1>1 DEF IInv, Typed, TypeOK
    <2> QED
      BY <1>1, <1>2, <2>1, TableFacts, EndedType, TypedFrom
  <1>4. ASSUME NEW r \in tx[x].held PROVE RowOK(r)' /\ Knows(r)'
    <2>1. runs'[r] = NoRow
      BY <1>1
    <2> QED
      BY <2>1, AbsentRow DEF RowOK, Knows
  <1>5. ASSUME NEW k \in Keys, k[1] \in tx[x].held PROVE WaitOK(k)'
    BY <1>1, <1>5 DEF WaitOK, Waiting
  <1>6. \A k \in Keys : k[1] \notin tx[x].held =>
               steps'[k] = steps[k] /\ event_waiters'[k] = event_waiters[k]
    BY <1>1
  <1>7. \A r \in RunIds \ tx[x].held : runs'[r] = runs[r]
    BY <1>1
  <1> QED
    BY <1>1, <1>3, <1>4, <1>5, <1>6, <1>7, Ends

-----------------------------------------------------------------------------
(* The invariant holds. *)

(* A statement that opens a transaction keeps the invariant. *)
LEMMA OpensStep ==
    ASSUME IInv, NEW x \in Servers, Opens(x)
    PROVE  IInv'
  BY ClaimRowStep, SignalFindStep, ReclaimFindStep, PruneFindStep DEF Opens

(* A statement of an open transaction keeps the invariant. *)
LEMMA ProceedsStep ==
    ASSUME IInv, NEW x \in Servers, Proceeds(x)
    PROVE  IInv'
  BY ClaimWaitsStep, ClaimCommitStep, SaveCommitStep, WaitCommitStep, SignalNextStep,
     SignalCommitStep, ReclaimNextStep, ReclaimCommitStep, PruneCommitStep DEF Proceeds

(* A call of an owner keeps the invariant. *)
LEMMA OwnerStepStep ==
    ASSUME IInv, NEW o \in Owners, NEW r \in RunIds, OwnerStep(o, r)
    PROVE  IInv'
  <1>1. CASE \/ \E t \in Readings, ms \in LeaseMs : Heartbeat(o, r, t, ms)
             \/ \E status \in Terminal : Finish(o, r, status)
             \/ \E at \in Deadlines : FailRetry(o, r, at)
             \/ \E at \in Deadlines \cup {NULL} : Defer(o, r, at)
    BY <1>1, OwnerUpdates
  <1>2. CASE \E x \in Servers : SaveCheck(x, o, r)
    BY <1>2, SaveCheckStep
  <1>3. CASE \E x \in Servers, d \in Deadlines \cup {NULL} : WaitPark(x, o, r, d)
    BY <1>3, WaitParkStep
  <1> QED
    BY <1>1, <1>2, <1>3 DEF OwnerStep

(* Every step keeps the invariant. *)
LEMMA Step == IInv /\ [Next]_vars => IInv'
  <1> SUFFICES ASSUME IInv, [Next]_vars PROVE IInv'
    OBVIOUS
  <1>1. ASSUME NEW r \in RunIds, NEW at \in Deadlines \cup Readings, Enqueue(r, at) PROVE IInv'
    BY <1>1, EnqueueStep
  <1>2. ASSUME NEW o \in Owners, NEW r \in RunIds, OwnerStep(o, r) PROVE IInv'
    BY <1>2, OwnerStepStep
  <1>3. ASSUME NEW o \in Owners, StaleCall(o) PROVE IInv'
    BY <1>3, StaleStep
  <1>4. ASSUME NEW x \in Servers, Opens(x) \/ Proceeds(x) \/ Rollback(x) \/ DeadlockVictim(x)
        PROVE  IInv'
    BY <1>4, OpensStep, ProceedsStep, RollbackStep
  <1>5. CASE Tick
    BY <1>5, TickStep
  <1>6. CASE UNCHANGED vars
    <2>1. /\ runs' = runs /\ steps' = steps /\ event_waiters' = event_waiters /\ tx' = tx
          /\ clock' = clock /\ told' = told /\ given' = given /\ saved' = saved
      BY <1>6 DEF vars, tables, history
    <2>2. Typed'
      BY <2>1, TableFacts, TypedFrom DEF IInv, Typed, TypeOK
    <2> QED
      BY <2>1, <2>2, NothingWritten
  <1> QED
    BY <1>1, <1>2, <1>3, <1>4, <1>5, <1>6 DEF Next

(* The inductive invariant holds in every reachable state: what each open   *)
(* transaction knows of the rows it has locked stays true up to its commit. *)
THEOREM Invariance == Spec => []IInv
  BY InitIInv, Step, PTL DEF Spec

(* The tables, the open transactions and the answers are well typed. *)
THEOREM TypeCorrect == Spec => []TypeOK
  <1>1. IInv => TypeOK
    BY DEF IInv, Typed
  <1> QED
    BY <1>1, Invariance, PTL

(* An attempt knows every result its run has, whichever servers and         *)
(* transactions ran at the same time.                                       *)
THEOREM ResultsKnown == Spec => []KnowsResults
  <1>1. IInv => KnowsResults
    BY DEF IInv, Knows, KnowsResults
  <1> QED
    BY <1>1, Invariance, PTL

-----------------------------------------------------------------------------
(* Signals do not wait for each other in a circle. *)

(* A signal that waits wants a lock of a greater run than all it holds.     *)
LEMMA SignalWaits ==
    ASSUME IInv, NEW x \in Servers, NEW y \in Servers, tx[x].op = "signal", tx[y].op = "signal",
           WaitsFor(x) \cap tx[y].held # {}
    PROVE  tx[x].todo # {} /\ NextRun(x) \in tx[y].held
  BY DEF WaitsFor

(* Signals take their locks in one order, so they never deadlock among      *)
(* themselves: the run that the holder of a lock waits for is greater than  *)
(* the run it is waited for, and a circle of waits would go up for ever.    *)
THEOREM NoSignalDeadlock == Spec => []SignalsDoNotDeadlock
  <1>1. IInv => SignalsDoNotDeadlock
    <2> SUFFICES ASSUME IInv, NEW C \in SUBSET {x \in Servers : tx[x].op = "signal"},
                        C # {}, Deadlocked(C)
                 PROVE  FALSE
      BY DEF SignalsDoNotDeadlock
    <2>1. ASSUME NEW x \in C
          PROVE  /\ x \in Servers /\ tx[x].op = "signal" /\ tx[x].todo # {}
                 /\ NextRun(x) \in RunIds
                 /\ \E y \in C : NextRun(x) \in tx[y].held
      <3>1. PICK y \in C \ {x} : WaitsFor(x) \cap tx[y].held # {}
        BY DEF Deadlocked
      <3>2. x \in Servers /\ y \in Servers /\ tx[x].op = "signal" /\ tx[y].op = "signal"
        OBVIOUS
      <3>3. tx[x].todo # {} /\ NextRun(x) \in tx[y].held
        BY <3>1, <3>2, SignalWaits
      <3>4. NextRun(x) \in RunIds
        BY <3>2, <3>3, NextRunLeast
      <3> QED
        BY <3>2, <3>3, <3>4
    <2> DEFINE S == {NextRun(x) : x \in C}
    <2>2. S \in SUBSET RunIds /\ S # {}
      BY <2>1
    <2>3. RunIds \in SUBSET Nat /\ IsFiniteSet(RunIds)
      BY ConstantsAssumption
    <2>4. IsFiniteSet(S) /\ S \in SUBSET Nat
      BY <2>2, <2>3, FS_Subset
    <2>5. PICK n \in S : \A m \in S : m <= n
      <3> HIDE DEF S
      <3> QED
        BY <2>2, <2>4, GreatestExists
    <2>6. PICK x \in C : n = NextRun(x)
      BY <2>5
    <2>7. PICK y \in C : NextRun(x) \in tx[y].held
      BY <2>1
    <2>8. /\ y \in Servers /\ tx[y].op = "signal" /\ tx[y].todo # {}
          /\ NextRun(x) \in Nat /\ NextRun(y) \in Nat
      BY <2>1, <2>3
    <2>9. NextRun(x) < NextRun(y)
      BY <2>7, <2>8, NextRunLeast
    <2>10. NextRun(y) <= NextRun(x)
      BY <2>5, <2>6
    <2> QED
      BY <2>8, <2>9, <2>10
  <1> QED
    BY <1>1, Invariance, PTL

-----------------------------------------------------------------------------
(* Leases. *)

(* The owner of a run keeps it, or is told, or its lease is over. *)
Loses(r) ==
    /\ runs[r].status = "running" /\ runs'[r].worker_id # runs[r].worker_id
    /\ told'[runs[r].worker_id] = "open"
    => runs[r].lease_until < clock

(* update_running of some run takes no run from an owner without telling it. *)
LEMMA UpdateLoses ==
    ASSUME IInv, NEW o \in Owners, NEW r \in RunIds, NEW row, NEW a, UpdateRunning(o, r, row, a),
           a # "open" \/ row.worker_id = o,
           NEW q \in RunIds
    PROVE  Loses(q)
  <1>1. /\ runs' = [runs EXCEPT ![r] = row] /\ told' = [told EXCEPT ![o] = a]
        /\ runs[r].worker_id = o
    BY DEF UpdateRunning, Owns
  <1>2. runs'[r] = row /\ told'[o] = a /\ \A p \in RunIds \ {r} : runs'[p] = runs[p]
    BY <1>1, TableFacts
  <1> QED
    BY <1>1, <1>2 DEF Loses

(* No call of an owner does. *)
LEMMA OwnerStepLoses ==
    ASSUME IInv, NEW o \in Owners, NEW r \in RunIds, OwnerStep(o, r), NEW q \in RunIds
    PROVE  Loses(q)
  <1>1. ASSUME NEW t \in Readings, NEW ms \in LeaseMs, Heartbeat(o, r, t, ms) PROVE Loses(q)
    <2> DEFINE row == [runs[r] EXCEPT !.lease_until = LeaseUntil(t, ms)]
    <2>1. UpdateRunning(o, r, row, "open") /\ Owns(o, r)
      BY <1>1 DEF Heartbeat, UpdateRunning
    <2>2. runs[r] \in Row /\ runs[r].worker_id = o
      BY <2>1, OwnerKnown
    <2>3. row.worker_id = o
      BY <2>2 DEF Row
    <2> HIDE DEF row
    <2> QED
      BY <2>1, <2>3, UpdateLoses
  <1>2. ASSUME NEW st \in Terminal, Finish(o, r, st) PROVE Loses(q)
    BY <1>2, UpdateLoses DEF Finish, Terminal
  <1>3. ASSUME NEW at \in Deadlines, FailRetry(o, r, at) PROVE Loses(q)
    BY <1>3, UpdateLoses DEF FailRetry
  <1>4. ASSUME NEW at \in Deadlines \cup {NULL}, Defer(o, r, at) PROVE Loses(q)
    BY <1>4, UpdateLoses DEF Defer
  <1>5. ASSUME NEW x \in Servers, SaveCheck(x, o, r) PROVE Loses(q)
    BY <1>5 DEF SaveCheck, tables, Loses
  <1>6. ASSUME NEW x \in Servers, NEW d \in Deadlines \cup {NULL}, WaitPark(x, o, r, d)
        PROVE  Loses(q)
    BY <1>6 DEF WaitPark, tables, Loses
  <1> QED
    BY <1>1, <1>2, <1>3, <1>4, <1>5, <1>6 DEF OwnerStep

(* Of the statements of a transaction, only a reclaim that found the lease  *)
(* over under the lock does.                                                *)
LEMMA ProceedsLoses ==
    ASSUME IInv, NEW x \in Servers, Proceeds(x), NEW q \in RunIds
    PROVE  Loses(q)
  <1>1. CASE ClaimWaits(x) \/ SignalNext(x) \/ \E r \in RunIds : ReclaimNext(x, r)
    BY <1>1 DEF ClaimWaits, SignalNext, ReclaimNext, tables, Loses
  <1>2. CASE ClaimCommit(x)
    <2>1. \E r \in RunIds : runs[r].status = "pending" /\ \A p \in RunIds \ {r} : runs'[p] = runs[p]
      BY <1>2, ClaimCommitFacts
    <2> QED
      BY <2>1 DEF Loses
  <1>3. ASSUME NEW s \in StepNames, NEW v \in Results, SaveCommit(x, s, v) PROVE Loses(q)
    <2>1. runs' = runs
      BY <1>3, SaveCommitFacts
    <2> QED
      BY <2>1 DEF Loses
  <1>4. ASSUME NEW s \in StepNames, NEW e \in Events, WaitCommit(x, s, e) PROVE Loses(q)
    <2>1. PICK r \in RunIds, o \in Owners, row \in Row :
              /\ Owns(o, r) /\ runs' = [runs EXCEPT ![r] = row]
              /\ told' = [told EXCEPT ![o] = "parked"]
      BY ZenonT(40), <1>4, WaitCommitFacts
    <2>2. told'[o] = "parked" /\ \A p \in RunIds \ {r} : runs'[p] = runs[p]
      BY <2>1, TableFacts
    <2> QED
      BY <2>1, <2>2 DEF Loses, Owns
  <1>5. CASE SignalCommit(x)
    <2>1. runs'[q].worker_id = runs[q].worker_id
      BY <1>5, SignalCommitFacts
    <2> QED
      BY <2>1 DEF Loses
  <1>6. CASE ReclaimCommit(x)
    BY <1>6, ReclaimCommitFacts DEF Loses
  <1>7. CASE PruneCommit(x)
    <2>1. /\ runs' = [r \in RunIds |-> IF r \in tx[x].held THEN NoRow ELSE runs[r]]
          /\ \A r \in tx[x].held : runs[r].status \in Terminal
      BY <1>7, PruneCommitFacts
    <2> QED
      BY <2>1 DEF Loses, Terminal
  <1> QED
    BY <1>1, <1>2, <1>3, <1>4, <1>5, <1>6, <1>7 DEF Proceeds

(* A running run leaves its owner only by a call the owner is told of, or   *)
(* after its lease is over on the clock.                                    *)
THEOREM LeasesRespected == Spec => LeaseRespected
  <1>1. IInv /\ [Next]_vars => [\A q \in RunIds : Loses(q)]_vars
    <2> SUFFICES ASSUME IInv, Next, NEW q \in RunIds PROVE Loses(q)
      OBVIOUS
    <2>1. ASSUME NEW r \in RunIds, NEW at \in Deadlines \cup Readings, Enqueue(r, at)
          PROVE  Loses(q)
      <3>1. runs[r].status = "absent" /\ \A p \in RunIds \ {r} : runs'[p] = runs[p]
        BY <2>1, TableFacts DEF Enqueue
      <3> QED
        BY <3>1 DEF Loses
    <2>2. ASSUME NEW o \in Owners, NEW r \in RunIds, OwnerStep(o, r) PROVE Loses(q)
      BY <2>2, OwnerStepLoses
    <2>3. ASSUME NEW x \in Servers, Proceeds(x) PROVE Loses(q)
      BY <2>3, ProceedsLoses
    <2>4. ASSUME NEW x \in Servers, Opens(x) PROVE Loses(q)
      <3>1. runs' = runs
        BY <2>4 DEF Opens, ClaimRow, SignalFind, ReclaimFind, PruneFind, tables
      <3> QED
        BY <3>1 DEF Loses
    <2>5. ASSUME NEW x \in Servers, Rollback(x) \/ DeadlockVictim(x) PROVE Loses(q)
      BY <2>5 DEF Rollback, DeadlockVictim, tables, Loses
    <2>6. ASSUME NEW o \in Owners, StaleCall(o) PROVE Loses(q)
      BY <2>6 DEF StaleCall, tables, Loses
    <2>7. CASE Tick
      BY <2>7 DEF Tick, tables, Loses
    <2> QED
      BY <2>1, <2>2, <2>3, <2>4, <2>5, <2>6, <2>7 DEF Next
  <1>2. [\A q \in RunIds : Loses(q)]_vars =>
        [\A r \in RunIds :
          /\ runs[r].status = "running" /\ runs'[r].worker_id # runs[r].worker_id
          /\ told'[runs[r].worker_id] = "open"
          => runs[r].lease_until < clock]_vars
    BY DEF Loses
  <1> QED
    BY <1>1, <1>2, Invariance, PTL DEF Spec, LeaseRespected

-----------------------------------------------------------------------------
(* The refinement: what each commit is in the abstract life of a run.       *)

(* What is seen of the tables. *)
Phase == [r \in RunIds |-> runs[r].status]
Holder == [r \in RunIds |-> runs[r].worker_id]
Recorded == [r \in RunIds |-> [s \in StepNames |-> steps[<<r, s>>]]]
Started == {o \in Owners : told[o] # "none"}

(* A step that leaves status, owner, results and answers alone is not seen. *)
LEMMA Unseen ==
    ASSUME Phase' = Phase, Holder' = Holder, Recorded' = Recorded, Started' = Started
    PROVE  UNCHANGED Lifecycle!vars
  BY DEF Lifecycle!vars, Phase, Holder, Recorded, Started

(* A statement that replaces one row changes what is seen of that run only. *)
LEMMA SeenUpdate ==
    ASSUME IInv, NEW r \in RunIds, NEW row \in Row, runs' = [runs EXCEPT ![r] = row]
    PROVE  /\ Phase' = [Phase EXCEPT ![r] = row.status]
           /\ Holder' = [Holder EXCEPT ![r] = row.worker_id]
           /\ Phase[r] = runs[r].status /\ Holder[r] = runs[r].worker_id
  BY TableFacts DEF Phase, Holder

(* An answer to an owner that has started starts nobody. *)
LEMMA StartedKept ==
    ASSUME IInv, NEW o \in Owners, told[o] # "none", NEW a, a # "none",
           told' = [told EXCEPT ![o] = a]
    PROVE  Started' = Started
  BY TableFacts DEF Started

(* Enqueue is Submit. *)
LEMMA EnqueueSubmits ==
    ASSUME IInv, NEW r \in RunIds, NEW at \in Deadlines \cup Readings, Enqueue(r, at)
    PROVE  Lifecycle!Submit(r)
  <1> DEFINE row == [NoRow EXCEPT !.status = "pending", !.run_at = at]
  <1>1. at \in Nat
    <2>1. at \in Deadlines => at \in Nat
      BY ConstantsAssumption
    <2>2. at \in Readings => at \in Nat
      BY ReadingsType DEF IInv
    <2> QED
      BY <2>1, <2>2
  <1>2. row \in Row /\ row.status = "pending" /\ row.worker_id = NULL
    BY <1>1 DEF NoRow, Row
  <1>3. /\ runs' = [runs EXCEPT ![r] = row] /\ runs[r].status = "absent"
        /\ steps' = steps /\ told' = told
    BY DEF Enqueue, history
  <1> HIDE DEF row
  <1>4. /\ Phase' = [Phase EXCEPT ![r] = "pending"] /\ Holder' = [Holder EXCEPT ![r] = NULL]
        /\ Phase[r] = "absent"
    BY <1>2, <1>3, SeenUpdate
  <1>5. Holder[r] = NULL
    BY <1>3 DEF Holder, IInv, RowOK
  <1>6. Holder' = Holder
    BY <1>4, <1>5 DEF Holder
  <1> QED
    BY <1>3, <1>4, <1>5, <1>6 DEF Lifecycle!Submit, Phase, Holder

(* The commit of a claim is Start. *)
LEMMA ClaimStarts ==
    ASSUME IInv, NEW x \in Servers, ClaimCommit(x)
    PROVE  \E r \in RunIds, o \in Owners : Lifecycle!Start(r, o)
  <1>1. PICK r \in RunIds, o \in Owners, row \in Row :
              /\ o = tx[x].owner /\ tx[x].held = {r} /\ row = tx[x].rows[r]
              /\ row.status = "running" /\ row.worker_id = o /\ row.lease_until \in Nat
              /\ row.attempts >= 1 /\ runs[r].status = "pending" /\ told[o] = "none"
              /\ told' = [told EXCEPT ![o] = "open"] /\ tx' = [tx EXCEPT ![x] = Idle]
              /\ given' = [given EXCEPT ![o] =
                    {k[2] : k \in {j \in Keys : j[1] = r /\ steps'[j] # NULL}}]
              /\ saved' = saved /\ clock' = clock
              /\ runs' \in [RunIds -> Row] /\ steps' \in [Keys -> Values]
              /\ event_waiters' \in [Keys -> Waiter \cup {NULL}]
              /\ runs'[r] = row /\ \A q \in RunIds \ {r} : runs'[q] = runs[q]
              /\ \A k \in Keys : k[1] # r =>
                     steps'[k] = steps[k] /\ event_waiters'[k] = event_waiters[k]
              /\ \A k \in Keys : k[1] = r => event_waiters'[k] = NULL
              /\ \A k \in Keys : steps'[k] = steps[k]
                                 \/ (steps[k] = NULL /\ steps'[k] = JsonNull)
    BY ClaimCommitFacts, Zenon
  <1>2. /\ Phase' = [Phase EXCEPT ![r] = "running"] /\ Holder' = [Holder EXCEPT ![r] = o]
        /\ Phase[r] = "pending"
    BY <1>1 DEF Phase, Holder
  <1>3. o \notin Started /\ Started' = Started \cup {o}
    BY <1>1, TableFacts DEF Started
  <1>4. \A s \in StepNames : \/ Recorded'[r][s] = Recorded[r][s]
                             \/ Recorded[r][s] = NULL /\ Recorded'[r][s] \in {JsonNull}
    <2> SUFFICES ASSUME NEW s \in StepNames
                 PROVE  \/ Recorded'[r][s] = Recorded[r][s]
                        \/ Recorded[r][s] = NULL /\ Recorded'[r][s] \in {JsonNull}
      OBVIOUS
    <2>1. <<r, s>> \in Keys
      BY DEF Keys
    <2> QED
      BY <1>1, <2>1 DEF Recorded
  <1>5. ASSUME NEW q \in RunIds \ {r} PROVE Recorded'[q] = Recorded[q]
    <2>1. \A s \in StepNames : steps'[<<q, s>>] = steps[<<q, s>>]
      BY <1>1 DEF Keys
    <2> QED
      BY <2>1 DEF Recorded
  <1>6. Lifecycle!Start(r, o)
    BY <1>2, <1>3, <1>4, <1>5
       DEF Lifecycle!Start, Lifecycle!Learns, Lifecycle!Keeps, Phase, Holder, Recorded, Started
  <1> QED
    BY <1>6

(* The commit of a checkpoint is Record, or the step has its result already. *)
LEMMA SaveRecords ==
    ASSUME IInv, NEW x \in Servers, NEW s \in StepNames, NEW v \in Results, SaveCommit(x, s, v)
    PROVE  (\E r \in RunIds : Lifecycle!Record(r, s, v)) \/ UNCHANGED Lifecycle!vars
  <1>1. PICK r \in RunIds, o \in Owners :
              /\ o = tx[x].owner /\ tx[x].held = {r} /\ Owns(o, r)
              /\ tx' = [tx EXCEPT ![x] = Idle] /\ saved' = [saved EXCEPT ![o] = saved[o] \cup {s}]
              /\ clock' = clock /\ told' = told /\ given' = given
              /\ runs' = runs /\ event_waiters' = event_waiters
              /\ steps' = IF steps[<<r, s>>] = NULL THEN [steps EXCEPT ![<<r, s>>] = v] ELSE steps
    BY SaveCommitFacts
  <1>2. Phase' = Phase /\ Holder' = Holder /\ Started' = Started /\ Phase[r] = "running"
    BY <1>1 DEF Phase, Holder, Started, Owns
  <1>3. CASE steps[<<r, s>>] = NULL
    <2>1. <<r, s>> \in Keys /\ \A q \in RunIds, z \in StepNames : <<q, z>> \in Keys
      BY DEF Keys
    <2>2. /\ steps' \in [Keys -> Values] /\ steps'[<<r, s>>] = v
          /\ \A k \in Keys : k # <<r, s>> => steps'[k] = steps[k]
      BY <1>1, <1>3, <2>1, TableFacts DEF Values
    <2>3. Recorded' = [Recorded EXCEPT ![r][s] = v]
      <3>1. \A q \in RunIds, z \in StepNames :
               steps'[<<q, z>>] = IF q = r /\ z = s THEN v ELSE steps[<<q, z>>]
        BY <2>1, <2>2
      <3> QED
        BY ZenonT(40), <3>1 DEF Recorded
    <2>4. Recorded[r][s] = NULL
      BY <1>3 DEF Recorded
    <2>5. Lifecycle!Record(r, s, v)
      BY <1>2, <2>3, <2>4 DEF Lifecycle!Record, Phase, Holder, Recorded, Started
    <2> QED
      BY <2>5
  <1>4. CASE steps[<<r, s>>] # NULL
    <2>1. steps' = steps
      BY <1>1, <1>4
    <2> QED
      BY <1>2, <2>1, Unseen DEF Recorded
  <1> QED
    BY <1>3, <1>4

(* An owner that gives up its run for later yields it. *)
LEMMA GiveUpYields ==
    ASSUME IInv, NEW o \in Owners, NEW r \in RunIds, NEW row \in Row, NEW a,
           Owns(o, r), row.status = "pending", row.worker_id = NULL, a # "none",
           runs' = [runs EXCEPT ![r] = row], told' = [told EXCEPT ![o] = a], steps' = steps
    PROVE  Lifecycle!Yield({r})
  <1>1. Phase' = [Phase EXCEPT ![r] = "pending"] /\ Holder' = [Holder EXCEPT ![r] = NULL]
    <2>1. /\ Phase' = [Phase EXCEPT ![r] = row.status]
          /\ Holder' = [Holder EXCEPT ![r] = row.worker_id]
      BY SeenUpdate
    <2> QED
      BY <2>1
  <1>2. Phase[r] = "running" /\ told[o] # "none"
    BY OwnerKnown DEF Phase
  <1>3. Started' = Started
    BY <1>2, StartedKept
  <1>4. /\ Phase' = [q \in RunIds |-> IF q \in {r} THEN "pending" ELSE Phase[q]]
        /\ Holder' = [q \in RunIds |-> IF q \in {r} THEN NULL ELSE Holder[q]]
    BY <1>1 DEF Phase, Holder
  <1> QED
    BY <1>2, <1>3, <1>4 DEF Lifecycle!Yield, Phase, Holder, Started

(* An owner's call is a step of the attempt that holds the run; a renewal   *)
(* of its lease and the first statement of a transaction are not seen.      *)
LEMMA OwnerStepSeen ==
    ASSUME IInv, NEW o \in Owners, NEW r \in RunIds, OwnerStep(o, r)
    PROVE  Lifecycle!Next \/ UNCHANGED Lifecycle!vars
  <1>1. ASSUME NEW t \in Readings, NEW ms \in LeaseMs, Heartbeat(o, r, t, ms)
        PROVE  UNCHANGED Lifecycle!vars
    <2> DEFINE row == [runs[r] EXCEPT !.lease_until = LeaseUntil(t, ms)]
    <2>1. /\ runs' = [runs EXCEPT ![r] = row] /\ steps' = steps
          /\ told' = [told EXCEPT ![o] = "open"] /\ Owns(o, r)
      BY <1>1 DEF Heartbeat, UpdateRunning
    <2>2. runs[r] \in Row /\ told[o] # "none" /\ LeaseUntil(t, ms) \in Nat
      BY <2>1, OwnerKnown, ReadingsType, LeaseUntilType DEF IInv
    <2>3. row \in Row /\ row.status = runs[r].status /\ row.worker_id = runs[r].worker_id
      BY <2>2, RenewedRow
    <2> HIDE DEF row
    <2>4. Phase' = Phase /\ Holder' = Holder
      BY <2>1, <2>3, SeenUpdate DEF Phase, Holder
    <2>5. Started' = Started
      BY <2>1, <2>2, StartedKept
    <2> QED
      BY <2>1, <2>4, <2>5, Unseen DEF Recorded
  <1>2. ASSUME NEW st \in Terminal, Finish(o, r, st)
        PROVE  Lifecycle!Next
    <2> DEFINE row == Left(runs[r], st)
    <2>1. /\ runs' = [runs EXCEPT ![r] = row] /\ steps' = steps
          /\ told' = [told EXCEPT ![o] = st] /\ Owns(o, r)
      BY <1>2 DEF Finish, UpdateRunning
    <2>2. runs[r] \in Row /\ told[o] # "none" /\ st # "none" /\ runs[r].status = "running"
      BY <2>1, OwnerKnown DEF Terminal
    <2>3. row \in Row /\ row.status = st /\ row.worker_id = NULL
      BY <2>2, LeftRow
    <2> HIDE DEF row
    <2>4. /\ Phase' = [Phase EXCEPT ![r] = st] /\ Holder' = [Holder EXCEPT ![r] = NULL]
          /\ Phase[r] = "running"
      BY <2>1, <2>2, <2>3, SeenUpdate
    <2>5. Started' = Started
      BY <2>1, <2>2, StartedKept
    <2>6. Lifecycle!Conclude(r, st)
      BY <2>1, <2>4, <2>5 DEF Lifecycle!Conclude, Phase, Holder, Started
    <2> QED
      BY <2>6 DEF Lifecycle!Next, Lifecycle!Outcomes, Terminal
  <1>3. ASSUME NEW at \in Deadlines, FailRetry(o, r, at)
        PROVE  Lifecycle!Next
    <2>1. /\ runs' = [runs EXCEPT ![r] = Rescheduled(runs[r], at)] /\ steps' = steps
          /\ told' = [told EXCEPT ![o] = "retry"] /\ Owns(o, r)
      BY <1>3 DEF FailRetry, UpdateRunning
    <2>2. runs[r] \in Row /\ at \in Nat
      BY <2>1, OwnerKnown, ConstantsAssumption
    <2>3. Lifecycle!Yield({r})
      BY <2>1, <2>2, RescheduledRow, GiveUpYields
    <2> QED
      BY <2>3 DEF Lifecycle!Next
  <1>4. ASSUME NEW at \in Deadlines \cup {NULL}, Defer(o, r, at)
        PROVE  Lifecycle!Next
    <2>1. /\ runs' = [runs EXCEPT ![r] = Parked(runs[r], at)] /\ steps' = steps
          /\ told' = [told EXCEPT ![o] = "parked"] /\ Owns(o, r)
      BY <1>4 DEF Defer, UpdateRunning
    <2>2. runs[r] \in Row /\ runs[r].attempts >= 1
      BY <2>1, OwnerKnown
    <2>3. Lifecycle!Yield({r})
      BY <2>1, <2>2, ParkedRow, GiveUpYields
    <2> QED
      BY <2>3 DEF Lifecycle!Next
  <1>5. ASSUME NEW x \in Servers, SaveCheck(x, o, r) PROVE UNCHANGED Lifecycle!vars
    BY <1>5, Unseen DEF SaveCheck, tables, history, Phase, Holder, Recorded, Started
  <1>6. ASSUME NEW x \in Servers, NEW d \in Deadlines \cup {NULL}, WaitPark(x, o, r, d)
        PROVE  UNCHANGED Lifecycle!vars
    BY <1>6, Unseen DEF WaitPark, tables, history, Phase, Holder, Recorded, Started
  <1> QED
    BY <1>1, <1>2, <1>3, <1>4, <1>5, <1>6 DEF OwnerStep

(* The commit of wait_for_event yields the run. *)
LEMMA WaitYields ==
    ASSUME IInv, NEW x \in Servers, NEW s \in StepNames, NEW e \in Events, WaitCommit(x, s, e)
    PROVE  Lifecycle!Next
  <1>1. PICK r \in RunIds, o \in Owners, row \in Row :
              /\ Owns(o, r) /\ row.status = "pending" /\ row.worker_id = NULL
              /\ runs' = [runs EXCEPT ![r] = row] /\ told' = [told EXCEPT ![o] = "parked"]
              /\ steps' = steps
    BY WaitCommitFacts
  <1>2. Lifecycle!Yield({r})
    BY <1>1, GiveUpYields
  <1> QED
    BY <1>2 DEF Lifecycle!Next

(* The commit of a reclaim yields the runs it locked, if there are any. *)
LEMMA ReclaimYields ==
    ASSUME IInv, NEW x \in Servers, ReclaimCommit(x)
    PROVE  Lifecycle!Next \/ UNCHANGED Lifecycle!vars
  <1>1. /\ told' = told /\ steps' = steps /\ tx[x].held \in SUBSET RunIds
        /\ \A r \in RunIds \ tx[x].held : runs'[r] = runs[r]
        /\ \A r \in tx[x].held :
              /\ runs[r].status = "running" /\ runs[r].lease_until < clock
              /\ runs'[r].status = "pending" /\ runs'[r].worker_id = NULL
    BY ReclaimCommitFacts
  <1>2. PICK S \in SUBSET RunIds : S = tx[x].held
    BY <1>1
  <1>3. /\ Phase' = [q \in RunIds |-> IF q \in S THEN "pending" ELSE Phase[q]]
        /\ Holder' = [q \in RunIds |-> IF q \in S THEN NULL ELSE Holder[q]]
        /\ \A q \in S : Phase[q] = "running"
    BY <1>1, <1>2 DEF Phase, Holder
  <1>4. CASE S # {}
    <2>1. Lifecycle!Yield(S)
      BY <1>1, <1>3, <1>4 DEF Lifecycle!Yield, Phase, Holder
    <2> QED
      BY <2>1 DEF Lifecycle!Next
  <1>5. CASE S = {}
    <2>1. Phase' = Phase /\ Holder' = Holder
      BY <1>3, <1>5 DEF Phase, Holder
    <2> QED
      BY <1>1, <2>1, Unseen DEF Recorded, Started
  <1> QED
    BY <1>4, <1>5

(* The commit of a signal answers steps of runs that nobody executes. *)
LEMMA SignalDelivers ==
    ASSUME IInv, NEW x \in Servers, SignalCommit(x)
    PROVE  Lifecycle!Next
  <1>1. PICK v \in Results : v = tx[x].value
    BY SignalCommitFacts
  <1>2. /\ told' = told
        /\ \A k \in Keys : steps'[k] = steps[k] \/ (steps[k] = NULL /\ steps'[k] = v)
    BY <1>1, SignalCommitFacts
  <1>3. \A r \in RunIds : /\ runs'[r].status = runs[r].status
                          /\ runs'[r].worker_id = runs[r].worker_id
    BY SignalCommitFacts
  <1>4. Phase' = Phase /\ Holder' = Holder /\ Started' = Started
    BY <1>2, <1>3 DEF Phase, Holder, Started
  <1>5. ASSUME NEW r \in RunIds
        PROVE  \/ Recorded'[r] = Recorded[r]
               \/ /\ Phase[r] = "pending"
                  /\ \A s \in StepNames : \/ Recorded'[r][s] = Recorded[r][s]
                                          \/ Recorded[r][s] = NULL /\ Recorded'[r][s] \in {v}
    <2>1. CASE tx[x].rows[r] = NULL
      <3>1. \A s \in StepNames : steps'[<<r, s>>] = steps[<<r, s>>]
        BY <2>1, SignalCommitFacts
      <3> QED
        BY <3>1 DEF Recorded
    <2>2. CASE tx[x].rows[r] # NULL
      <3>1. Phase[r] = "pending"
        BY <2>2, SignalCommitFacts DEF Phase
      <3>2. \A s \in StepNames : <<r, s>> \in Keys
        BY DEF Keys
      <3> QED
        BY <1>2, <3>1, <3>2 DEF Recorded
    <2> QED
      BY <2>1, <2>2
  <1>6. Lifecycle!Deliver(v)
    BY <1>4, <1>5
       DEF Lifecycle!Deliver, Lifecycle!Learns, Lifecycle!Keeps, Phase, Holder, Recorded, Started
  <1> QED
    BY <1>6 DEF Lifecycle!Next

(* The commit of a cleanup forgets finished runs, with all they recorded. *)
LEMMA PruneForgets ==
    ASSUME IInv, NEW x \in Servers, PruneCommit(x)
    PROVE  Lifecycle!Next \/ UNCHANGED Lifecycle!vars
  <1>1. /\ told' = told /\ tx[x].held \in SUBSET RunIds
        /\ runs' = [r \in RunIds |-> IF r \in tx[x].held THEN NoRow ELSE runs[r]]
        /\ steps' = [k \in Keys |-> IF k[1] \in tx[x].held THEN NULL ELSE steps[k]]
        /\ \A r \in tx[x].held : runs[r].status \in Terminal
    BY PruneCommitFacts
  <1>2. PICK D \in SUBSET RunIds : D = tx[x].held
    BY <1>1
  <1>3. Phase' = [r \in RunIds |-> IF r \in D THEN "absent" ELSE Phase[r]]
    BY <1>1, <1>2, AbsentRow DEF Phase
  <1>4. \A r \in D : runs[r].worker_id = NULL /\ Phase[r] \in Terminal
    BY <1>1, <1>2 DEF Phase, Terminal, IInv, RowOK
  <1>5. Holder' = Holder
    BY <1>1, <1>2, <1>4, AbsentRow DEF Holder
  <1>6. Recorded' = [r \in RunIds |-> IF r \in D THEN [s \in StepNames |-> NULL] ELSE Recorded[r]]
    <2>1. \A r \in RunIds, s \in StepNames :
             steps'[<<r, s>>] = IF r \in D THEN NULL ELSE steps[<<r, s>>]
      BY <1>1, <1>2 DEF Keys
    <2> QED
      BY <2>1 DEF Recorded
  <1>7. CASE D # {}
    <2>1. Lifecycle!Forget(D)
      BY <1>1, <1>3, <1>4, <1>5, <1>6, <1>7
         DEF Lifecycle!Forget, Lifecycle!Outcomes, Terminal, Phase, Holder, Recorded
    <2> QED
      BY <2>1 DEF Lifecycle!Next
  <1>8. CASE D = {}
    <2>1. Phase' = Phase /\ Recorded' = Recorded
      BY <1>3, <1>6, <1>8 DEF Phase, Recorded
    <2> QED
      BY <1>1, <1>5, <2>1, Unseen DEF Started
  <1> QED
    BY <1>7, <1>8

(* The statements of a transaction are not seen before its commit. *)
LEMMA ProceedsSeen ==
    ASSUME IInv, NEW x \in Servers, Proceeds(x)
    PROVE  Lifecycle!Next \/ UNCHANGED Lifecycle!vars
  <1>1. CASE ClaimWaits(x) \/ SignalNext(x) \/ \E r \in RunIds : ReclaimNext(x, r)
    <2>1. UNCHANGED <<tables, history>>
      BY <1>1 DEF ClaimWaits, SignalNext, ReclaimNext
    <2> QED
      BY <2>1, Unseen DEF tables, history, Phase, Holder, Recorded, Started
  <1>2. CASE ClaimCommit(x)
    BY <1>2, ClaimStarts DEF Lifecycle!Next
  <1>3. ASSUME NEW s \in StepNames, NEW v \in Results, SaveCommit(x, s, v)
        PROVE  Lifecycle!Next \/ UNCHANGED Lifecycle!vars
    BY <1>3, SaveRecords DEF Lifecycle!Next
  <1>4. ASSUME NEW s \in StepNames, NEW e \in Events, WaitCommit(x, s, e) PROVE Lifecycle!Next
    BY <1>4, WaitYields
  <1> QED
    BY <1>1, <1>2, <1>3, <1>4, SignalDelivers, ReclaimYields, PruneForgets DEF Proceeds

(* Several servers with concurrent transactions implement the abstract life *)
(* of a run: each commit is one of its steps or is not seen.                *)
THEOREM Refinement == Spec => ImplementsLifecycle
  <1>1. Init => Lifecycle!Init
    <2> SUFFICES ASSUME Init PROVE Lifecycle!Init
      OBVIOUS
    <2>1. \A r \in RunIds : runs[r] = NoRow
      BY DEF Init
    <2>2. \A r \in RunIds, s \in StepNames : steps[<<r, s>>] = NULL
      BY DEF Init, Keys
    <2>3. {o \in Owners : told[o] # "none"} = {}
      BY DEF Init
    <2> QED
      BY <2>1, <2>2, <2>3, AbsentRow DEF Lifecycle!Init
  <1>2. IInv /\ [Next]_vars => [Lifecycle!Next]_Lifecycle!vars
    <2> SUFFICES ASSUME IInv, [Next]_vars
                 PROVE  Lifecycle!Next \/ UNCHANGED Lifecycle!vars
      BY DEF Lifecycle!vars
    <2>1. ASSUME NEW r \in RunIds, NEW at \in Deadlines \cup Readings, Enqueue(r, at)
          PROVE  Lifecycle!Next
      BY <2>1, EnqueueSubmits DEF Lifecycle!Next
    <2>2. ASSUME NEW o \in Owners, NEW r \in RunIds, OwnerStep(o, r)
          PROVE  Lifecycle!Next \/ UNCHANGED Lifecycle!vars
      BY <2>2, OwnerStepSeen
    <2>3. ASSUME NEW o \in Owners, StaleCall(o)
          PROVE  UNCHANGED Lifecycle!vars
      <3>1. Started' = Started
        BY <2>3, StartedKept DEF StaleCall
      <3> QED
        BY <2>3, <3>1, Unseen DEF StaleCall, tables, Phase, Holder, Recorded
    <2>4. ASSUME NEW x \in Servers, Opens(x)
          PROVE  UNCHANGED Lifecycle!vars
      <3>1. UNCHANGED <<tables, history>>
        BY <2>4 DEF Opens, ClaimRow, SignalFind, ReclaimFind, PruneFind
      <3> QED
        BY <3>1, Unseen DEF tables, history, Phase, Holder, Recorded, Started
    <2>5. ASSUME NEW x \in Servers, Proceeds(x)
          PROVE  Lifecycle!Next \/ UNCHANGED Lifecycle!vars
      BY <2>5, ProceedsSeen
    <2>6. ASSUME NEW x \in Servers, Rollback(x) \/ DeadlockVictim(x)
          PROVE  UNCHANGED Lifecycle!vars
      <3>1. UNCHANGED <<tables, history>>
        BY <2>6 DEF Rollback, DeadlockVictim
      <3> QED
        BY <3>1, Unseen DEF tables, history, Phase, Holder, Recorded, Started
    <2>7. CASE Tick \/ UNCHANGED vars
      <3>1. UNCHANGED <<tables, history>>
        BY <2>7 DEF Tick, vars
      <3> QED
        BY <3>1, Unseen DEF tables, history, Phase, Holder, Recorded, Started
    <2> QED
      BY <2>1, <2>2, <2>3, <2>4, <2>5, <2>6, <2>7 DEF Next
  <1> QED
    BY <1>1, <1>2, Invariance, PTL DEF Spec, ImplementsLifecycle, Lifecycle!Spec
=============================================================================
