--------------------------- MODULE Channels_proofs ---------------------------
(* Proofs about Channels: a client is shown what was committed, in order,   *)
(* without a skip and without a hole in what came from the peer, for any     *)
(* capacities, page size and bounds.                                         *)
EXTENDS Channels, FiniteSetTheorems, SequenceTheorems, WellFoundedInduction, TLAPS

(* A set of naturals with a bound has a maximum, which Max chooses.          *)
LEMMA MaxExists ==
    ASSUME NEW n \in Nat, NEW S, S \subseteq 0..n, S # {}
    PROVE  Max(S) \in S /\ \A y \in S : y <= Max(S)
<1> DEFINE T == {n - x : x \in S}
<1>1. T \subseteq Nat /\ T # {}
  OBVIOUS
<1>2. PICK m \in T : \A k \in T : ~(<<k, m>> \in OpToRel(<, Nat))
  BY <1>1, NatLessThanWellFounded, WFMin
<1>3. \A k \in T : ~(k < m)
  BY <1>1, <1>2 DEF OpToRel
<1>4. PICK x \in S : m = n - x
  OBVIOUS
<1>5. \A y \in S : y <= x
  BY <1>3, <1>4
<1>6. \E z \in S : \A y \in S : z >= y
  BY <1>5
<1> QED
  BY <1>6 DEF Max
-----------------------------------------------------------------------------
(* The store keeps the rows above its floor and up to its head.              *)
StoreRec == [rows : SUBSET Nat, head : Nat, floor : Nat, epoch : Nat, sequence : Nat,
             origin : Nat, aged : Nat, idle : BOOLEAN]
Shape(s) == s \in StoreRec /\ s.floor <= s.head /\ s.rows = (s.floor + 1)..s.head

(* What a change of the rows leaves alone.                                   *)
SameMarks(s, t) == t.epoch = s.epoch /\ t.sequence = s.sequence /\ t.origin = s.origin

(* Deleting the oldest rows leaves the rows above the new floor.             *)
LEMMA DeleteShape ==
    ASSUME NEW s, Shape(s), NEW gone \in SUBSET s.rows,
           \A r \in gone : \A q \in s.rows : q < r => q \in gone
    PROVE  Shape(Delete(s, gone)) /\ Delete(s, gone).head = s.head /\ SameMarks(s, Delete(s, gone))
<1> DEFINE m == Max({s.floor} \cup gone)
           left == s.rows \ gone
<1>1. s \in StoreRec /\ s.floor \in Nat /\ s.head \in Nat /\ s.floor <= s.head
      /\ s.rows = (s.floor + 1)..s.head
  BY DEF Shape, StoreRec
<1>2. {s.floor} \cup gone \subseteq 0..s.head
  BY <1>1
<1>3. m \in {s.floor} \cup gone /\ \A y \in {s.floor} \cup gone : y <= m
  BY <1>1, <1>2, MaxExists
<1>4. m \in Nat /\ s.floor <= m /\ m <= s.head
  BY <1>1, <1>2, <1>3
<1> HIDE DEF m
<1>5. left = (m + 1)..s.head
  <2>1. ASSUME NEW r \in left PROVE r \in (m + 1)..s.head
    <3>1. r \in Nat /\ s.floor < r /\ r <= s.head
      BY <1>1
    <3>2. ~(r <= m)
      BY <1>1, <1>3, <1>4, <3>1
    <3> QED
      BY <1>4, <3>1, <3>2
  <2>2. ASSUME NEW r \in (m + 1)..s.head PROVE r \in left
    <3>1. r \in (s.floor + 1)..s.head
      BY <1>1, <1>4
    <3>2. ~(r <= m)
      BY <1>4
    <3> QED
      BY <1>1, <1>3, <3>1, <3>2
  <2> QED
    BY <2>1, <2>2
<1>6. left \in SUBSET Nat
  BY <1>1
<1> HIDE DEF left
<1>7. Delete(s, gone) = [s EXCEPT !.rows = left, !.floor = m]
  BY <1>1 DEF Delete, StoreRec, left, m
<1>8. Delete(s, gone) \in StoreRec
  BY <1>1, <1>4, <1>6, <1>7 DEF StoreRec
<1>9. Delete(s, gone).rows = left /\ Delete(s, gone).floor = m /\ Delete(s, gone).head = s.head
  BY <1>1, <1>7 DEF StoreRec
<1>10. SameMarks(s, Delete(s, gone))
  BY <1>1, <1>7 DEF StoreRec, SameMarks
<1> QED
  BY <1>4, <1>5, <1>8, <1>9, <1>10 DEF Shape

(* The rows over the budget are the oldest.                                  *)
LEMMA ExcessOldest ==
    ASSUME NEW s, Shape(s)
    PROVE  /\ Excess(s) \in SUBSET s.rows
           /\ \A r \in Excess(s) : \A q \in s.rows : q < r => q \in Excess(s)
<1>1. s.floor \in Nat /\ s.head \in Nat /\ s.rows = (s.floor + 1)..s.head /\ Capacity \in Nat
  BY SizeAssumption DEF Shape, StoreRec
<1>2. IsFiniteSet(s.rows) /\ s.rows \subseteq Nat
  <2>1. IsFiniteSet((s.floor + 1)..s.head)
    <3>1. s.floor + 1 \in Int /\ s.head \in Int
      BY <1>1
    <3> QED
      BY <3>1, FS_Interval
  <2> QED
    BY <1>1, <2>1
<1>3. ASSUME NEW r \in Excess(s), NEW q \in s.rows, q < r
      PROVE  q \in Excess(s)
  <2> DEFINE above(x) == {y \in s.rows : y > x}
  <2>1. r \in s.rows /\ Cardinality(above(r)) >= Capacity
    BY DEF Excess
  <2>2. above(r) \in SUBSET above(q) /\ above(q) \in SUBSET s.rows
    BY <1>2, <1>3, <2>1
  <2>3. IsFiniteSet(above(q))
    BY <1>2, <2>2, FS_Subset
  <2>4. IsFiniteSet(above(r)) /\ Cardinality(above(r)) <= Cardinality(above(q))
    BY <2>2, <2>3, FS_Subset
  <2>5. Cardinality(above(r)) \in Nat /\ Cardinality(above(q)) \in Nat
    BY <2>3, <2>4, FS_CardinalityType
  <2>6. Cardinality(above(q)) >= Capacity
    BY <1>1, <2>1, <2>4, <2>5
  <2> QED
    BY <2>6 DEF Excess
<1> QED
  BY <1>3 DEF Excess

(* An insert adds the next row and retires the oldest ones.                  *)
LEMMA InsertShape ==
    ASSUME NEW s, Shape(s)
    PROVE  Shape(Insert(s)) /\ Insert(s).head = s.head + 1 /\ SameMarks(s, Insert(s))
<1> DEFINE more == s.rows \cup {s.head + 1}
           t == [s EXCEPT !.head = @ + 1, !.rows = @ \cup {s.head + 1}, !.idle = FALSE]
<1>1. s \in StoreRec /\ s.floor \in Nat /\ s.head \in Nat /\ s.floor <= s.head
      /\ s.rows = (s.floor + 1)..s.head
  BY DEF Shape, StoreRec
<1>2. more \in SUBSET Nat /\ more = (s.floor + 1)..(s.head + 1) /\ s.head + 1 \in Nat
  BY <1>1
<1>3. t = [s EXCEPT !.head = s.head + 1, !.rows = more, !.idle = FALSE]
  BY <1>1 DEF StoreRec
<1> HIDE DEF more, t
<1>4. t \in StoreRec
  BY <1>1, <1>2, <1>3 DEF StoreRec
<1>5. t.head = s.head + 1 /\ t.rows = more /\ t.floor = s.floor /\ SameMarks(s, t)
  BY <1>1, <1>3 DEF StoreRec, SameMarks
<1>6. Shape(t)
  BY <1>1, <1>2, <1>4, <1>5 DEF Shape
<1>7. /\ Shape(Delete(t, Excess(t))) /\ Delete(t, Excess(t)).head = t.head
      /\ SameMarks(t, Delete(t, Excess(t)))
  BY <1>6, ExcessOldest, DeleteShape
<1>8. Insert(s) = Delete(t, Excess(t))
  BY DEF Insert, t
<1> QED
  BY <1>5, <1>7, <1>8 DEF SameMarks

(* A new epoch changes nothing else.                                         *)
LEMMA RotateShape ==
    ASSUME NEW s, Shape(s)
    PROVE  /\ Shape(Rotate(s)) /\ Rotate(s).head = s.head /\ Rotate(s).epoch = s.epoch + 1
           /\ Rotate(s).origin = s.origin /\ Rotate(s).sequence = s.sequence
<1>1. s \in StoreRec /\ s.epoch \in Nat /\ s.epoch + 1 \in Nat
  BY DEF Shape, StoreRec
<1>2. Rotate(s) = [s EXCEPT !.epoch = s.epoch + 1]
  BY <1>1 DEF Rotate, StoreRec
<1>3. Rotate(s) \in StoreRec
  BY <1>1, <1>2 DEF StoreRec
<1>4. /\ Rotate(s).rows = s.rows /\ Rotate(s).floor = s.floor /\ Rotate(s).head = s.head
      /\ Rotate(s).epoch = s.epoch + 1
      /\ Rotate(s).origin = s.origin /\ Rotate(s).sequence = s.sequence
  BY <1>1, <1>2 DEF StoreRec
<1> QED
  BY <1>3, <1>4 DEF Shape

(* An event of the peer takes the next row, in a new epoch after a gap.      *)
LEMMA IngestedShape ==
    ASSUME NEW s, Shape(s), NEW n \in Nat
    PROVE  /\ Shape(Ingested(s, n)) /\ Ingested(s, n).head = s.head + 1
           /\ Ingested(s, n).origin = n
           /\ Ingested(s, n).epoch = IF n > s.origin + 1 THEN s.epoch + 1 ELSE s.epoch
<1> DEFINE a == IF n > s.origin + 1 THEN Rotate(s) ELSE s
           b == Insert(a)
<1>1. Shape(a) /\ a.head = s.head /\ a.epoch = IF n > s.origin + 1 THEN s.epoch + 1 ELSE s.epoch
  BY RotateShape
<1> HIDE DEF a
<1>2. Shape(b) /\ b.head = a.head + 1 /\ b.epoch = a.epoch
  BY <1>1, InsertShape DEF SameMarks
<1>3. Ingested(s, n) = [b EXCEPT !.origin = n]
  BY DEF Ingested, a
<1> HIDE DEF b
<1>4. b \in StoreRec
  BY <1>2 DEF Shape
<1>5. [b EXCEPT !.origin = n] \in StoreRec
  BY <1>4 DEF StoreRec
<1> DEFINE c == [b EXCEPT !.origin = n]
<1>6. c.head = b.head /\ c.origin = n /\ c.epoch = b.epoch /\ c.rows = b.rows /\ c.floor = b.floor
  BY <1>4 DEF StoreRec
<1> QED
  BY <1>1, <1>2, <1>3, <1>5, <1>6 DEF Shape

(* The rows that age retires are the oldest.                                 *)
LEMMA ExpiredOldest ==
    ASSUME NEW s, Shape(s)
    PROVE  /\ Expired(s) \in SUBSET s.rows
           /\ \A r \in Expired(s) : \A q \in s.rows : q < r => q \in Expired(s)
<1>1. s.rows \subseteq Nat /\ s.aged \in Nat
  BY DEF Shape, StoreRec
<1> QED
  BY <1>1 DEF Expired

(* A page is the rows that follow the position, without a skip, when the     *)
(* position is not stale.                                                    *)
LEMMA ReadsOn ==
    ASSUME NEW s, Shape(s), NEW pos \in Nat, pos <= s.head,
           ~(pos < s.floor), ~(pos < ExpiredFloor(s))
    PROVE  \E k \in Nat : pos + k <= s.head /\ ReadAfter(s, pos) = [i \in 1..k |-> pos + i]
<1> DEFINE rest == {r \in s.rows : r > Max({pos, ExpiredFloor(s)})}
           page == {r \in rest : Cardinality({q \in rest : q < r}) < Page}
<1>1. s.floor \in Nat /\ s.head \in Nat /\ s.rows = (s.floor + 1)..s.head /\ Page \in Nat
  BY SizeAssumption DEF Shape, StoreRec
<1>2. ExpiredFloor(s) \in Nat
  <2>1. {0} \cup Expired(s) \subseteq 0..s.head
    BY <1>1, ExpiredOldest
  <2>2. Max({0} \cup Expired(s)) \in {0} \cup Expired(s)
    BY <1>1, <2>1, MaxExists
  <2> QED
    BY <2>1, <2>2 DEF ExpiredFloor
<1>3. Max({pos, ExpiredFloor(s)}) = pos
  <2> DEFINE e == ExpiredFloor(s)
  <2>1. e \in Nat /\ e <= pos
    BY <1>2
  <2> HIDE DEF e
  <2>2. {pos, e} \subseteq 0..pos
    BY <2>1
  <2>3. Max({pos, e}) \in {pos, e} /\ pos <= Max({pos, e})
    BY <2>2, MaxExists
  <2>4. Max({pos, e}) = pos
    BY <2>1, <2>3
  <2> QED
    BY <2>4 DEF e
<1>4. rest = (pos + 1)..s.head
  <2>1. pos \in Nat /\ s.floor <= pos
    BY <1>1
  <2> QED
    BY <1>1, <1>3, <2>1
<1> HIDE DEF rest
<1>5. ASSUME NEW r \in rest
      PROVE  Cardinality({q \in rest : q < r}) = r - (pos + 1)
  <2>a. pos + 1 \in Int /\ r - 1 \in Int /\ r \in Nat /\ pos < r /\ r <= s.head
    BY <1>1, <1>4
  <2>b. \A q \in rest : q < r => q \in (pos + 1)..(r - 1)
    BY <1>1, <1>4, <2>a
  <2>c. \A q \in (pos + 1)..(r - 1) : q \in rest /\ q < r
    BY <1>1, <1>4, <2>a
  <2>1. {q \in rest : q < r} = (pos + 1)..(r - 1)
    BY <2>b, <2>c
  <2>2. Cardinality((pos + 1)..(r - 1)) = IF pos + 1 > r - 1 THEN 0 ELSE (r - 1) - (pos + 1) + 1
    BY <2>a, FS_Interval
  <2>3. Cardinality((pos + 1)..(r - 1)) = r - (pos + 1)
    BY <2>a, <2>2
  <2> QED
    BY ONLY <2>1, <2>3, Zenon
<1>6. PICK k \in Nat : pos + k <= s.head /\ page = (pos + 1)..(pos + k)
  <2>1. page = {r \in rest : r - (pos + 1) < Page}
    BY <1>5
  <2>2. CASE pos + Page <= s.head
    <3>a. \A r \in rest : r - (pos + 1) < Page => r \in (pos + 1)..(pos + Page)
      BY <1>1, <1>4, <2>2
    <3>b. \A r \in (pos + 1)..(pos + Page) : r \in rest /\ r - (pos + 1) < Page
      BY <1>1, <1>4, <2>2
    <3>1. page = (pos + 1)..(pos + Page)
      BY <2>1, <3>a, <3>b
    <3> QED
      BY <1>1, <2>2, <3>1
  <2>3. CASE ~(pos + Page <= s.head)
    <3>a. s.head - pos \in Nat /\ pos + (s.head - pos) = s.head
      BY <1>1
    <3>b. \A r \in rest : r - (pos + 1) < Page
      BY <1>1, <1>4, <2>3
    <3>1. page = (pos + 1)..(pos + (s.head - pos))
      BY <1>4, <2>1, <3>a, <3>b
    <3>2. pos + (s.head - pos) <= s.head
      BY <1>1
    <3> QED
      BY <3>a, <3>1, <3>2
  <2> QED
    BY <2>2, <2>3
<1> HIDE DEF page
<1>7. Cardinality(page) = k
  <2>1. pos + 1 \in Int /\ pos + k \in Int
    OBVIOUS
  <2>2. Cardinality((pos + 1)..(pos + k)) = IF pos + 1 > pos + k THEN 0 ELSE (pos + k) - (pos + 1) + 1
    BY <2>1, FS_Interval
  <2> QED
    BY <1>6, <2>2
<1>8. ASSUME NEW r \in page
      PROVE  Cardinality({q \in page : q < r}) = r - (pos + 1)
  <2>a. pos + 1 \in Int /\ r - 1 \in Int /\ r \in Nat /\ pos < r /\ r <= pos + k
    BY <1>6
  <2>b. \A q \in page : q < r => q \in (pos + 1)..(r - 1)
    BY <1>6, <2>a
  <2>c. \A q \in (pos + 1)..(r - 1) : q \in page /\ q < r
    BY <1>6, <2>a
  <2>1. {q \in page : q < r} = (pos + 1)..(r - 1)
    BY <2>b, <2>c
  <2>2. Cardinality((pos + 1)..(r - 1)) = IF pos + 1 > r - 1 THEN 0 ELSE (r - 1) - (pos + 1) + 1
    BY <2>a, FS_Interval
  <2>3. Cardinality((pos + 1)..(r - 1)) = r - (pos + 1)
    BY <2>a, <2>2
  <2> QED
    BY ONLY <2>1, <2>3, Zenon
<1>9. ASSUME NEW i \in 1..k
      PROVE  (CHOOSE r \in page : Cardinality({q \in page : q < r}) = i - 1) = pos + i
  <2>1. pos + i \in page /\ Cardinality({q \in page : q < pos + i}) = i - 1
    BY <1>6, <1>8
  <2>2. \A r \in page : Cardinality({q \in page : q < r}) = i - 1 => r = pos + i
    BY <1>6, <1>8
  <2> QED
    BY <2>1, <2>2
<1>10. ReadAfter(s, pos) =
         [i \in 1..k |-> CHOOSE r \in page : Cardinality({q \in page : q < r}) = i - 1]
  BY <1>7 DEF ReadAfter, page, rest
<1>11. ReadAfter(s, pos) = [i \in 1..k |-> pos + i]
  BY <1>9, <1>10
<1> QED
  BY <1>6, <1>11

-----------------------------------------------------------------------------
(* The position of a client: what it was shown since its start.              *)
Pos == client.start + Len(client.got)

(* An event of the peer is among the rows of the client's history, and the   *)
(* row of one is backed by the rows of all that came before it.              *)
Has(n, j) == \E h \in (client.start + 1)..n : log[h] = <<"peer", j>>
Backed(i) ==
    \A k \in Nat : log[i] = <<"peer", k>> => \A j \in (client.base + 1)..k : Has(i, j)

(* The store is without a hole from the client's start to its head.          *)
Whole ==
    /\ \A i \in (client.start + 1)..store.head : Backed(i)
    /\ \A j \in (client.base + 1)..store.origin : Has(store.head, j)

(* A position and an epoch a stream may go on from.                          *)
Valid(c) == /\ c.pos = Pos /\ c.epoch <= store.epoch
            /\ c.epoch = store.epoch => Whole

Shown == /\ Pos <= store.head /\ client.got = SubSeq(log, client.start + 1, Pos)
         /\ \A i \in (client.start + 1)..Pos : Backed(i)
CursorInv == client.cursor # NoCursor => Valid(client.cursor)
StreamInv == Delivering => Valid(conn.after)
PageInv == conn.pc = "send" =>
    /\ conn.batch # <<>> /\ Pos + Len(conn.batch) <= store.head
    /\ \A i \in 1..Len(conn.batch) : conn.batch[i] = Pos + i
    /\ \A i \in (client.start + 1)..(Pos + Len(conn.batch)) : Backed(i)

Entries == {"peer", "local"} \X Nat
Place == [epoch : Nat, pos : Nat]
ClientRec == [cursor : Place \cup {NoCursor}, start : Nat, base : Nat, got : Seq(Entries)]
ConnRec == [pc : {"off", "synced", "hooked"} \cup Streaming, after : Place, batch : Seq(Nat),
            more : BOOLEAN, changed : BOOLEAN, reset : BOOLEAN]
Typed == /\ Shape(store) /\ log \in Seq(Entries) /\ Len(log) = store.head
         /\ client \in ClientRec /\ conn \in ConnRec

ReplayInv == Typed /\ Shown /\ CursorInv /\ StreamInv /\ PageInv

(* What the broker does to the store: rows may go, the epoch may grow, and   *)
(* one row may be added, in a new epoch if it skips an event of the peer.    *)
StoreStep ==
    /\ Shape(store') /\ store.epoch <= store'.epoch
    /\ client' = client /\ conn' = conn
    /\ \/ log' = log /\ store'.head = store.head /\ store'.origin = store.origin
       \/ \E n \in Nat : /\ log' = Append(log, <<"local", n>>)
                         /\ store'.head = store.head + 1 /\ store'.origin = store.origin
       \/ /\ log' = Append(log, <<"peer", store'.origin>>)
          /\ store'.head = store.head + 1 /\ store.origin < store'.origin
          /\ store'.epoch = store.epoch => store'.origin = store.origin + 1

(* The numbers of a typed state.                                             *)
LEMMA Numbers ==
    ASSUME Typed
    PROVE  /\ client.start \in Nat /\ client.base \in Nat /\ Pos \in Nat /\ client.start <= Pos
           /\ Len(client.got) \in Nat /\ client.got \in Seq(Entries)
           /\ store.head \in Nat /\ store.origin \in Nat /\ store.epoch \in Nat
<1>1. client.start \in Nat /\ client.base \in Nat /\ client.got \in Seq(Entries)
  BY DEF Typed, ClientRec
<1>2. Len(client.got) \in Nat
  BY <1>1, LenProperties
<1>3. store.head \in Nat /\ store.origin \in Nat /\ store.epoch \in Nat
  BY DEF Typed, Shape, StoreRec
<1> QED
  BY <1>1, <1>2, <1>3 DEF Pos

(* The rows that were there stay.                                            *)
LEMMA LogGrows ==
    ASSUME Typed, StoreStep
    PROVE  /\ log' \in Seq(Entries) /\ Len(log') = store'.head
           /\ store.head <= store'.head
           /\ \A i \in 1..store.head : log'[i] = log[i]
<1>1. store.head \in Nat /\ log \in Seq(Entries) /\ Len(log) = store.head /\ store'.origin \in Nat
  BY Numbers DEF Typed, StoreStep, Shape, StoreRec
<1>2. CASE log' = log /\ store'.head = store.head
  BY <1>1, <1>2
<1>3. ASSUME NEW e \in Entries, log' = Append(log, e), store'.head = store.head + 1
      PROVE  /\ log' \in Seq(Entries) /\ Len(log') = store'.head
             /\ store.head <= store'.head
             /\ \A i \in 1..store.head : log'[i] = log[i]
  BY <1>1, <1>3, AppendProperties
<1>4. /\ \A n \in Nat : <<"local", n>> \in Entries
      /\ <<"peer", store'.origin>> \in Entries
  BY <1>1 DEF Entries
<1> QED
  BY <1>2, <1>3, <1>4 DEF StoreStep

(* What was backed stays so.                                                 *)
LEMMA BackedKept ==
    ASSUME Typed, StoreStep, NEW i \in (client.start + 1)..store.head, Backed(i)
    PROVE  Backed(i)'
<1>1. client.start \in Nat /\ store.head \in Nat
  BY Numbers
<1>2. client' = client
  BY DEF StoreStep
<1>3. \A h \in (client.start + 1)..i : log'[h] = log[h]
  BY <1>1, LogGrows
<1>4. log'[i] = log[i]
  BY <1>1, LogGrows
<1> QED
  BY <1>2, <1>3, <1>4 DEF Backed, Has

(* An event the rows had, they still have.                                   *)
LEMMA HasKept ==
    ASSUME Typed, StoreStep, NEW j \in Nat, Has(store.head, j)
    PROVE  \E h \in (client.start + 1)..store'.head : h <= store.head /\ log'[h] = <<"peer", j>>
<1>1. client.start \in Nat /\ store.head \in Nat /\ store'.head \in Nat /\ store.head <= store'.head
  BY Numbers, LogGrows DEF StoreStep, Shape, StoreRec
<1>2. PICK h \in (client.start + 1)..store.head : log[h] = <<"peer", j>>
  BY DEF Has
<1>3. log'[h] = log[h] /\ h \in (client.start + 1)..store'.head /\ h <= store.head
  BY <1>1, <1>2, LogGrows
<1> QED
  BY <1>2, <1>3

(* Within an epoch the store stays without a hole.                           *)
LEMMA WholeGrows ==
    ASSUME Typed, Shown, StoreStep, store'.epoch = store.epoch, Whole
    PROVE  Whole'
<1>1. /\ client.start \in Nat /\ client.base \in Nat /\ store.head \in Nat /\ store.origin \in Nat
      /\ client.start <= store.head
  <2>1. Pos <= store.head
    BY DEF Shown
  <2> QED
    BY <2>1, Numbers
<1>2. client' = client /\ store'.origin \in Nat /\ store'.head \in Nat /\ store.head <= store'.head
  BY LogGrows DEF StoreStep, Shape, StoreRec
<1>3. \A i \in (client.start + 1)..store.head : Backed(i)'
  BY BackedKept DEF Whole
<1>4. ASSUME NEW j \in (client.base + 1)..store.origin
      PROVE  \E h \in (client.start + 1)..store'.head : log'[h] = <<"peer", j>>
  <2>1. Has(store.head, j) /\ j \in Nat
    BY <1>1 DEF Whole
  <2> QED
    BY <1>2, <2>1, HasKept DEF Has
<1>5. CASE store'.head = store.head /\ store'.origin = store.origin
  BY <1>2, <1>3, <1>4, <1>5 DEF Whole, Has
<1>6. ASSUME NEW n \in Nat, log' = Append(log, <<"local", n>>), store'.head = store.head + 1,
             store'.origin = store.origin
      PROVE  Whole'
  <2>1. log'[store.head + 1] = <<"local", n>>
    <3>1. <<"local", n>> \in Entries
      BY DEF Entries
    <3> QED
      BY <1>6, <3>1, AppendProperties DEF Typed
  <2>2. \A k \in Nat : log'[store.head + 1] # <<"peer", k>>
    BY ONLY <2>1
  <2>3. ASSUME NEW i \in (client.start + 1)..store'.head
        PROVE  Backed(i)'
    <3>1. i \in (client.start + 1)..store.head \/ i = store'.head
      BY <1>1, <1>6
    <3>2. CASE i = store'.head
      BY <1>6, <2>2, <3>2 DEF Backed
    <3> QED
      BY <1>3, <3>1, <3>2
  <2> QED
    BY <1>2, <1>4, <1>6, <2>3 DEF Whole, Has
<1>7. ASSUME log' = Append(log, <<"peer", store'.origin>>), store'.head = store.head + 1,
             store'.origin = store.origin + 1
      PROVE  Whole'
  <2>1. log'[store.head + 1] = <<"peer", store'.origin>>
    <3>1. <<"peer", store'.origin>> \in Entries
      BY <1>2 DEF Entries
    <3> QED
      BY <1>7, <3>1, AppendProperties DEF Typed
  <2>2. ASSUME NEW j \in (client.base + 1)..store'.origin
        PROVE  \E h \in (client.start + 1)..store'.head : log'[h] = <<"peer", j>>
    <3>1. CASE j = store'.origin
      <4>1. store'.head \in (client.start + 1)..store'.head
        BY <1>1, <1>7
      <4> QED
        BY <1>7, <2>1, <3>1, <4>1
    <3>2. CASE j # store'.origin
      <4>1. j \in (client.base + 1)..store.origin
        BY <1>1, <1>7, <3>2
      <4> QED
        BY <1>4, <4>1
    <3> QED
      BY <3>1, <3>2
  <2>3. ASSUME NEW i \in (client.start + 1)..store'.head
        PROVE  Backed(i)'
    <3>1. i \in (client.start + 1)..store.head \/ i = store'.head
      BY <1>1, <1>7
    <3>2. CASE i = store'.head
      <4>1. ASSUME NEW k \in Nat, log'[i] = <<"peer", k>>
            PROVE  k = store'.origin
        <5>1. <<"peer", store'.origin>> = <<"peer", k>>
          BY <1>7, <2>1, <3>2, <4>1
        <5> QED
          BY ONLY <5>1
      <4> QED
        BY <1>2, <2>2, <3>2, <4>1 DEF Backed, Has
    <3> QED
      BY <1>3, <3>1, <3>2
  <2> QED
    BY <1>2, <2>2, <2>3 DEF Whole, Has
<1> QED
  BY <1>5, <1>6, <1>7 DEF StoreStep

(* A step of the broker keeps what the clients may go on from.               *)
LEMMA ValidKept ==
    ASSUME Typed, Shown, StoreStep, NEW c \in Place, Valid(c)
    PROVE  Valid(c)'
<1>1. store.epoch \in Nat /\ store'.epoch \in Nat /\ c.epoch \in Nat /\ store.epoch <= store'.epoch
  BY Numbers DEF StoreStep, Shape, StoreRec, Place
<1>2. Pos' = Pos
  BY DEF Pos, StoreStep
<1>3. c.pos = Pos /\ c.epoch <= store.epoch
  BY DEF Valid
<1>4. c.epoch = store'.epoch => store'.epoch = store.epoch /\ Whole
  BY <1>1, <1>3 DEF Valid
<1>5. c.epoch = store'.epoch => Whole'
  BY <1>4, WholeGrows
<1> QED
  BY <1>1, <1>2, <1>3, <1>5 DEF Valid

(* A step of the broker keeps what a client was shown and is to be shown.    *)
LEMMA StoreStepSafe ==
    ASSUME ReplayInv, StoreStep
    PROVE  ReplayInv'
<1> USE DEF ReplayInv
<1>1. client' = client /\ conn' = conn /\ Pos' = Pos
  BY DEF StoreStep, Pos
<1>2. Typed'
  BY <1>1, LogGrows DEF Typed, StoreStep
<1>3. /\ client.start \in Nat /\ Pos \in Nat /\ store.head \in Nat /\ Pos <= store.head
      /\ store'.head \in Nat /\ store.head <= store'.head
  BY Numbers, LogGrows DEF Shown, StoreStep, Shape, StoreRec
<1>4. Shown'
  <2>1. \A i \in (client.start + 1)..Pos : Backed(i)'
    <3>1. \A i \in (client.start + 1)..Pos : Backed(i) /\ i \in (client.start + 1)..store.head
      BY <1>3 DEF Shown
    <3> QED
      BY <3>1, BackedKept
  <2>2. SubSeq(log', client.start + 1, Pos) = SubSeq(log, client.start + 1, Pos)
    <3> DEFINE a == SubSeq(log, client.start + 1, Pos)
               b == SubSeq(log', client.start + 1, Pos)
    <3>1. \A i \in (client.start + 1)..Pos : log[i] \in Entries /\ log'[i] = log[i] /\ i \in 1..store.head
      BY <1>3, LogGrows, ElementOfSeq DEF Typed
    <3>2. client.start + 1 \in Int /\ Pos \in Int
      BY <1>3
    <3>3. /\ a \in Seq(Entries)
          /\ Len(a) = IF client.start + 1 <= Pos THEN Pos - (client.start + 1) + 1 ELSE 0
          /\ \A i \in 1..(Pos - (client.start + 1) + 1) : a[i] = log[(client.start + 1) + i - 1]
      BY <3>1, <3>2, SubSeqProperties
    <3>4. /\ b \in Seq(Entries)
          /\ Len(b) = IF client.start + 1 <= Pos THEN Pos - (client.start + 1) + 1 ELSE 0
          /\ \A i \in 1..(Pos - (client.start + 1) + 1) : b[i] = log'[(client.start + 1) + i - 1]
      BY <3>1, <3>2, SubSeqProperties
    <3> HIDE DEF a, b
    <3>5. ASSUME NEW i \in 1..Len(a)
          PROVE  a[i] = b[i]
      <4>1. /\ i \in 1..(Pos - (client.start + 1) + 1)
            /\ (client.start + 1) + i - 1 \in (client.start + 1)..Pos
        BY <1>3, <3>3
      <4> QED
        BY <3>1, <3>3, <3>4, <4>1
    <3>6. a = b
      BY <3>3, <3>4, <3>5, SeqEqual
    <3> QED
      BY <3>6 DEF a, b
  <2>3. Pos <= store'.head
    BY <1>3
  <2> QED
    BY <1>1, <2>1, <2>2, <2>3 DEF Shown
<1>5. CursorInv'
  <2>1. client.cursor # NoCursor => client.cursor \in Place
    BY DEF Typed, ClientRec
  <2>2. client.cursor # NoCursor => Valid(client.cursor)
    BY DEF CursorInv
  <2>3. \A c \in Place : Valid(c) => Valid(c)'
    BY ValidKept
  <2>4. \A c \in Place : Valid(c)' =>
          /\ c.pos = Pos' /\ c.epoch <= store'.epoch /\ (c.epoch = store'.epoch => Whole')
    BY DEF Valid
  <2> QED
    BY <1>1, <2>1, <2>2, <2>3, <2>4 DEF CursorInv, Valid
<1>6. StreamInv'
  <2>1. conn.after \in Place /\ (Delivering => Valid(conn.after))
    BY DEF Typed, ConnRec, StreamInv
  <2>2. \A c \in Place : Valid(c) => Valid(c)'
    BY ValidKept
  <2>3. \A c \in Place : Valid(c)' =>
          /\ c.pos = Pos' /\ c.epoch <= store'.epoch /\ (c.epoch = store'.epoch => Whole')
    BY DEF Valid
  <2> QED
    BY <1>1, <2>1, <2>2, <2>3 DEF StreamInv, Delivering, Valid
<1>7. PageInv'
  <2> SUFFICES ASSUME conn.pc = "send"
               PROVE  PageInv'
    BY <1>1 DEF PageInv
  <2>1. conn.batch # <<>> /\ Pos + Len(conn.batch) <= store.head /\ Len(conn.batch) \in Nat
    <3>1. conn.batch \in Seq(Nat)
      BY DEF Typed, ConnRec
    <3> QED
      BY <3>1, LenProperties DEF PageInv
  <2>2. \A i \in (client.start + 1)..(Pos + Len(conn.batch)) :
           Backed(i) /\ i \in (client.start + 1)..store.head
    BY <1>3, <2>1 DEF PageInv
  <2>3. \A i \in (client.start + 1)..(Pos + Len(conn.batch)) : Backed(i)'
    BY <2>2, BackedKept
  <2>4. Pos + Len(conn.batch) <= store'.head
    BY <1>3, <2>1
  <2>5. \A i \in 1..Len(conn.batch) : conn.batch[i] = Pos + i
    BY DEF PageInv
  <2> QED
    BY <1>1, <2>1, <2>3, <2>4, <2>5 DEF PageInv
<1> QED
  BY <1>2, <1>4, <1>5, <1>6, <1>7

-----------------------------------------------------------------------------
(* The frames on their way are events and gaps of the peer.                  *)
FramesOK == frames \in Seq(Frames) /\ peer \in 0..MaxPeer

(* A store with or without a new epoch.                                      *)
LEMMA EpochStep ==
    ASSUME Typed, NEW s, Shape(s), s.epoch = store.epoch,
           store' = s \/ store' = Rotate(s)
    PROVE  /\ Shape(store') /\ store.epoch <= store'.epoch
           /\ store'.head = s.head /\ store'.origin = s.origin
<1>1. store.epoch \in Nat
  BY Numbers
<1> QED
  BY <1>1, RotateShape

(* A publication adds a local row.                                           *)
LEMMA PublishStep ==
    ASSUME Typed, NEW overflow \in BOOLEAN, Publish(overflow)
    PROVE  StoreStep
<1> DEFINE a == Insert(store)
           s == [a EXCEPT !.sequence = @ + 1]
<1>1. Shape(a) /\ a.head = store.head + 1 /\ SameMarks(store, a)
  BY InsertShape DEF Typed
<1>2. /\ log' = Append(log, <<"local", s.sequence>>)
      /\ store' = s \/ store' = Rotate(s)
      /\ client' = client /\ conn' = conn
  BY DEF Publish, Fence, proxy
<1> HIDE DEF a
<1>3. a \in StoreRec /\ a.sequence + 1 \in Nat
  BY <1>1 DEF Shape, StoreRec
<1>4. s = [a EXCEPT !.sequence = a.sequence + 1]
  BY <1>3 DEF StoreRec
<1> HIDE DEF s
<1>5. s \in StoreRec
  BY <1>3, <1>4 DEF StoreRec
<1>6. /\ s.head = a.head /\ s.rows = a.rows /\ s.floor = a.floor /\ s.epoch = a.epoch
      /\ s.origin = a.origin /\ s.sequence = a.sequence + 1
  BY <1>3, <1>4 DEF StoreRec
<1>7. Shape(s) /\ s.epoch = store.epoch /\ s.origin = store.origin /\ s.head = store.head + 1
      /\ s.sequence \in Nat
  BY <1>1, <1>3, <1>5, <1>6 DEF Shape, SameMarks
<1>8. /\ Shape(store') /\ store.epoch <= store'.epoch
      /\ store'.head = s.head /\ store'.origin = s.origin
  BY <1>2, <1>7, EpochStep
<1> QED
  BY <1>2, <1>7, <1>8 DEF StoreStep

(* An event that is ingested adds a row of the peer.                         *)
LEMMA IngestStep ==
    ASSUME Typed, FramesOK, Ingest
    PROVE  StoreStep \/ (UNCHANGED <<store, log, client, conn>>)
<1> DEFINE n == Head(frames)[2]
           s == Ingested(store, n)
<1>1. n \in Nat
  <2>1. Head(frames) \in Frames /\ Head(frames)[1] = "event"
    BY HeadTailProperties DEF FramesOK, Ingest
  <2>2. Head(frames) # <<"gap">>
    BY <2>1
  <2>3. Head(frames) \in {"event"} \X (1..MaxPeer)
    BY <2>1, <2>2 DEF Frames
  <2> QED
    BY <2>3
<1>2. client' = client /\ conn' = conn
  BY DEF Ingest, proxy
<1>3. CASE n <= store.origin
  BY <1>2, <1>3 DEF Ingest
<1>4. CASE ~(n <= store.origin)
  <2>1. log' = Append(log, <<"peer", n>>) /\ (store' = s \/ store' = Rotate(s))
    BY <1>4 DEF Ingest, Fence
  <2> HIDE DEF n
  <2>2. /\ Shape(s) /\ s.head = store.head + 1 /\ s.origin = n
        /\ s.epoch = IF n > store.origin + 1 THEN store.epoch + 1 ELSE store.epoch
    BY <1>1, IngestedShape DEF Typed
  <2> HIDE DEF s
  <2>3. store.epoch \in Nat /\ store.origin \in Nat
    BY Numbers
  <2>4. /\ Shape(store') /\ store'.head = s.head /\ store'.origin = s.origin
        /\ store'.epoch = s.epoch \/ store'.epoch = s.epoch + 1
    BY <2>1, <2>2, RotateShape
  <2>5. /\ store.origin < n /\ store.epoch <= store'.epoch
        /\ store'.epoch = store.epoch => n = store.origin + 1
    <3>1. s.epoch \in Nat
      BY <2>2, <2>3
    <3> QED
      BY <1>1, <1>4, <2>2, <2>3, <2>4, <3>1
  <2> QED
    BY <1>2, <2>1, <2>2, <2>4, <2>5 DEF StoreStep
<1> QED
  BY <1>3, <1>4

(* A fence rotates the epoch and adds no row.                                *)
LEMMA FenceStep ==
    ASSUME Typed, store' = Rotate(store) \/ store' = store, UNCHANGED <<log, client, conn>>
    PROVE  StoreStep
<1>1. /\ Shape(store') /\ store.epoch <= store'.epoch
      /\ store'.head = store.head /\ store'.origin = store.origin
  BY EpochStep DEF Typed
<1> QED
  BY <1>1 DEF StoreStep

(* Retention retires rows and keeps the epoch.                               *)
LEMMA PruneStep ==
    ASSUME Typed, Prune \/ PruneForOthers \/ Age
    PROVE  StoreStep
<1>1. Shape(store) /\ store.epoch \in Nat /\ store.head \in Nat
  BY Numbers DEF Typed
<1>2. client' = client /\ conn' = conn /\ log' = log
  BY DEF Prune, PruneForOthers, Age, proxy
<1>3. ASSUME NEW gone \in SUBSET store.rows, store' = Delete(store, gone),
             \A r \in gone : \A q \in store.rows : q < r => q \in gone
      PROVE  StoreStep
  <2>1. Shape(store') /\ store'.head = store.head /\ SameMarks(store, store')
    BY <1>1, <1>3, DeleteShape
  <2> QED
    BY <1>1, <1>2, <2>1 DEF StoreStep, SameMarks
<1>4. CASE Prune
  BY <1>1, <1>3, <1>4, ExpiredOldest DEF Prune
<1>5. CASE PruneForOthers
  <2>1. store.rows # {} /\ store' = Delete(store, {Min(store.rows)})
    BY <1>5 DEF PruneForOthers
  <2>2. store.rows = (store.floor + 1)..store.head /\ store.floor \in Nat
    BY <1>1 DEF Shape, StoreRec
  <2>3. Min(store.rows) = store.floor + 1 /\ store.floor + 1 \in store.rows
    <3>1. store.floor + 1 \in store.rows /\ \A y \in store.rows : store.floor + 1 <= y
      BY <1>1, <2>1, <2>2
    <3>2. \A x \in store.rows : (\A y \in store.rows : x <= y) => x = store.floor + 1
      BY <1>1, <2>2, <3>1
    <3> QED
      BY <3>1, <3>2 DEF Min
  <2>4. \A q \in store.rows : ~(q < store.floor + 1)
    BY <1>1, <2>2
  <2> DEFINE gone == {Min(store.rows)}
  <2>5. gone \in SUBSET store.rows /\ \A r \in gone : \A q \in store.rows : ~(q < r)
    BY <2>3, <2>4
  <2> QED
    BY <1>3, <2>1, <2>5
<1>6. CASE Age
  <2>1. store \in StoreRec
    BY <1>1 DEF Shape
  <2>2. CASE store' = [store EXCEPT !.aged = @ + 1]
    <3>1. store' = [store EXCEPT !.aged = store.aged + 1] /\ store.aged + 1 \in Nat
      BY <2>1, <2>2 DEF StoreRec
    <3>2. store' \in StoreRec
      BY <2>1, <3>1 DEF StoreRec
    <3>3. /\ store'.head = store.head /\ store'.rows = store.rows /\ store'.floor = store.floor
          /\ store'.epoch = store.epoch /\ store'.origin = store.origin
      BY <2>1, <3>1 DEF StoreRec
    <3> QED
      BY <1>1, <1>2, <3>2, <3>3 DEF StoreStep, Shape
  <2>3. CASE store' = [store EXCEPT !.idle = TRUE]
    <3>2. store' \in StoreRec
      BY <2>1, <2>3 DEF StoreRec
    <3>3. /\ store'.head = store.head /\ store'.rows = store.rows /\ store'.floor = store.floor
          /\ store'.epoch = store.epoch /\ store'.origin = store.origin
      BY <2>1, <2>3 DEF StoreRec
    <3> QED
      BY <1>1, <1>2, <3>2, <3>3 DEF StoreStep, Shape
  <2> QED
    BY <1>6, <2>2, <2>3 DEF Age
<1> QED
  BY <1>4, <1>5, <1>6

(* Every step of the broker, and the proxy's registration, does to the store *)
(* what StoreStep says.                                                      *)
LEMMA BrokerSafe ==
    ASSUME ReplayInv, FramesOK, Broker \/ Register
    PROVE  ReplayInv'
<1> USE DEF ReplayInv
<1>1. ASSUME NEW overflow \in BOOLEAN, Publish(overflow)
      PROVE  ReplayInv'
  BY <1>1, PublishStep, StoreStepSafe
<1>2. CASE Ingest
  <2>1. CASE UNCHANGED <<store, log, client, conn>>
    <3>1. StoreStep
      BY <2>1, FenceStep
    <3> QED
      BY <3>1, StoreStepSafe
  <2> QED
    BY <1>2, <2>1, IngestStep, StoreStepSafe
<1>3. CASE Prune \/ PruneForOthers \/ Age
  BY <1>3, PruneStep, StoreStepSafe
<1>4. CASE IgnoreFrame \/ IngestFails \/ GapFrame \/ SessionLost \/ BrokerRestarts \/ Register
  <2>1. /\ store' = Rotate(store) \/ store' = store
        /\ UNCHANGED <<log, client, conn>>
    BY <1>4 DEF IgnoreFrame, IngestFails, GapFrame, SessionLost, BrokerRestarts, Register, Fence, proxy
  <2> QED
    BY <2>1, FenceStep, StoreStepSafe
<1> QED
  BY <1>1, <1>2, <1>3, <1>4 DEF Broker

-----------------------------------------------------------------------------
(* The rows, the epoch and what the client was shown are the same.           *)
SameView ==
    /\ UNCHANGED <<log, client>> /\ Shape(store')
    /\ store'.head = store.head /\ store'.origin = store.origin /\ store'.epoch = store.epoch

(* What the client was shown, and may go on from, then is the same.          *)
LEMMA ViewKept ==
    ASSUME ReplayInv, SameView
    PROVE  /\ Pos' = Pos /\ Shown' /\ CursorInv' /\ (Whole' <=> Whole)
           /\ \A i : Backed(i)' <=> Backed(i)
<1> USE DEF ReplayInv
<1>1. /\ log' = log /\ client' = client /\ Pos' = Pos
      /\ store'.head = store.head /\ store'.origin = store.origin /\ store'.epoch = store.epoch
  BY DEF Pos, SameView
<1>2. ASSUME NEW i
      PROVE  Backed(i)' <=> Backed(i)
  BY <1>1 DEF Backed, Has
<1>3. Shown'
  BY <1>1, <1>2 DEF Shown
<1>4. Whole' <=> Whole
  <2>1. (\A j \in (client.base + 1)..store.origin : Has(store.head, j))' <=>
         \A j \in (client.base + 1)..store.origin : Has(store.head, j)
    BY <1>1 DEF Has
  <2> QED
    BY <1>1, <1>2, <2>1 DEF Whole
<1>5. CursorInv'
  BY <1>1, <1>4 DEF CursorInv, Valid
<1> QED
  BY <1>1, <1>2, <1>3, <1>4, <1>5

(* A stream that does not read, and does not send, is not moved.             *)
LEMMA PhaseSafe ==
    ASSUME ReplayInv, SameView, conn' \in ConnRec,
           \/ conn'.pc \notin Streaming
           \/ /\ Delivering /\ conn'.after = conn.after
              /\ conn'.pc = "send" => conn.pc = "send" /\ conn'.batch = conn.batch
    PROVE  ReplayInv'
<1> USE DEF ReplayInv
<1>1. Typed'
  BY DEF Typed, SameView
<1>2. /\ Pos' = Pos /\ Shown' /\ CursorInv' /\ (Whole' <=> Whole)
      /\ \A i : Backed(i)' <=> Backed(i)
  BY ViewKept
<1>3. client' = client /\ store'.epoch = store.epoch /\ store'.head = store.head
  BY DEF SameView
<1>4. StreamInv'
  BY <1>2, <1>3 DEF StreamInv, Valid, Delivering
<1>5. PageInv'
  <2>1. CASE conn'.pc # "send"
    BY <2>1 DEF PageInv
  <2>2. CASE conn'.pc = "send" /\ conn.pc = "send" /\ conn'.batch = conn.batch
    BY <1>2, <1>3, <2>2 DEF PageInv
  <2> QED
    BY <2>1, <2>2 DEF Streaming
<1> QED
  BY <1>1, <1>2, <1>4, <1>5

(* Signals to the stream set its flags.                                      *)
LEMMA SignalMoves ==
    ASSUME conn \in ConnRec, NEW b \in BOOLEAN,
           conn' = [conn EXCEPT !.reset = b] \/ conn' = [conn EXCEPT !.changed = b]
    PROVE  /\ conn' \in ConnRec /\ conn'.pc = conn.pc /\ conn'.after = conn.after
           /\ conn'.batch = conn.batch
<1>1. CASE conn' = [conn EXCEPT !.reset = b]
  <2>1. conn' \in ConnRec
    BY <1>1 DEF ConnRec
  <2> QED
    BY <1>1, <2>1 DEF ConnRec
<1>2. CASE conn' = [conn EXCEPT !.changed = b]
  <2>1. conn' \in ConnRec
    BY <1>2 DEF ConnRec
  <2> QED
    BY <1>2, <2>1 DEF ConnRec
<1> QED
  BY <1>1, <1>2

(* The steps of the proxy's notification task and of the peer.               *)
LEMMA ProxySafe ==
    ASSUME ReplayInv, \/ Notification \/ SubscriptionLost \/ Subscribe \/ Resubscribed \/ Peer
    PROVE  ReplayInv'
<1>1. conn \in ConnRec
  BY DEF ReplayInv, Typed
<1>2. SameView
  <2>1. UNCHANGED <<store, log, client>>
    BY DEF Notification, SubscriptionLost, Subscribe, Resubscribed, Peer, Connect, AttachHere,
           AttachThere, PeerPublishes, PeerFences, Break, PeerSessionLost, proxy
  <2> QED
    BY <2>1 DEF SameView, ReplayInv, Typed
<1>3. ASSUME NEW b \in BOOLEAN,
             conn' = [conn EXCEPT !.reset = b] \/ conn' = [conn EXCEPT !.changed = b]
      PROVE  ReplayInv'
  BY <1>1, <1>2, <1>3, SignalMoves, PhaseSafe DEF Delivering
<1>4. CASE conn' = conn
  BY <1>1, <1>2, <1>4, PhaseSafe DEF Delivering
<1>5. Hooked \in BOOLEAN /\ Delivering \in BOOLEAN
  BY DEF Hooked, Delivering
<1>6. CASE Notification
  <2>1. CASE SignalGap
    BY <1>3, <1>5, <2>1 DEF SignalGap
  <2>2. CASE conn' = [conn EXCEPT !.changed = Delivering]
    BY <1>3, <1>5, <2>2
  <2>3. CASE conn' = [conn EXCEPT !.changed = @ \/ (Delivering /\ Head(bus.notes)[2] > seen)]
    <3> DEFINE b == conn.changed \/ (Delivering /\ Head(bus.notes)[2] > seen)
    <3>1. conn' = [conn EXCEPT !.changed = b] /\ b \in BOOLEAN
      BY <1>1, <2>3 DEF ConnRec
    <3> HIDE DEF b
    <3> QED
      BY <1>3, <3>1
  <2> QED
    BY <1>6, <2>1, <2>2, <2>3 DEF Notification
<1>7. CASE SubscriptionLost \/ Resubscribed
  BY <1>3, <1>5, <1>7 DEF SubscriptionLost, Resubscribed, SignalGap
<1>8. CASE Subscribe \/ Peer
  BY <1>4, <1>8 DEF Subscribe, Peer, Connect, AttachHere, AttachThere, PeerPublishes, PeerFences,
                    Break, PeerSessionLost, proxy
<1> QED
  BY <1>6, <1>7, <1>8

(* The end of a stream.                                                      *)
LEMMA NoConnTyped == NoConn \in ConnRec /\ NoConn.pc = "off"
<1>1. <<>> \in Seq(Nat)
  OBVIOUS
<1> QED
  BY <1>1 DEF NoConn, ConnRec, Place

(* A client that is reset begins anew.                                       *)
LEMMA ExpireSafe ==
    ASSUME ReplayInv, Expire, UNCHANGED <<store, log>>
    PROVE  ReplayInv'
<1> USE DEF ReplayInv
<1>1. conn' = NoConn /\ conn' \in ConnRec /\ conn'.pc = "off"
  BY NoConnTyped DEF Expire
<1>2. client' = [cursor |-> NoCursor, start |-> 0, base |-> 0, got |-> <<>>]
  BY DEF Expire
<1>3. client' \in ClientRec /\ client'.cursor = NoCursor /\ client'.start = 0 /\ client'.got = <<>>
  <2>1. <<>> \in Seq(Entries)
    OBVIOUS
  <2> QED
    BY <1>2, <2>1 DEF ClientRec
<1>4. Typed'
  BY <1>1, <1>3 DEF Typed
<1>5. Pos' = 0
  BY <1>3 DEF Pos
<1>6. Shown'
  <2>1. SubSeq(log, 1, 0) = <<>>
    BY SubSeqEmpty
  <2>2. store.head \in Nat
    BY Numbers
  <2>3. 0 + 1 = 1 /\ (0 + 1)..0 = {}
    OBVIOUS
  <2> QED
    BY <1>3, <1>5, <2>1, <2>2, <2>3 DEF Shown
<1>7. CursorInv' /\ StreamInv' /\ PageInv'
  BY <1>1, <1>3 DEF CursorInv, StreamInv, PageInv, Delivering, Streaming
<1> QED
  BY <1>4, <1>6, <1>7

(* A stream opens, subscribes to resets, goes on or ends, without a read.    *)
LEMMA TurnSafe ==
    ASSUME ReplayInv, Open \/ HookResets \/ Mark \/ Wake \/ Disconnect
    PROVE  ReplayInv'
<1>1. conn \in ConnRec /\ store \in StoreRec /\ Shape(store)
  BY DEF ReplayInv, Typed, Shape
<1>2. ASSUME UNCHANGED <<store, log, client>>
      PROVE  SameView
  BY <1>1, <1>2 DEF SameView
<1>3. CASE Open
  <2>1. conn' = [conn EXCEPT !.pc = "synced"] /\ store' = [store EXCEPT !.idle = FALSE]
        /\ UNCHANGED <<log, client>>
    BY <1>3 DEF Open, stream
  <2>2. conn' \in ConnRec
    BY <1>1, <2>1 DEF ConnRec
  <2>3. conn'.pc \notin Streaming
    BY <1>1, <2>1 DEF ConnRec, Streaming
  <2>4. store' \in StoreRec
    BY <1>1, <2>1 DEF StoreRec
  <2>5. /\ store'.head = store.head /\ store'.rows = store.rows /\ store'.floor = store.floor
        /\ store'.epoch = store.epoch /\ store'.origin = store.origin
    BY <1>1, <2>1 DEF StoreRec
  <2>6. SameView
    BY <1>1, <2>1, <2>4, <2>5 DEF SameView, Shape
  <2> QED
    BY <2>2, <2>3, <2>6, PhaseSafe
<1>4. CASE HookResets
  <2>1. conn' = [conn EXCEPT !.pc = "hooked", !.reset = FALSE] /\ UNCHANGED <<store, log, client>>
    BY <1>4 DEF HookResets, stream
  <2>2. conn' \in ConnRec
    BY <1>1, <2>1 DEF ConnRec
  <2>3. conn'.pc \notin Streaming
    BY <1>1, <2>1 DEF ConnRec, Streaming
  <2> QED
    BY <1>2, <2>1, <2>2, <2>3, PhaseSafe
<1>5. CASE Disconnect
  <2>1. conn' = NoConn /\ UNCHANGED <<store, log, client>>
    BY <1>5 DEF Disconnect
  <2>2. conn' \in ConnRec /\ conn'.pc \notin Streaming
    BY <2>1, NoConnTyped DEF Streaming
  <2> QED
    BY <1>2, <2>1, <2>2, PhaseSafe
<1>6. ASSUME Expire, UNCHANGED <<store, log>>
      PROVE  ReplayInv'
  BY <1>6, ExpireSafe
<1>7. CASE Mark
  <2>1. UNCHANGED <<store, log>> /\ conn.pc = "top"
    BY <1>7 DEF Mark, stream
  <2>2. CASE conn' = [conn EXCEPT !.pc = "marked", !.changed = FALSE] /\ client' = client
    <3>1. conn' \in ConnRec
      BY <1>1, <2>2 DEF ConnRec, Streaming
    <3>2. conn'.pc = "marked" /\ conn'.after = conn.after
      BY <1>1, <2>2 DEF ConnRec
    <3> QED
      BY <1>2, <2>1, <2>2, <3>1, <3>2, PhaseSafe DEF Delivering, Streaming
  <2> QED
    BY <1>6, <1>7, <2>1, <2>2 DEF Mark
<1>8. CASE Wake
  <2>1. UNCHANGED <<store, log>> /\ conn.pc = "wait"
    BY <1>8 DEF Wake, stream
  <2>2. CASE conn' = [conn EXCEPT !.pc = "top"] /\ client' = client
    <3>1. conn' \in ConnRec
      BY <1>1, <2>2 DEF ConnRec, Streaming
    <3>2. conn'.pc = "top" /\ conn'.after = conn.after
      BY <1>1, <2>2 DEF ConnRec
    <3> QED
      BY <1>2, <2>1, <2>2, <3>1, <3>2, PhaseSafe DEF Delivering, Streaming
  <2> QED
    BY <1>6, <1>8, <2>1, <2>2 DEF Wake
<1> QED
  BY <1>3, <1>4, <1>5, <1>7, <1>8

(* A stream without a cursor begins at the head, with an empty history that  *)
(* has no hole; one with a cursor goes on from it.                           *)
LEMMA LocateSafe ==
    ASSUME ReplayInv, Locate
    PROVE  ReplayInv'
<1> USE DEF ReplayInv
<1>1. /\ conn \in ConnRec /\ Shape(store) /\ store.head \in Nat /\ store.epoch \in Nat
      /\ store.origin \in Nat
  BY Numbers DEF Typed
<1>2. store' = store /\ log' = log
  BY DEF Locate, stream
<1>3. CASE Expire
  BY <1>2, <1>3, ExpireSafe
<1>4. ASSUME conn' = [conn EXCEPT !.pc = "top", !.changed = FALSE,
                        !.after = [epoch |-> store.epoch, pos |-> store.head]],
             client' = [cursor |-> NoCursor, start |-> store.head, base |-> store.origin,
                        got |-> <<>>]
      PROVE  ReplayInv'
  <2> DEFINE place == [epoch |-> store.epoch, pos |-> store.head]
  <2>1. place \in Place /\ place.epoch = store.epoch /\ place.pos = store.head
    BY <1>1 DEF Place
  <2>2. conn' = [conn EXCEPT !.pc = "top", !.changed = FALSE, !.after = place]
    BY <1>4
  <2> HIDE DEF place
  <2>3. conn' \in ConnRec
    BY <1>1, <2>1, <2>2 DEF ConnRec, Streaming
  <2>4. conn'.pc = "top" /\ conn'.after = place
    BY <1>1, <2>2 DEF ConnRec
  <2>5. /\ client' \in ClientRec /\ client'.cursor = NoCursor /\ client'.start = store.head
        /\ client'.base = store.origin /\ client'.got = <<>>
    <3>1. <<>> \in Seq(Entries)
      OBVIOUS
    <3> QED
      BY <1>1, <1>4, <3>1 DEF ClientRec
  <2>6. Typed'
    BY <1>2, <2>3, <2>5 DEF Typed
  <2>7. Pos' = store.head
    BY <1>1, <2>5 DEF Pos
  <2>8. Shown'
    <3>1. SubSeq(log, store.head + 1, store.head) = <<>>
      BY <1>1, SubSeqEmpty
    <3>2. (store.head + 1)..store.head = {} /\ store.head <= store.head
      BY <1>1
    <3> QED
      BY <1>2, <2>5, <2>7, <3>1, <3>2 DEF Shown
  <2>9. Whole'
    <3>1. (store.head + 1)..store.head = {} /\ (store.origin + 1)..store.origin = {}
      BY <1>1
    <3> QED
      BY <1>2, <2>5, <3>1 DEF Whole
  <2>10. StreamInv'
    <3>1. store.epoch <= store.epoch
      BY <1>1
    <3> QED
      BY <1>2, <2>1, <2>4, <2>7, <2>9, <3>1 DEF StreamInv, Valid
  <2>11. CursorInv' /\ PageInv'
    BY <2>4, <2>5 DEF CursorInv, PageInv
  <2> QED
    BY <2>6, <2>8, <2>10, <2>11
<1>5. ASSUME client.cursor # NoCursor, client' = client,
             conn' = [conn EXCEPT !.pc = "top", !.changed = FALSE, !.after = client.cursor]
      PROVE  ReplayInv'
  <2>1. client.cursor \in Place /\ Valid(client.cursor)
    BY <1>5 DEF Typed, ClientRec, CursorInv
  <2> DEFINE place == client.cursor
  <2>2. conn' = [conn EXCEPT !.pc = "top", !.changed = FALSE, !.after = place] /\ place \in Place
    BY <1>5, <2>1
  <2> HIDE DEF place
  <2>3. conn' \in ConnRec
    BY <1>1, <2>2 DEF ConnRec, Streaming
  <2>4. conn'.pc = "top" /\ conn'.after = place
    BY <1>1, <2>2 DEF ConnRec
  <2>5. SameView
    BY <1>1, <1>2, <1>5 DEF SameView
  <2>6. Pos' = Pos /\ Shown' /\ CursorInv' /\ (Whole' <=> Whole)
    BY <2>5, ViewKept
  <2>7. Typed' /\ PageInv'
    BY <1>2, <1>5, <2>3, <2>4 DEF Typed, PageInv
  <2>8. StreamInv'
    BY <1>2, <2>1, <2>4, <2>6 DEF StreamInv, Valid, place
  <2> QED
    BY <2>6, <2>7, <2>8
<1> QED
  BY <1>3, <1>4, <1>5 DEF Locate

(* A page is read from a store that has no hole, or the stream is reset.     *)
LEMMA ReadSafe ==
    ASSUME ReplayInv, Read
    PROVE  ReplayInv'
<1> USE DEF ReplayInv
<1>1. conn \in ConnRec /\ Shape(store) /\ Delivering /\ Valid(conn.after) /\ conn.after \in Place
  BY DEF Typed, ConnRec, Read, Delivering, Streaming, StreamInv
<1>2. store' = store /\ log' = log
  BY DEF Read, stream
<1>3. CASE Stale(store, conn.after)
  BY <1>2, <1>3, ExpireSafe DEF Read
<1>4. CASE ~Stale(store, conn.after)
  <2> DEFINE page == ReadAfter(store, conn.after.pos)
  <2>1. /\ client' = client
        /\ conn' = [conn EXCEPT !.batch = page, !.more = Len(page) = Page,
                                !.pc = IF page = <<>> THEN "wait" ELSE "send"]
    BY <1>4 DEF Read
  <2>2. /\ Pos \in Nat /\ client.start \in Nat /\ store.head \in Nat
        /\ conn.after.pos = Pos /\ conn.after.epoch = store.epoch /\ Whole
        /\ Pos <= store.head /\ ~(Pos < store.floor) /\ ~(Pos < ExpiredFloor(store))
    <3>1. Pos \in Nat /\ client.start \in Nat /\ store.head \in Nat /\ Pos <= store.head
      BY Numbers DEF Shown
    <3> QED
      BY <1>1, <1>4, <3>1 DEF Valid, Stale
  <2>3. PICK k \in Nat : Pos + k <= store.head /\ page = [i \in 1..k |-> Pos + i]
    BY <1>1, <2>2, ReadsOn
  <2>4. page \in Seq(Nat) /\ Len(page) = k
    <3>1. page \in [1..k -> Nat]
      BY <2>2, <2>3
    <3>2. page \in Seq(Nat)
      BY <3>1, SeqDef
    <3>3. Len(page) \in Nat /\ DOMAIN page = 1..Len(page) /\ DOMAIN page = 1..k
      BY <3>1, <3>2, LenProperties
    <3>4. Len(page) = k
      BY <3>3
    <3> QED
      BY <3>2, <3>4
  <2>5. \A i \in 1..Len(page) : page[i] = Pos + i
    BY <2>3, <2>4
  <2> HIDE DEF page
  <2> DEFINE more == Len(page) = Page
             to == IF page = <<>> THEN "wait" ELSE "send"
  <2>6. more \in BOOLEAN /\ to \in Streaming /\ (to = "send" => page # <<>>)
    BY DEF Streaming
  <2>7. conn' = [conn EXCEPT !.batch = page, !.more = more, !.pc = to]
    BY <2>1
  <2> HIDE DEF more, to
  <2>8. conn' \in ConnRec
    BY <1>1, <2>4, <2>6, <2>7 DEF ConnRec
  <2>9. conn'.pc = to /\ conn'.after = conn.after /\ conn'.batch = page
    BY <1>1, <2>7 DEF ConnRec
  <2>10. SameView
    BY <1>1, <1>2, <2>1 DEF SameView
  <2>11. /\ Pos' = Pos /\ Shown' /\ CursorInv' /\ (Whole' <=> Whole)
         /\ \A i : Backed(i)' <=> Backed(i)
    BY <2>10, ViewKept
  <2>12. Typed'
    BY <1>2, <2>1, <2>8 DEF Typed
  <2>13. StreamInv'
    BY <1>1, <1>2, <2>9, <2>11 DEF StreamInv, Valid
  <2>14. PageInv'
    <3>1. \A i \in (client.start + 1)..(Pos + Len(page)) : Backed(i)
      <4>1. \A i \in (client.start + 1)..(Pos + Len(page)) : i \in (client.start + 1)..store.head
        BY <2>2, <2>3, <2>4
      <4> QED
        BY <2>2, <4>1 DEF Whole
    <3> QED
      BY <1>2, <2>1, <2>3, <2>4, <2>5, <2>6, <2>9, <2>11, <3>1 DEF PageInv
  <2> QED
    BY <2>11, <2>12, <2>13, <2>14
<1> QED
  BY <1>3, <1>4

(* A message of the page is the next row.                                    *)
LEMMA SendSafe ==
    ASSUME ReplayInv, Send
    PROVE  ReplayInv'
<1> USE DEF ReplayInv
<1>1. /\ conn \in ConnRec /\ Shape(store) /\ Delivering /\ Valid(conn.after)
      /\ conn.after \in Place /\ client \in ClientRec /\ conn.pc = "send"
      /\ conn.batch \in Seq(Nat)
  BY DEF Typed, ConnRec, Send, Delivering, Streaming, StreamInv
<1>2. store' = store /\ log' = log
  BY DEF Send, stream
<1>3. CASE conn.reset
  BY <1>2, <1>3, ExpireSafe DEF Send
<1>4. CASE ~conn.reset
  <2> DEFINE c == [conn.after EXCEPT !.pos = Head(conn.batch)]
             rest == Tail(conn.batch)
             to == IF Len(conn.batch) > 1 THEN "send" ELSE IF conn.more THEN "top" ELSE "wait"
             got == Append(client.got, log[c.pos])
  <2>1. /\ conn' = [conn EXCEPT !.after = c, !.batch = rest, !.pc = to]
        /\ client' = [client EXCEPT !.cursor = c, !.got = got]
    <3>1. /\ conn' = [conn EXCEPT !.after = c, !.batch = Tail(@), !.pc = to]
          /\ client' = [client EXCEPT !.cursor = c, !.got = Append(@, log[c.pos])]
      BY <1>4 DEF Send
    <3> HIDE DEF c, to
    <3>2. [conn EXCEPT !.after = c, !.batch = Tail(@), !.pc = to] =
          [conn EXCEPT !.after = c, !.batch = rest, !.pc = to]
      BY <1>1 DEF ConnRec
    <3>3. [client EXCEPT !.cursor = c, !.got = Append(@, log[c.pos])] =
          [client EXCEPT !.cursor = c, !.got = got]
      BY <1>1 DEF ClientRec
    <3> QED
      BY <3>1, <3>2, <3>3
  <2>2. /\ Pos \in Nat /\ client.start \in Nat /\ client.start <= Pos /\ store.head \in Nat
        /\ Pos <= store.head /\ client.got \in Seq(Entries) /\ Len(client.got) \in Nat
        /\ Pos = client.start + Len(client.got)
    BY Numbers DEF Shown, Pos
  <2>3. /\ Len(conn.batch) \in Nat /\ Len(conn.batch) >= 1 /\ Pos + Len(conn.batch) <= store.head
        /\ Head(conn.batch) = Pos + 1
        /\ rest \in Seq(Nat) /\ Len(rest) = Len(conn.batch) - 1
        /\ \A i \in 1..Len(rest) : rest[i] = (Pos + 1) + i
    <3>1. /\ conn.batch # <<>> /\ Pos + Len(conn.batch) <= store.head
          /\ \A i \in 1..Len(conn.batch) : conn.batch[i] = Pos + i
      BY <1>1 DEF PageInv
    <3>2. Len(conn.batch) \in Nat /\ Len(conn.batch) >= 1
      <4>1. Len(conn.batch) \in Nat /\ Len(conn.batch) # 0
        BY <1>1, <3>1, LenProperties
      <4> QED
        BY <4>1
    <3>3. Head(conn.batch) = conn.batch[1]
      BY <1>1, <3>1
    <3>4. /\ rest \in Seq(Nat) /\ Len(rest) = Len(conn.batch) - 1
          /\ \A i \in 1..Len(rest) : rest[i] = conn.batch[i + 1]
      BY <1>1, <3>1, HeadTailProperties
    <3> HIDE DEF rest
    <3>5. \A i \in 1..Len(rest) : i + 1 \in 1..Len(conn.batch) /\ Pos + (i + 1) = (Pos + 1) + i
      BY <2>2, <3>2, <3>4
    <3>6. Head(conn.batch) = Pos + 1
      BY <3>1, <3>2, <3>3
    <3>7. \A i \in 1..Len(rest) : rest[i] = (Pos + 1) + i
      BY <3>1, <3>4, <3>5
    <3> QED
      BY <3>1, <3>2, <3>4, <3>6, <3>7
  <2>4. c \in Place /\ c.pos = Pos + 1 /\ c.epoch = conn.after.epoch
    <3>1. c = [conn.after EXCEPT !.pos = Pos + 1] /\ Pos + 1 \in Nat
      BY <2>2, <2>3
    <3> HIDE DEF c
    <3> QED
      BY ONLY <1>1, <3>1 DEF Place
  <2>5. to \in Streaming /\ (to = "send" <=> Len(conn.batch) > 1)
    BY DEF Streaming
  <2>6. log[Pos + 1] \in Entries /\ Len(log) = store.head /\ log \in Seq(Entries)
        /\ Pos + 1 \in 1..store.head
    <3>1. Pos + 1 \in 1..store.head
      BY <2>2, <2>3
    <3> QED
      BY <3>1, ElementOfSeq DEF Typed
  <2>7. got \in Seq(Entries) /\ Len(got) = Len(client.got) + 1
    <3>1. got = Append(client.got, log[Pos + 1])
      BY <2>4
    <3> HIDE DEF got
    <3> QED
      BY <2>2, <2>6, <3>1, AppendProperties
  <2>8. got = SubSeq(log, client.start + 1, Pos + 1)
    <3>1. client.got = SubSeq(log, client.start + 1, Pos)
      BY DEF Shown
    <3>2. client.start + 1 \in 1..Len(log) /\ Pos + 1 \in (client.start + 1)..Len(log)
      BY <2>2, <2>6
    <3>3. SubSeq(log, client.start + 1, Pos + 1)
            = SubSeq(log, client.start + 1, (Pos + 1) - 1) \o <<log[Pos + 1]>>
      BY <2>6, <3>2, SubSeqRecursiveSecond
    <3>4. (Pos + 1) - 1 = Pos
      BY <2>2
    <3>5. got = client.got \o <<log[Pos + 1]>>
      BY <2>2, <2>4, <2>6, AppendIsConcat
    <3> QED
      BY <3>1, <3>3, <3>4, <3>5
  <2> HIDE DEF c, rest, to, got
  <2>9. conn' \in ConnRec
    BY <1>1, <2>1, <2>3, <2>4, <2>5 DEF ConnRec
  <2>10. conn'.pc = to /\ conn'.after = c /\ conn'.batch = rest
    BY <1>1, <2>1 DEF ConnRec
  <2>11. client' \in ClientRec
    BY <1>1, <2>1, <2>4, <2>7 DEF ClientRec
  <2>12. /\ client'.cursor = c /\ client'.got = got /\ client'.start = client.start
         /\ client'.base = client.base
    BY <1>1, <2>1 DEF ClientRec
  <2>13. Pos' = Pos + 1
    BY <2>2, <2>7, <2>12 DEF Pos
  <2>14. ASSUME NEW i
         PROVE  Backed(i)' <=> Backed(i)
    BY <1>2, <2>12 DEF Backed, Has
  <2>15. Whole' <=> Whole
    <3>1. (\A j \in (client.base + 1)..store.origin : Has(store.head, j))' <=>
           \A j \in (client.base + 1)..store.origin : Has(store.head, j)
      BY <1>2, <2>12 DEF Has
    <3> QED
      BY <1>2, <2>12, <2>14, <3>1 DEF Whole
  <2>16. Typed'
    BY <1>2, <2>9, <2>11 DEF Typed
  <2>17. \A i \in (client.start + 1)..(Pos + Len(conn.batch)) : Backed(i)
    BY <1>1 DEF PageInv
  <2>18. Shown'
    <3>1. \A i \in (client.start + 1)..(Pos + 1) : Backed(i)
      BY <2>2, <2>3, <2>17
    <3>2. Pos + 1 <= store.head
      BY <2>2, <2>6
    <3> QED
      BY <1>2, <2>8, <2>12, <2>13, <2>14, <3>1, <3>2 DEF Shown
  <2>19. CursorInv' /\ StreamInv'
    BY <1>1, <1>2, <2>4, <2>10, <2>12, <2>13, <2>15 DEF CursorInv, StreamInv, Valid
  <2>20. PageInv'
    <3> SUFFICES ASSUME to = "send"
                 PROVE  PageInv'
      BY <2>10 DEF PageInv
    <3>1. Len(rest) >= 1 /\ Pos + Len(conn.batch) = (Pos + 1) + Len(rest) /\ Len(rest) \in Nat
      BY <2>2, <2>3, <2>5
    <3>2. rest # <<>>
      BY <3>1
    <3>3. \A i \in (client.start + 1)..((Pos + 1) + Len(rest)) : Backed(i)
      BY <2>17, <3>1
    <3>4. (Pos + 1) + Len(rest) <= store.head
      BY <2>3, <3>1
    <3> QED
      BY <1>2, <2>3, <2>10, <2>12, <2>13, <2>14, <3>2, <3>3, <3>4 DEF PageInv
  <2> QED
    BY <2>16, <2>18, <2>19, <2>20
<1> QED
  BY <1>3, <1>4

-----------------------------------------------------------------------------
(* What is on its way stays events and gaps of the peer.                     *)
LEMMA FramesKept ==
    ASSUME FramesOK, [Next]_vars
    PROVE  FramesOK'
<1>1. frames \in Seq(Frames) /\ peer \in 0..MaxPeer /\ MaxPeer \in Nat
  BY BoundAssumption DEF FramesOK
<1>2. CASE frames # <<>> /\ frames' = Tail(frames) /\ peer' = peer
  BY <1>1, <1>2, HeadTailProperties DEF FramesOK
<1>3. CASE frames' = <<>> /\ peer' = peer
  BY <1>1, <1>3 DEF FramesOK
<1>4. CASE UNCHANGED <<frames, peer>>
  BY <1>1, <1>4 DEF FramesOK
<1>5. ASSUME NEW f \in Frames, Fanout(f), peer' \in 0..MaxPeer
      PROVE  FramesOK'
  <2>1. frames' = Append(frames, f) \/ frames' = frames
    BY <1>5 DEF Fanout
  <2> QED
    BY <1>1, <1>5, <2>1, AppendProperties DEF FramesOK
<1>6. CASE PeerPublishes
  <2>1. peer + 1 \in 1..MaxPeer /\ peer' = peer + 1 /\ Fanout(<<"event", peer + 1>>)
    BY <1>1, <1>6 DEF PeerPublishes
  <2>2. <<"event", peer + 1>> \in Frames /\ peer' \in 0..MaxPeer
    BY <1>1, <2>1 DEF Frames
  <2> QED
    BY <1>5, <2>1, <2>2
<1>7. CASE PeerFences
  <2>1. <<"gap">> \in Frames
    BY DEF Frames
  <2> QED
    BY <1>1, <1>5, <1>7, <2>1 DEF PeerFences
<1>8. CASE Break
  <2>1. PICK k \in 0..Len(frames) : frames' = SubSeq(frames, 1, k)
    BY <1>8 DEF Break
  <2>2. \A i \in 1..k : frames[i] \in Frames
    <3>1. \A i \in 1..k : i \in 1..Len(frames)
      BY <1>1, LenProperties
    <3> QED
      BY <1>1, <3>1, ElementOfSeq
  <2>3. 1 \in Int /\ k \in Int
    BY <1>1, LenProperties
  <2>4. frames' \in Seq(Frames)
    BY <2>1, <2>2, <2>3, SubSeqProperties
  <2> QED
    BY <1>1, <1>8, <2>4 DEF Break, FramesOK
<1>9. CASE Broker
  <2>1. ASSUME NEW overflow \in BOOLEAN, Publish(overflow)
        PROVE  FramesOK'
    BY <1>4, <2>1 DEF Publish
  <2>2. CASE Prune \/ PruneForOthers \/ Age
    BY <1>4, <2>2 DEF Prune, PruneForOthers, Age, mesh
  <2>3. CASE IgnoreFrame \/ Ingest \/ IngestFails \/ GapFrame
    BY <1>2, <2>3 DEF IgnoreFrame, Ingest, IngestFails, GapFrame
  <2>4. CASE SessionLost \/ BrokerRestarts
    BY <1>3, <2>4 DEF SessionLost, BrokerRestarts
  <2> QED
    BY <1>9, <2>1, <2>2, <2>3, <2>4 DEF Broker
<1>10. CASE Peer
  <2>1. CASE Connect
    BY <1>3, <2>1 DEF Connect
  <2>2. CASE AttachHere \/ AttachThere \/ PeerSessionLost
    BY <1>4, <2>2 DEF AttachHere, AttachThere, PeerSessionLost
  <2> QED
    BY <1>6, <1>7, <1>8, <1>10, <2>1, <2>2 DEF Peer
<1>11. CASE Proxy
  BY <1>4, <1>11 DEF Proxy, Notification, SubscriptionLost, Register, Subscribe, Resubscribed, mesh
<1>12. CASE Stream
  BY <1>4, <1>12 DEF Stream, Open, HookResets, Locate, Mark, Read, Send, Wake, Disconnect, stream, mesh
<1>13. CASE UNCHANGED vars
  BY <1>4, <1>13 DEF vars
<1> QED
  BY <1>9, <1>10, <1>11, <1>12, <1>13 DEF Next

(* The invariant holds at the beginning.                                     *)
LEMMA InitSafe ==
    ASSUME Init
    PROVE  ReplayInv /\ FramesOK
<1>1. Shape(store) /\ store.head = 0
  <2>1. store \in StoreRec
    BY DEF Init, StoreRec
  <2>2. store.head = 0 /\ store.floor = 0 /\ store.rows = {} /\ (0 + 1)..0 = {}
    BY DEF Init
  <2> QED
    BY <2>1, <2>2 DEF Shape
<1>2. log = <<>> /\ log \in Seq(Entries) /\ Len(log) = 0
  BY DEF Init
<1>3. conn \in ConnRec /\ conn.pc = "off"
  BY NoConnTyped DEF Init
<1>4. client \in ClientRec /\ client.cursor = NoCursor /\ client.start = 0 /\ client.got = <<>>
  <2>1. <<>> \in Seq(Entries)
    OBVIOUS
  <2> QED
    BY <2>1 DEF Init, ClientRec
<1>5. Typed
  BY <1>1, <1>2, <1>3, <1>4 DEF Typed
<1>6. Pos = 0
  BY <1>4 DEF Pos
<1>7. Shown
  <2>1. SubSeq(log, 1, 0) = <<>>
    BY SubSeqEmpty
  <2>2. 0 + 1 = 1 /\ (0 + 1)..0 = {} /\ 0 <= 0
    OBVIOUS
  <2> QED
    BY <1>1, <1>4, <1>6, <2>1, <2>2 DEF Shown
<1>8. CursorInv /\ StreamInv /\ PageInv
  BY <1>3, <1>4 DEF CursorInv, StreamInv, PageInv, Delivering, Streaming
<1>9. FramesOK
  BY BoundAssumption DEF Init, FramesOK
<1> QED
  BY <1>5, <1>7, <1>8, <1>9 DEF ReplayInv

(* Every step keeps the invariant.                                           *)
LEMMA NextSafe ==
    ASSUME ReplayInv, FramesOK, [Next]_vars
    PROVE  ReplayInv'
<1>1. CASE Broker \/ Register
  BY <1>1, BrokerSafe
<1>2. CASE Peer \/ (Proxy /\ ~Register)
  BY <1>2, ProxySafe DEF Proxy
<1>3. CASE Stream
  BY <1>3, TurnSafe, LocateSafe, ReadSafe, SendSafe DEF Stream
<1>4. CASE UNCHANGED vars
  <2>1. UNCHANGED <<store, log, client, conn>>
    BY <1>4 DEF vars
  <2>2. StoreStep
    BY <2>1, FenceStep DEF ReplayInv
  <2> QED
    BY <2>2, StoreStepSafe
<1> QED
  BY <1>1, <1>2, <1>3, <1>4 DEF Next, Proxy

(* The inductive invariant: the store keeps the rows between its floor and   *)
(* its head, a client stands where its history ends, the page it is being    *)
(* sent follows it, and as long as its epoch is the store's the store has no *)
(* hole since the client's start.                                            *)
THEOREM Invariance == Spec => [](ReplayInv /\ FramesOK)
<1>1. Init => ReplayInv /\ FramesOK
  BY InitSafe
<1>2. ReplayInv /\ FramesOK /\ [Next]_vars => (ReplayInv /\ FramesOK)'
  <2> SUFFICES ASSUME ReplayInv, FramesOK, [Next]_vars
               PROVE  (ReplayInv /\ FramesOK)'
    OBVIOUS
  <2>1. ReplayInv'
    BY NextSafe
  <2>2. FramesOK'
    BY FramesKept
  <2> QED
    BY <2>1, <2>2
<1> QED
  BY <1>1, <1>2, PTL DEF Spec

(* No skip: with any capacity and page size, however rows expire or are      *)
(* pruned while it reads and however often it reconnects, a client is shown  *)
(* the rows after its start in order, each once, or is reset (read_after,    *)
(* replay_cursor, the delete trigger).                                       *)
THEOREM ShownInOrder == Spec => []NoSkip
<1>1. ReplayInv => NoSkip
  BY DEF ReplayInv, Shown, CursorInv, StreamInv, Valid, NoSkip
<1> QED
  BY <1>1, Invariance, PTL

(* The events of the peer that a client was shown are without a hole.        *)
LEMMA ShownWhole ==
    ASSUME ReplayInv
    PROVE  NoHole
<1> USE DEF ReplayInv
<1> DEFINE m == Max({0} \cup PeerShown)
<1>1. /\ client.start \in Nat /\ client.base \in Nat /\ Pos \in Nat /\ Len(client.got) \in Nat
      /\ Pos = client.start + Len(client.got) /\ MaxPeer \in Nat /\ store.head \in Nat
      /\ client.got \in Seq(Entries)
  BY Numbers, BoundAssumption DEF Pos
<1>2. DOMAIN client.got = 1..Len(client.got)
  BY <1>1, LenProperties
<1>3. \A i \in 1..Len(client.got) : client.got[i] = log[client.start + i]
  <2>1. client.got = SubSeq(log, client.start + 1, Pos) /\ Pos <= store.head
    BY DEF Shown
  <2>2. \A i \in (client.start + 1)..Pos : log[i] \in Entries
    <3>a. Pos <= store.head /\ Pos \in Nat /\ client.start \in Nat /\ store.head \in Nat
      BY <1>1, <2>1
    <3>1. \A i \in (client.start + 1)..Pos : i \in 1..store.head
      BY ONLY <3>a
    <3> QED
      BY <3>1, ElementOfSeq DEF Typed
  <2>3. client.start + 1 \in Int /\ Pos \in Int
    BY <1>1
  <2>4. \A i \in 1..(Pos - (client.start + 1) + 1) :
          SubSeq(log, client.start + 1, Pos)[i] = log[(client.start + 1) + i - 1]
    BY <2>2, <2>3, SubSeqProperties
  <2>5. \A i \in 1..Len(client.got) : /\ i \in 1..(Pos - (client.start + 1) + 1)
                                      /\ (client.start + 1) + i - 1 = client.start + i
    BY <1>1
  <2> QED
    BY <2>1, <2>4, <2>5
<1>4. m \in {0} \cup PeerShown
  <2>1. {0} \cup PeerShown \subseteq 0..MaxPeer
    BY <1>1 DEF PeerShown
  <2> QED
    BY <1>1, <2>1, MaxExists
<1> HIDE DEF m
<1>5. ASSUME NEW j \in (client.base + 1)..m
      PROVE  j \in PeerShown
  <2>1. m \in PeerShown /\ m \in 1..MaxPeer
    <3>1. m # 0
      BY <1>1, <1>5
    <3>2. m \in PeerShown
      BY <1>4, <3>1
    <3>3. PeerShown \subseteq 1..MaxPeer
      BY DEF PeerShown
    <3> QED
      BY <3>2, <3>3
  <2>2. j \in 1..MaxPeer
    BY <1>1, <2>1
  <2>3. PICK i \in 1..Len(client.got) : client.got[i] = <<"peer", m>>
    BY <1>2, <2>1 DEF PeerShown
  <2>4. client.start + i \in (client.start + 1)..Pos
    BY <1>1
  <2>5. Backed(client.start + i) /\ log[client.start + i] = <<"peer", m>>
    BY <1>3, <2>3, <2>4 DEF Shown
  <2>6. PICK h \in (client.start + 1)..(client.start + i) : log[h] = <<"peer", j>>
    <3>1. m \in Nat
      BY <2>1
    <3> QED
      BY <2>5, <3>1 DEF Backed, Has
  <2>7. h - client.start \in 1..Len(client.got) /\ client.start + (h - client.start) = h
    BY SMTT(30), <1>1, <2>4
  <2>8. client.got[h - client.start] = <<"peer", j>>
    BY <1>3, <2>6, <2>7
  <2> QED
    BY <1>2, <2>2, <2>7, <2>8 DEF PeerShown
<1> QED
  BY <1>5 DEF NoHole, m

(* No hole: however sessions break, queues overflow, the broker restarts or  *)
(* frames are ignored, the events of the peer that a client was shown since  *)
(* its start are consecutive, or it was reset (ingest_remote, fence).        *)
THEOREM ShownWithoutHole == Spec => []NoHole
<1>1. ReplayInv => NoHole
  BY ShownWhole
<1> QED
  BY <1>1, Invariance, PTL
=============================================================================
