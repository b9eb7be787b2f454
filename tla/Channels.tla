------------------------------ MODULE Channels ------------------------------
(***************************************************************************)
(* Delivery of one durable channel on one server of a native network.      *)
(*                                                                         *)
(* The broker (in the agent process) owns the SQLite replay store: it      *)
(* commits local publications, ingests the events of a peer broker that    *)
(* arrive over a session, and notifies the proxy over a bounded queue.     *)
(* The proxy process reads the same database read-only; a client's stream  *)
(* sleeps until a notification wakes it and then reads after its cursor.   *)
(* Everything that can lose an event (a session that breaks, a queue that  *)
(* overflows, a broker that restarts, an application not registered yet)   *)
(* is answered by a fence: the replay epoch is rotated, so that every      *)
(* cursor of the old epoch is refused, and the streams are reset.          *)
(*                                                                         *)
(* The peer is reduced to its publication sequence and its side of the     *)
(* session.  Other channels and ephemeral events are left out, so ids are  *)
(* dense.  Ages are abstracted to the highest id whose replay window has   *)
(* passed, and to whether the inactivity time has.  An SSE stream looks    *)
(* for a reset before every message, a WebSocket only before a page: with  *)
(* Page = 1 they coincide.                                                 *)
(***************************************************************************)
EXTENDS Naturals, Sequences, FiniteSets, FiniteSetsExt

CONSTANTS
    Capacity,    \* max_messages_per_stream
    Page,        \* rows a stream reads at a time
    NoteRoom,    \* packets of a subscriber's queue
    FrameRoom,   \* frames of a peer's queue and of the wire
    NoCursor,    \* the client has no replay cursor
    MaxPeer,     \* bound: publications of the peer
    MaxLocal,    \* bound: local publications
    MaxFaults    \* bound: everything that is not normal operation

ASSUME SizeAssumption ==
    {Capacity, Page, NoteRoom, FrameRoom} \subseteq Nat \ {0}
ASSUME BoundAssumption == {MaxPeer, MaxLocal, MaxFaults} \subseteq Nat

VARIABLES
    store,       \* the SQLite file
    log,         \* history: the event of every row ever committed, by id
    peer,        \* the peer's channel_event_sequence
    link,        \* the session: its two ends
    frames,      \* frames on their way to the broker
    registered,  \* the broker runs and has registered the application
    bus,         \* the broker's queue to the proxy
    reader,      \* the proxy's notification task
    seen,        \* value of the channel's change watch (0: None)
    conn,        \* the server's end of the client's stream
    client,      \* the client: its cursor; history of what it was shown
    faults

vars == <<store, log, peer, link, frames, registered, bus, reader, seen, conn,
          client, faults>>
mesh == <<peer, link, frames>>
proxy == <<reader, seen, conn, client>>

MaxLog == MaxPeer + MaxLocal
Events == ({"peer"} \X (1..MaxPeer)) \cup ({"local"} \X (1..MaxLocal))
Ids == 1..MaxLog
Cursors == [epoch : Nat, pos : 0..MaxLog]
Notes == {<<"gap">>, <<"wake">>} \cup ({"committed"} \X Ids)
Frames == {<<"gap">>} \cup ({"event"} \X (1..MaxPeer))
Streaming == {"top", "marked", "send", "wait"}

TypeOK ==
    /\ store \in [rows : SUBSET Ids, head : 0..MaxLog, floor : 0..MaxLog,
                  epoch : Nat, sequence : 0..MaxLocal, origin : 0..MaxPeer,
                  aged : 0..MaxLog, idle : BOOLEAN]
    /\ log \in Seq(Events)
    /\ peer \in 0..MaxPeer
    /\ link \in [up : BOOLEAN, here : {"off", "auth", "on"},
                 there : {"off", "auth", "on"}]
    /\ frames \in Seq(Frames) /\ Len(frames) <= FrameRoom
    /\ registered \in BOOLEAN
    /\ bus \in [notes : Seq(Notes), sub : BOOLEAN]
    /\ Len(bus.notes) <= NoteRoom
    /\ reader \in {"ready", "lost", "back"}
    /\ seen \in 0..MaxLog
    /\ conn \in [pc : {"off", "synced", "hooked"} \cup Streaming,
                 after : Cursors, batch : Seq(Ids), more : BOOLEAN,
                 changed : BOOLEAN, reset : BOOLEAN]
    /\ client \in [cursor : Cursors \cup {NoCursor}, start : 0..MaxLog,
                   base : 0..MaxPeer, got : Seq(Events)]
    /\ faults \in 0..MaxFaults

NoConn == [pc |-> "off", after |-> [epoch |-> 0, pos |-> 0], batch |-> <<>>,
           more |-> FALSE, changed |-> FALSE, reset |-> FALSE]

(* The proxy has registered the application and subscribed. *)
Init ==
    /\ store = [rows |-> {}, head |-> 0, floor |-> 0, epoch |-> 1,
                sequence |-> 0, origin |-> 0, aged |-> 0, idle |-> FALSE]
    /\ log = <<>>
    /\ peer = 0
    /\ link = [up |-> FALSE, here |-> "off", there |-> "off"]
    /\ frames = <<>>
    /\ registered = TRUE
    /\ bus = [notes |-> <<>>, sub |-> TRUE]
    /\ reader = "ready"
    /\ seen = 0
    /\ conn = NoConn
    /\ client = [cursor |-> NoCursor, start |-> 0, base |-> 0, got |-> <<>>]
    /\ faults = 0

-----------------------------------------------------------------------------
(* The replay store. *)

Rotate(s) == [s EXCEPT !.epoch = @ + 1]

(* Variant: the delete trigger does not raise the floor. *)
Delete_NoFloor(s, gone) == [s EXCEPT !.rows = @ \ gone]

(* The delete trigger raises the floor to the highest row deleted. *)
Delete(s, gone) ==
    [s EXCEPT !.rows = @ \ gone, !.floor = Max({@} \cup gone)]

(* The oldest rows over the stream's budget. *)
Excess(s) ==
    {r \in s.rows : Cardinality({q \in s.rows : q > r}) >= Capacity}

(* Append one row and retire what no longer fits. *)
Insert(s) ==
    LET t == [s EXCEPT !.head = @ + 1, !.rows = @ \cup {s.head + 1},
                       !.idle = FALSE]
    IN  Delete(t, Excess(t))

(* Variant: a gap in the peer's sequence keeps the epoch. *)
Ingested_SameEpoch(s, n) == [Insert(s) EXCEPT !.origin = n]

(* A gap in the peer's sequence rotates the epoch in the transaction that  *)
(* adds the row.                                                           *)
Ingested(s, n) ==
    [Insert(IF n > s.origin + 1 THEN Rotate(s) ELSE s) EXCEPT !.origin = n]

(* Rows the age rules retire now. *)
Expired(s) == IF s.idle THEN s.rows ELSE {r \in s.rows : r <= s.aged}

ExpiredFloor(s) == Max({0} \cup Expired(s))

(* A cursor is refused by scope, by floor, by head and by age. *)
Stale(s, c) ==
    \/ c.epoch # s.epoch
    \/ c.pos < s.floor
    \/ c.pos > s.head
    \/ c.pos < ExpiredFloor(s)

(* One page of rows after the position, in order. *)
ReadAfter(s, pos) ==
    LET rest == {r \in s.rows : r > Max({pos, ExpiredFloor(s)})}
        page == {r \in rest : Cardinality({q \in rest : q < r}) < Page}
    IN  [i \in 1..Cardinality(page) |->
            CHOOSE r \in page : Cardinality({q \in page : q < r}) = i - 1]

(* Maintenance, every second in the broker's process. *)
Prune ==
    /\ registered /\ Expired(store) # {}
    /\ store' = Delete(store, Expired(store))
    /\ UNCHANGED <<log, mesh, registered, bus, proxy, faults>>

(* A publication on another channel retires the store's oldest row. *)
PruneForOthers ==
    /\ registered /\ store.rows # {} /\ faults < MaxFaults
    /\ store' = Delete(store, {Min(store.rows)})
    /\ faults' = faults + 1
    /\ UNCHANGED <<log, mesh, registered, bus, proxy>>

(* Time passes: the replay window of the oldest rows, or the inactivity    *)
(* time of the channel.                                                    *)
Age ==
    /\ faults < MaxFaults
    /\ \/ /\ store.aged < store.head
          /\ store' = [store EXCEPT !.aged = @ + 1]
       \/ /\ ~store.idle /\ store.rows # {}
          /\ store' = [store EXCEPT !.idle = TRUE]
    /\ faults' = faults + 1
    /\ UNCHANGED <<log, mesh, registered, bus, proxy>>

-----------------------------------------------------------------------------
(* The broker.  Its commands run one at a time.                            *)

Full(b) == b.sub /\ Len(b.notes) >= NoteRoom

(* A subscriber whose queue is full is dropped. *)
Notify(b, n) ==
    IF Full(b) THEN [b EXCEPT !.sub = FALSE]
    ELSE IF b.sub THEN [b EXCEPT !.notes = Append(@, n)]
    ELSE b

(* Rotate the epoch, then tell the proxy. *)
Fence(s, b) == store' = Rotate(s) /\ bus' = Notify(b, <<"gap">>)

(* Store and notify; a lost notification or a peer whose queue is full     *)
(* (`overflow`: that peer is dropped, which ends its session) is fenced.   *)
Publish(overflow) ==
    LET s == [Insert(store) EXCEPT !.sequence = @ + 1]
        b == Notify(bus, <<"committed", s.head>>)
    IN  /\ registered /\ store.sequence < MaxLocal
        /\ overflow => link.here = "on" /\ faults < MaxFaults
        /\ log' = Append(log, <<"local", s.sequence>>)
        /\ IF overflow \/ Full(bus)
           THEN Fence(s, b)
           ELSE store' = s /\ bus' = b
        /\ link' = IF overflow THEN [link EXCEPT !.up = FALSE, !.here = "auth"]
                               ELSE link
        /\ faults' = IF overflow THEN faults + 1 ELSE faults
        /\ UNCHANGED <<peer, frames, registered, proxy>>

(* A frame of a peer that is no longer attached, or for an application     *)
(* that is not registered, is ignored.                                     *)
IgnoreFrame ==
    /\ frames # <<>> /\ link.here = "on" /\ ~registered
    /\ frames' = Tail(frames)
    /\ UNCHANGED <<store, log, peer, link, registered, bus, proxy, faults>>

(* Ingest the peer's next event, unless it is a duplicate; a gap is        *)
(* notified before the row.                                                *)
Ingest ==
    /\ frames # <<>> /\ link.here = "on" /\ registered
    /\ Head(frames)[1] = "event"
    /\ LET n == Head(frames)[2]
           s == Ingested(store, n)
           g == IF s.epoch # store.epoch THEN Notify(bus, <<"gap">>) ELSE bus
           b == Notify(g, <<"wake">>)
       IN  IF n <= store.origin
           THEN UNCHANGED <<store, log, bus>>
           ELSE /\ log' = Append(log, <<"peer", n>>)
                /\ IF Full(g) THEN Fence(s, b) ELSE store' = s /\ bus' = b
    /\ frames' = Tail(frames)
    /\ UNCHANGED <<peer, link, registered, proxy, faults>>

(* The store rejects the event: the peer is dropped and the app fenced. *)
IngestFails ==
    /\ frames # <<>> /\ link.here = "on" /\ registered
    /\ Head(frames)[1] = "event" /\ faults < MaxFaults
    /\ faults' = faults + 1
    /\ frames' = Tail(frames)
    /\ link' = [link EXCEPT !.up = FALSE, !.here = "auth"]
    /\ Fence(store, bus)
    /\ UNCHANGED <<log, peer, registered, proxy>>

(* The peer lost something and says so. *)
GapFrame ==
    /\ frames # <<>> /\ link.here = "on" /\ registered
    /\ Head(frames) = <<"gap">>
    /\ frames' = Tail(frames)
    /\ Fence(store, bus)
    /\ UNCHANGED <<log, peer, link, registered, proxy, faults>>

(* The session has ended here.  The loss is handled before any queued      *)
(* frame of that session, and those are then ignored.                      *)
SessionLost ==
    /\ ~link.up /\ link.here # "off"
    /\ link' = [link EXCEPT !.here = "off"]
    /\ frames' = <<>>
    /\ IF registered THEN Fence(store, bus) ELSE UNCHANGED <<store, bus>>
    /\ UNCHANGED <<log, peer, registered, proxy, faults>>

(* The agent restarts: queues and sessions are gone, the file stays, and   *)
(* the proxy may still read what is in the socket.                         *)
BrokerRestarts ==
    /\ registered /\ faults < MaxFaults
    /\ faults' = faults + 1
    /\ registered' = FALSE
    /\ \E k \in 0..Len(bus.notes) :
          bus' = [notes |-> SubSeq(bus.notes, 1, k), sub |-> FALSE]
    /\ link' = [link EXCEPT !.up = FALSE, !.here = "off"]
    /\ frames' = <<>>
    /\ UNCHANGED <<store, log, peer, proxy>>

-----------------------------------------------------------------------------
(* The peer and the session with it.                                       *)

Connect ==
    /\ ~link.up /\ link.here = "off" /\ link.there = "off"
    /\ link' = [up |-> TRUE, here |-> "auth", there |-> "auth"]
    /\ frames' = <<>>
    /\ UNCHANGED <<store, log, peer, registered, bus, proxy, faults>>

AttachHere ==
    /\ link.up /\ link.here = "auth"
    /\ link' = [link EXCEPT !.here = "on"]
    /\ UNCHANGED <<store, log, peer, frames, registered, bus, proxy, faults>>

AttachThere ==
    /\ link.up /\ link.there = "auth"
    /\ link' = [link EXCEPT !.there = "on"]
    /\ UNCHANGED <<store, log, peer, frames, registered, bus, proxy, faults>>

(* The peer's fanout: without this server attached nothing is sent; a full *)
(* queue ends the session.                                                 *)
Fanout(f) ==
    IF link.there = "on" /\ Len(frames) < FrameRoom
    THEN frames' = Append(frames, f) /\ UNCHANGED link
    ELSE /\ UNCHANGED frames
         /\ link' = IF link.there = "on"
                    THEN [link EXCEPT !.up = FALSE, !.there = "auth"]
                    ELSE link

PeerPublishes ==
    /\ peer < MaxPeer
    /\ peer' = peer + 1
    /\ Fanout(<<"event", peer + 1>>)
    /\ UNCHANGED <<store, log, registered, bus, proxy, faults>>

PeerFences ==
    /\ link.there = "on" /\ faults < MaxFaults
    /\ faults' = faults + 1
    /\ Fanout(<<"gap">>)
    /\ UNCHANGED <<store, log, peer, registered, bus, proxy>>

(* The connection breaks with frames in flight. *)
Break ==
    /\ link.up /\ faults < MaxFaults
    /\ faults' = faults + 1
    /\ link' = [link EXCEPT !.up = FALSE]
    /\ \E k \in 0..Len(frames) : frames' = SubSeq(frames, 1, k)
    /\ UNCHANGED <<store, log, peer, registered, bus, proxy>>

PeerSessionLost ==
    /\ ~link.up /\ link.there # "off"
    /\ link' = [link EXCEPT !.there = "off"]
    /\ UNCHANGED <<store, log, peer, frames, registered, bus, proxy, faults>>

-----------------------------------------------------------------------------
(* The proxy's notification task.                                          *)

Hooked == conn.pc \notin {"off", "synced"}
Delivering == conn.pc \in Streaming

(* Every stream that has subscribed to resets gets one. *)
SignalGap == conn' = [conn EXCEPT !.reset = Hooked]

(* A commit moves the watch only forward; a wake hint always notifies. *)
Notification ==
    /\ reader = "ready" /\ bus.notes # <<>>
    /\ bus' = [bus EXCEPT !.notes = Tail(@)]
    /\ LET n == Head(bus.notes) IN
       \/ n = <<"gap">> /\ SignalGap /\ UNCHANGED seen
       \/ n = <<"wake">> /\ conn' = [conn EXCEPT !.changed = Delivering]
          /\ UNCHANGED seen
       \/ /\ n[1] = "committed"
          /\ seen' = Max({seen, n[2]})
          /\ conn' = [conn EXCEPT !.changed = @ \/ (Delivering /\ n[2] > seen)]
    /\ UNCHANGED <<store, log, mesh, registered, reader, client, faults>>

(* The subscription's stream has ended. *)
SubscriptionLost ==
    /\ reader = "ready" /\ bus.notes = <<>> /\ ~bus.sub
    /\ reader' = "lost"
    /\ SignalGap
    /\ UNCHANGED <<store, log, mesh, registered, bus, seen, client, faults>>

(* Registering the application anew fences what was committed before. *)
Register ==
    /\ reader = "lost" /\ ~registered
    /\ registered' = TRUE
    /\ store' = Rotate(store)
    /\ UNCHANGED <<log, mesh, bus, proxy, faults>>

Subscribe ==
    /\ reader = "lost" /\ registered
    /\ bus' = [notes |-> <<>>, sub |-> TRUE]
    /\ reader' = "back"
    /\ UNCHANGED <<store, log, mesh, registered, seen, conn, client, faults>>

(* Variant: no reset after the new subscription. *)
Resubscribed_Quiet ==
    /\ reader = "back"
    /\ reader' = "ready"
    /\ UNCHANGED <<store, log, mesh, registered, bus, seen, conn, client,
                   faults>>

(* Streams opened since the subscription was lost are reset too. *)
Resubscribed ==
    /\ reader = "back"
    /\ reader' = "ready"
    /\ SignalGap
    /\ UNCHANGED <<store, log, mesh, registered, bus, seen, client, faults>>

-----------------------------------------------------------------------------
(* The stream of a client.                                                 *)

stream == <<log, mesh, registered, bus, reader, seen, faults>>

(* The request waits until the proxy is ready and refreshes the channel. *)
Open ==
    /\ conn.pc = "off" /\ reader = "ready" /\ registered
    /\ conn' = [conn EXCEPT !.pc = "synced"]
    /\ store' = [store EXCEPT !.idle = FALSE]
    /\ UNCHANGED <<stream, client>>

HookResets ==
    /\ conn.pc = "synced"
    /\ conn' = [conn EXCEPT !.pc = "hooked", !.reset = FALSE]
    /\ UNCHANGED <<stream, store, client>>

(* Variant: the client keeps the refused cursor. *)
Expire_KeepCursor ==
    /\ conn' = NoConn
    /\ UNCHANGED client

(* 410 Gone, close code 4410 or a tako.reset event: the client drops its   *)
(* cursor and what it had is no longer part of a history.                  *)
Expire ==
    /\ conn' = NoConn
    /\ client' = [cursor |-> NoCursor, start |-> 0, base |-> 0, got |-> <<>>]

(* Without a cursor the stream starts at the head. *)
Locate ==
    /\ conn.pc = "hooked"
    /\ IF client.cursor = NoCursor
       THEN /\ conn' = [conn EXCEPT !.pc = "top", !.changed = FALSE,
                        !.after = [epoch |-> store.epoch, pos |-> store.head]]
            /\ client' = [cursor |-> NoCursor, start |-> store.head,
                          base |-> store.origin, got |-> <<>>]
       ELSE IF Stale(store, client.cursor)
       THEN Expire
       ELSE /\ conn' = [conn EXCEPT !.pc = "top", !.changed = FALSE,
                                    !.after = client.cursor]
            /\ UNCHANGED client
    /\ UNCHANGED <<stream, store>>

(* Before it reads, the stream marks the changes so far as seen. *)
Mark ==
    /\ conn.pc = "top"
    /\ IF conn.reset
       THEN Expire
       ELSE /\ conn' = [conn EXCEPT !.pc = "marked", !.changed = FALSE]
            /\ UNCHANGED client
    /\ UNCHANGED <<stream, store>>

Read ==
    /\ conn.pc = "marked"
    /\ IF Stale(store, conn.after)
       THEN Expire
       ELSE LET page == ReadAfter(store, conn.after.pos)
            IN  /\ conn' = [conn EXCEPT !.batch = page,
                                        !.more = Len(page) = Page,
                                        !.pc = IF page = <<>> THEN "wait"
                                                              ELSE "send"]
                /\ UNCHANGED client
    /\ UNCHANGED <<stream, store>>

(* One message of the page; its id is the client's new cursor.  A full     *)
(* page is followed by another read.                                       *)
Send ==
    /\ conn.pc = "send"
    /\ IF conn.reset
       THEN Expire
       ELSE LET c == [conn.after EXCEPT !.pos = Head(conn.batch)]
            IN  /\ conn' = [conn EXCEPT !.after = c, !.batch = Tail(@),
                                        !.pc = IF Len(conn.batch) > 1 THEN "send"
                                               ELSE IF conn.more THEN "top"
                                               ELSE "wait"]
                /\ client' = [client EXCEPT !.cursor = c,
                                            !.got = Append(@, log[c.pos])]
    /\ UNCHANGED <<stream, store>>

Wake ==
    /\ conn.pc = "wait"
    /\ \/ conn.reset /\ Expire
       \/ /\ conn.changed
          /\ conn' = [conn EXCEPT !.pc = "top"]
          /\ UNCHANGED client
    /\ UNCHANGED <<stream, store>>

(* The connection ends: its lifetime, or the network.  The client keeps    *)
(* the cursor of the last message it got.                                  *)
Disconnect ==
    /\ conn.pc # "off" /\ faults < MaxFaults
    /\ faults' = faults + 1
    /\ conn' = NoConn
    /\ UNCHANGED <<store, log, mesh, registered, bus, reader, seen, client>>

-----------------------------------------------------------------------------
Broker ==
    \/ \E overflow \in BOOLEAN : Publish(overflow)
    \/ IgnoreFrame \/ Ingest \/ IngestFails \/ GapFrame
    \/ SessionLost \/ BrokerRestarts
    \/ Prune \/ PruneForOthers \/ Age

Peer ==
    \/ Connect \/ AttachHere \/ AttachThere \/ PeerPublishes \/ PeerFences
    \/ Break \/ PeerSessionLost

Proxy ==
    \/ Notification \/ SubscriptionLost \/ Register \/ Subscribe
    \/ Resubscribed

Stream ==
    \/ Open \/ HookResets \/ Locate \/ Mark \/ Read \/ Send \/ Wake
    \/ Disconnect

Next == Broker \/ Peer \/ Proxy \/ Stream

Spec == Init /\ [][Next]_vars

(* The broker's and the proxy's tasks keep running, sessions are retried   *)
(* and so is the client's connection.                                      *)
Fairness ==
    /\ WF_vars(IgnoreFrame \/ Ingest \/ GapFrame)
    /\ WF_vars(SessionLost) /\ WF_vars(PeerSessionLost)
    /\ WF_vars(Connect) /\ WF_vars(AttachHere) /\ WF_vars(AttachThere)
    /\ WF_vars(Proxy)
    /\ WF_vars(Open \/ HookResets \/ Locate \/ Mark \/ Read \/ Send
               \/ Wake)

FairSpec == Spec /\ Fairness

-----------------------------------------------------------------------------
(* What a client was shown since its history began is exactly what was     *)
(* committed after its start and up to its position, in order: rows that   *)
(* expire, are pruned or retired by a budget while it reads, and any       *)
(* number of reconnects with its cursor, never make it skip or repeat one  *)
(* without a reset (read_after, replay_cursor, the delete trigger).        *)
NoSkip ==
    /\ client.cursor # NoCursor =>
          client.got = SubSeq(log, client.start + 1, client.cursor.pos)
    /\ Delivering =>
          client.got = SubSeq(log, client.start + 1, conn.after.pos)

(* No hole in what came from the peer: between the peer's sequence at the  *)
(* start of a client's history and the last of its events the client was   *)
(* shown, the client was shown every event, however sessions broke, queues *)
(* overflowed, the broker restarted or frames were ignored in between      *)
(* (ingest_remote, fence).                                                 *)
PeerShown == {n \in 1..MaxPeer :
                 \E i \in DOMAIN client.got : client.got[i] = <<"peer", n>>}
NoHole ==
    (client.base + 1)..Max({0} \cup PeerShown) \subseteq PeerShown

(* Every row committed while a client's stream runs is sent to it, or the  *)
(* stream is reset or ends: no notification that was dropped with a queue, *)
(* lost with a subscription or overtaken by a read leaves a stream asleep  *)
(* before a row (notify_committed, the notification task, the read loop).  *)
Delivers ==
    \A i \in Ids :
        (Delivering /\ i <= Len(log) /\ conn.after.pos < i)
            ~> (~Delivering \/ conn.after.pos >= i)

(* Once the faults are over the client has a running stream for good: a    *)
(* refused cursor is dropped, not offered again and again (tako.reset,     *)
(* 410 Gone and close code 4410 in the readers of the SDK).                *)
Recovers == <>[]Delivering

(* An event that the peer publishes is ingested here, or the streams that  *)
(* were running are reset.  Does not hold (see the README).                *)
PeerHeard ==
    \A n \in 1..MaxPeer :
        (Delivering /\ client.base < n /\ n <= peer)
            ~> (~Delivering \/ store.origin >= n)

=============================================================================
