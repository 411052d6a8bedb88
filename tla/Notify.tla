------------------------------ MODULE Notify ------------------------------
(***************************************************************************)
(* The notifications of the endpoint (Endpoint::subscription, event,       *)
(* eventsLost, queueEvent, sendEvents, push, endSubscriptions): the events *)
(* of its fns through a ring that drops the oldest, and their data, pulled *)
(* in the batches the subscriber asked for. Both share one seq per fn and  *)
(* leave on the route of the last subscribe, behind the answers.           *)
(*                                                                         *)
(* A poll serves what has arrived (at = 0), then sends the events (at = 1) *)
(* and walks the fns (at = 1 + fn). The captures fill their stores and the *)
(* host empties the transport at any time in between. Sizes are in units;  *)
(* time is a wait in ticks.                                                *)
(***************************************************************************)
EXTENDS Integers, Sequences, SequencesExt, FiniteSets

CONSTANTS
  N,            \* the fns that notify are 1 .. N
  Usb, Slots,   \* the routes: a USB port and the slots of a TCP listener
  Ring,         \* tables_.events
  Capacity,     \* the room of an idle transport
  PushQueue,    \* push_queue_
  AnswerSizes,  \* what an answer takes
  SeqTurn,      \* seq is a u16: counted modulo SeqTurn
  Batches,      \* the [min, delay] a subscriber asks for
  MaxData,      \* bound: what one fn has pending
  MaxTerms,     \* bound: sessions, the last of which stays
  MaxSubs,      \* bound: subscriptions of a fn
  MaxConns,     \* bound: connections to the slots
  Wraps         \* does seq turn over, or stop one short of it?

Fns == 1 .. N
Routes == {Usb} \cup Slots

ASSUME NotifyAssumption ==
  /\ N \in Nat /\ Usb \notin Slots
  /\ Ring \in Nat \ {0} /\ Capacity \in Nat /\ PushQueue \in Nat
  /\ AnswerSizes \subseteq 1 .. Capacity
  /\ SeqTurn \in Nat \ {0, 1}
  /\ Batches \subseteq [min : Nat, delay : Nat]
  /\ MaxData \in Nat /\ MaxTerms \in Nat /\ MaxSubs \in Nat
  /\ MaxConns \in Nat
  /\ Wraps \in BOOLEAN /\ (Wraps \/ MaxData = 0)

Header == 1     \* kPushHeader and the transport's framing
Meta == 1       \* position, len and the TLVs pull() writes round its data
EventSize == 1

VARIABLES
  locked,       \* Endpoint::locked_
  fn,           \* Endpoint::fn_, per fn
  ring,         \* events_[event_tail_ .. event_head_ - 1]
  data,         \* what pending() of each interface says
  tx,           \* what waits in each route's stream, oldest first
  roomMax,      \* Transport::tx_room_max
  push,         \* push_ and push_conn_
  conn,         \* the connection on each route now (0 = none; USB: always 1)
  conns,        \* TcpListener::next_id_
  at,           \* where the poll is
  term,         \* ghost: sessions so far
  spoke,        \* ghost: [route, conn, term] of the requests of a session
  told,         \* ghost, per fn: subscriptions, and what became of its seqs
  owed          \* ghost, per fn: what was pending when its batch came due

state == <<locked, fn, ring, data, tx, roomMax, push, conn, conns, at>>
ghost == <<term, spoke, told, owed>>
vars == <<state, ghost>>

Fresh(on, min, delay) ==
  [on |-> on, min |-> min, delay |-> delay, seq |-> 0,
   waiting |-> FALSE, waited |-> 0, draining |-> 0]
Untold == [subs |-> 0, past |-> 0]

Answer(n) == [kind |-> "answer", size |-> n]
EventFrame(e) == [kind |-> "event", size |-> EventSize, term |-> e.term]
PushFrame(n) == [kind |-> "push", size |-> Header + Meta + n, term |-> term]

Size(s) == FoldSeq(LAMBDA x, n : x.size + n, 0, s)
Room(r) == IF conn[r] = 0 THEN 0 ELSE Capacity - Size(tx[r])

\* Mutant: a closed connection only, not another one in its slot.
pushGoneIfClosed == push.route \in Slots /\ conn[push.route] = 0

\* push_conn_ against the connection there now: Endpoint::pushGone.
pushGone == push.route \in Slots /\ conn[push.route] # push.conn

MaxDelay == LET D == {b.delay : b \in Batches}
            IN  CHOOSE d \in D \cup {0} : \A e \in D : e <= d

TypeOK ==
  /\ locked \in BOOLEAN
  /\ fn \in [Fns -> [on : BOOLEAN, min : 0 .. MaxData, delay : 0 .. MaxDelay,
                     seq : 0 .. SeqTurn - 1, waiting : BOOLEAN,
                     waited : 0 .. MaxDelay, draining : 0 .. MaxData]]
  /\ ring \in Seq([fn : Fns, seq : 0 .. SeqTurn - 1, sub : 1 .. MaxSubs,
                   term : 1 .. MaxTerms])
  /\ Len(ring) <= Ring
  /\ data \in [Fns -> 0 .. MaxData]
  /\ \A r \in Routes : \A i \in DOMAIN tx[r] :
       /\ tx[r][i].kind \in {"answer", "event", "push"}
       /\ tx[r][i].size \in 1 .. Capacity
  /\ roomMax \in [Routes -> 0 .. Capacity]
  /\ push \in [route : Routes, conn : 0 .. MaxConns + 1]
  /\ conn \in [Routes -> 0 .. MaxConns + 1] /\ conns \in 1 .. MaxConns + 1
  /\ at \in 0 .. N + 1
  /\ term \in 0 .. MaxTerms
  /\ told \in [Fns -> [subs : 0 .. MaxSubs, past : 0 .. SeqTurn - 1]]
  /\ owed \in [Fns -> 0 .. MaxData]

Init ==
  /\ locked = FALSE
  /\ fn = [f \in Fns |-> Fresh(FALSE, 0, 0)]
  /\ ring = <<>>
  /\ data = [f \in Fns |-> 0]
  /\ tx = [r \in Routes |-> <<>>]
  /\ roomMax = [r \in Routes |-> 0]
  /\ push = [route |-> Usb, conn |-> 0]
  /\ conn = [r \in Routes |-> IF r = Usb THEN 1 ELSE 0]
  /\ conns = 1
  /\ at = 0
  /\ term = 0 /\ spoke = {}
  /\ told = [f \in Fns |-> Untold]
  /\ owed = [f \in Fns |-> 0]

-----------------------------------------------------------------------------
(* Requests. An answer waits for its room: the write returns once it has   *)
(* it. A request comes over the connection its route has now.              *)

Served(r, n) ==
  /\ at = 0 /\ conn[r] # 0
  /\ Room(r) >= n
  /\ tx' = [tx EXCEPT ![r] = Append(@, Answer(n))]

Speaks(r, t) == spoke' = spoke \cup {[route |-> r, conn |-> conn[r], term |-> t]}

\* Mutant: the queued events stay.
endSubscriptionsNotEvents ==
  /\ fn' = [f \in Fns |-> [fn[f] EXCEPT !.on = FALSE]]
  /\ UNCHANGED ring

\* endSubscriptions: the ring emptied, every subscription off.
endSubscriptions ==
  /\ ring' = <<>>
  /\ fn' = [f \in Fns |-> [fn[f] EXCEPT !.on = FALSE]]

\* open on a free lock, or with force over another session.
Open(r) ==
  /\ Served(r, 1)
  /\ term < MaxTerms /\ term' = term + 1
  /\ IF locked THEN endSubscriptions ELSE UNCHANGED <<fn, ring>>
  /\ locked' = TRUE
  /\ Speaks(r, term')
  /\ UNCHANGED <<data, roomMax, push, conn, conns, at, told, owed>>

\* Any other request of the holder; a read may take pending data with it.
Request(r) ==
  /\ locked
  /\ \E n \in AnswerSizes : Served(r, n)
  /\ \E f \in Fns : \E n \in 0 .. data[f] :
       /\ data' = [data EXCEPT ![f] = n]
       /\ owed' = [owed EXCEPT ![f] = IF n < @ THEN n ELSE @]
  /\ Speaks(r, term)
  /\ UNCHANGED <<locked, fn, ring, roomMax, push, conn, conns, at, term, told>>

End(r) ==
  /\ locked /\ term < MaxTerms
  /\ Served(r, 1)
  /\ endSubscriptions
  /\ locked' = FALSE
  /\ Speaks(r, term)
  /\ UNCHANGED <<data, roomMax, push, conn, conns, at, term, told, owed>>

\* The lease ran out: found by a request or by push() itself.
lapse ==
  /\ locked /\ term < MaxTerms
  /\ at = 0
  /\ endSubscriptions
  /\ locked' = FALSE
  /\ UNCHANGED <<data, tx, roomMax, push, conn, conns, at, ghost>>

\* subscribe: the fn's subscription replaced whole, the route of all moved.
subscribe(f, r) ==
  /\ locked /\ Served(r, 1)
  /\ told[f].subs < MaxSubs
  /\ push' = [route |-> r, conn |-> conn[r]]
  /\ \E b \in Batches : fn' = [fn EXCEPT ![f] = Fresh(TRUE, b.min, b.delay)]
  /\ told' = [told EXCEPT ![f] = [Untold EXCEPT !.subs = told[f].subs + 1]]
  /\ owed' = [owed EXCEPT ![f] = 0]
  /\ Speaks(r, term)
  /\ UNCHANGED <<locked, ring, data, roomMax, conn, conns, at, term>>

unsubscribe(f, r) ==
  /\ locked /\ Served(r, 1)
  /\ fn' = [fn EXCEPT ![f].on = FALSE]
  /\ owed' = [owed EXCEPT ![f] = 0]
  /\ Speaks(r, term)
  /\ UNCHANGED <<locked, ring, data, roomMax, push, conn, conns, at, term, told>>

-----------------------------------------------------------------------------
(* What the interfaces hand over between two polls, and from their tasks.  *)

\* takeSeq: the fn's next seq and the one after it.
CanTake(f) == Wraps \/ fn[f].seq < SeqTurn - 1
After(seq, n) == (seq + n) % SeqTurn

\* The ghost's account of an event that leaves the ring.
Leaves(e) ==
  IF told[e.fn].subs = e.sub
  THEN [told EXCEPT ![e.fn].past = After(@, 1)] ELSE told

\* Mutant: an event that displaces another takes its number over.
queueEventInPlace(f) ==
  LET full == Len(ring) >= Ring
  IN  /\ CanTake(f)
      /\ ring' = Append(IF full THEN Tail(ring) ELSE ring,
                        [fn |-> f, seq |-> fn[f].seq, sub |-> told[f].subs, term |-> term])
      /\ fn' = IF full THEN fn ELSE [fn EXCEPT ![f].seq = After(@, 1)]
      /\ told' = IF full THEN Leaves(Head(ring)) ELSE told

\* queueEvent: numbered as it is queued; a full ring drops its oldest.
queueEvent(f) ==
  LET full == Len(ring) >= Ring
      kept == IF full THEN Tail(ring) ELSE ring
  IN  /\ CanTake(f)
      /\ ring' = Append(kept, [fn |-> f, seq |-> fn[f].seq,
                               sub |-> told[f].subs, term |-> term])
      /\ fn' = [fn EXCEPT ![f].seq = After(@, 1)]
      /\ told' = IF full THEN Leaves(Head(ring)) ELSE told

\* event: of a fn subscribed to; any other is nobody's.
event(f) ==
  /\ at = 0 /\ fn[f].on
  /\ queueEvent(f)
  /\ UNCHANGED <<locked, data, tx, roomMax, push, conn, conns, at, term, spoke, owed>>

\* eventsLost: what the interface's own queue lost still takes a seq.
eventsLost(f) ==
  /\ at = 0 /\ fn[f].on /\ CanTake(f)
  /\ fn' = [fn EXCEPT ![f].seq = After(@, 1)]
  /\ told' = [told EXCEPT ![f].past = After(@, 1)]
  /\ UNCHANGED <<locked, ring, data, tx, roomMax, push, conn, conns, at, term,
                 spoke, owed>>

\* A capture's task or interrupt stores more.
Arrive(f) ==
  /\ data[f] < MaxData
  /\ data' = [data EXCEPT ![f] = @ + 1]
  /\ UNCHANGED <<locked, fn, ring, tx, roomMax, push, conn, conns, at, ghost>>

Tick ==
  /\ \E f \in Fns : fn[f].waiting /\ fn[f].waited < MaxDelay
  /\ fn' = [f \in Fns |-> IF fn[f].waiting /\ fn[f].waited < MaxDelay
                          THEN [fn[f] EXCEPT !.waited = @ + 1] ELSE fn[f]]
  /\ UNCHANGED <<locked, ring, data, tx, roomMax, push, conn, conns, at, ghost>>

-----------------------------------------------------------------------------
(* push(): not for a host that is gone.                                    *)

BeginPush ==
  /\ at = 0 /\ locked /\ ~pushGone
  /\ at' = 1
  /\ UNCHANGED <<locked, fn, ring, data, tx, roomMax, push, conn, conns, ghost>>

\* sendEvents, one turn of its loop: no room ends the push, an empty ring
\* goes on to the data.
sendEvents ==
  /\ at = 1
  /\ \/ /\ ring # <<>> /\ Room(push.route) >= EventSize
        /\ LET e == Head(ring) IN
             /\ tx' = [tx EXCEPT ![push.route] = Append(@, EventFrame(e))]
             /\ told' = Leaves(e)
        /\ ring' = Tail(ring)
        /\ UNCHANGED at
     \/ /\ ring # <<>> /\ Room(push.route) < EventSize
        /\ at' = 0
        /\ UNCHANGED <<ring, tx, told>>
     \/ /\ ring = <<>>
        /\ at' = IF N = 0 THEN 0 ELSE 2
        /\ UNCHANGED <<ring, tx, told>>
  /\ UNCHANGED <<locked, fn, data, roomMax, push, conn, conns, term, spoke, owed>>

NextFn == at' = IF at = N + 1 THEN 0 ELSE at + 1
Batched(f) == fn[f].min > 0 \/ fn[f].delay > 0

\* 0 = that condition is not used.
Due(f) ==
  \/ fn[f].min > 0 /\ data[f] >= fn[f].min
  \/ fn[f].delay > 0 /\ fn[f].waiting /\ fn[f].waited >= fn[f].delay

\* Mutant: nothing notes when the first byte came.
HoldUntimed(f) ==
  /\ at = f + 1
  /\ \/ ~fn[f].on /\ UNCHANGED fn
     \/ /\ fn[f].on /\ Batched(f) /\ fn[f].draining = 0
        /\ ~(data[f] > 0 /\ Due(f))
        /\ fn' = [fn EXCEPT ![f].waiting = FALSE]
  /\ NextFn
  /\ UNCHANGED <<locked, ring, data, tx, roomMax, push, conn, conns, ghost>>

\* Held back: nothing subscribed, nothing pending, or a batch not due yet.
Hold(f) ==
  /\ at = f + 1
  /\ \/ /\ ~fn[f].on
        /\ UNCHANGED fn
     \/ /\ fn[f].on /\ Batched(f) /\ fn[f].draining = 0
        /\ data[f] = 0
        /\ fn' = [fn EXCEPT ![f].waiting = FALSE]
     \/ /\ fn[f].on /\ Batched(f) /\ fn[f].draining = 0
        /\ data[f] > 0 /\ ~Due(f)
        /\ fn' = [fn EXCEPT ![f].waiting = TRUE,
                            ![f].waited = IF fn[f].waiting THEN @ ELSE 0]
  /\ NextFn
  /\ UNCHANGED <<locked, ring, data, tx, roomMax, push, conn, conns, ghost>>

Goes(f) == fn[f].on /\ (Batched(f) /\ fn[f].draining = 0 => data[f] > 0 /\ Due(f))

\* The fn as its batch comes due, and the ghost of what it owes then.
Drawn(f) ==
  IF Batched(f) /\ fn[f].draining = 0
  THEN [fn[f] EXCEPT !.waiting = TRUE, !.draining = data[f],
                     !.waited = IF fn[f].waiting THEN @ ELSE 0]
  ELSE fn[f]
Owes(f) == IF Batched(f) /\ fn[f].draining = 0 THEN data[f] ELSE owed[f]

\* The payload the queue and the room leave: the capacity taken as the most
\* room ever seen.
Queued == LET r == push.route
              most == IF Room(r) > roomMax[r] THEN Room(r) ELSE roomMax[r]
          IN  most - Room(r)
Cap ==
  LET free == Room(push.route) - Header
      left == PushQueue - Queued - Header
  IN  IF PushQueue > 0 /\ left < free THEN left ELSE free

Seen == roomMax' = [roomMax EXCEPT ![push.route] =
                      IF Room(push.route) > @ THEN Room(push.route) ELSE @]

\* No room, or enough waiting already: the push ends here.
Full(f) ==
  /\ at = f + 1 /\ Goes(f)
  /\ Cap < 1
  /\ fn' = [fn EXCEPT ![f] = Drawn(f)]
  /\ owed' = [owed EXCEPT ![f] = Owes(f)]
  /\ Seen
  /\ at' = 0
  /\ UNCHANGED <<locked, ring, data, tx, push, conn, conns, term, spoke, told>>

\* pull(): what fits beside its own framing.
Pulled(f) == IF Cap <= Meta THEN 0
             ELSE IF data[f] < Cap - Meta THEN data[f] ELSE Cap - Meta

\* Nothing pulled: a batch whose data has gone meanwhile is over.
Empty(f) ==
  /\ at = f + 1 /\ Goes(f)
  /\ Cap >= 1 /\ Pulled(f) = 0
  /\ LET s == Drawn(f) IN
       fn' = [fn EXCEPT ![f] = IF s.draining > 0 /\ data[f] = 0
                               THEN [s EXCEPT !.draining = 0, !.waiting = FALSE]
                               ELSE s]
  /\ owed' = [owed EXCEPT ![f] = Owes(f)]
  /\ Seen
  /\ NextFn
  /\ UNCHANGED <<locked, ring, data, tx, push, conn, conns, term, spoke, told>>

\* A batch is over once as much as was pending has gone: draining is in the
\* bytes of pending(), n in those of pull().
Drained(s, n) ==
  LET d == IF s.draining > Meta + n THEN s.draining - (Meta + n) ELSE 0
  IN  [s EXCEPT !.draining = d, !.waiting = IF d = 0 THEN FALSE ELSE @,
                !.seq = After(@, 1)]

Pull(f) ==
  /\ at = f + 1 /\ Goes(f)
  /\ \E n \in 1 .. data[f] :
       /\ n = Pulled(f)
       /\ data' = [data EXCEPT ![f] = @ - n]
       /\ tx' = [tx EXCEPT ![push.route] = Append(@, PushFrame(n))]
       /\ fn' = [fn EXCEPT ![f] = Drained(Drawn(f), n)]
       /\ owed' = [owed EXCEPT ![f] = IF Owes(f) > n THEN Owes(f) - n ELSE 0]
  /\ told' = [told EXCEPT ![f].past = After(@, 1)]
  /\ Seen
  /\ NextFn
  /\ UNCHANGED <<locked, ring, push, conn, conns, term, spoke>>

-----------------------------------------------------------------------------
(* The other end.                                                          *)

\* The host takes the oldest frame.
Drain(r) ==
  /\ tx[r] # <<>>
  /\ tx' = [tx EXCEPT ![r] = Tail(@)]
  /\ UNCHANGED <<locked, fn, ring, data, roomMax, push, conn, conns, at, ghost>>

\* A slot's connection closes (seen between two polls), a new one comes.
Close(r) ==
  /\ r \in Slots /\ at = 0 /\ conn[r] # 0
  /\ conn' = [conn EXCEPT ![r] = 0]
  /\ tx' = [tx EXCEPT ![r] = <<>>]
  /\ UNCHANGED <<locked, fn, ring, data, roomMax, push, conns, at, ghost>>

Accept(r) ==
  /\ r \in Slots /\ at = 0 /\ conn[r] = 0
  /\ conns <= MaxConns
  /\ conns' = conns + 1
  /\ conn' = [conn EXCEPT ![r] = conns']
  /\ UNCHANGED <<locked, fn, ring, data, tx, roomMax, push, at, ghost>>

Asks(r) == Open(r) \/ Request(r) \/ End(r)
           \/ \E f \in Fns : subscribe(f, r) \/ unsubscribe(f, r)
PushFn(f) == Hold(f) \/ Full(f) \/ Empty(f) \/ Pull(f)
Push == BeginPush \/ sendEvents \/ \E f \in Fns : PushFn(f)

Next ==
  \/ \E r \in Routes : Asks(r)
  \/ lapse \/ Tick \/ Push
  \/ \E f \in Fns : event(f) \/ eventsLost(f) \/ Arrive(f)
  \/ \E r \in Routes : Drain(r) \/ Close(r) \/ Accept(r)

\* loop() polls, the host reads, time passes.
Fairness == WF_vars(Push) /\ WF_vars(Tick) /\ \A r \in Routes : WF_vars(Drain(r))

Spec == Init /\ [][Next]_vars
FairSpec == Spec /\ Fairness

-----------------------------------------------------------------------------
(* Safety                                                                  *)

\* Where the events of fn f's subscription wait.
Own(f) == {i \in DOMAIN ring : ring[i].fn = f /\ ring[i].sub = told[f].subs}

\* The host can count what it lost: a subscription's seqs are what was sent,
\* what still waits and what was lost, no more, and they wait in order.
SeqsTell ==
  \A f \in Fns : fn[f].on =>
    /\ fn[f].seq = (told[f].past + Cardinality(Own(f))) % SeqTurn
    /\ ~Wraps => \A i, j \in Own(f) : i < j => ring[i].seq < ring[j].seq

\* No event outlives the session it was for: what waits is of the session
\* that holds the lock now (Endpoint::endSubscriptions).
RingIsTheSessions ==
  \A i \in DOMAIN ring : locked /\ ring[i].term = term

\* A session's notifications go only where a request of that session came
\* from: never to another connection that took the slot (pushGone).
SpokenTo ==
  \A r \in Routes : \A i \in DOMAIN tx[r] : tx[r][i].kind # "answer" =>
    [route |-> r, conn |-> conn[r], term |-> tx[r][i].term] \in spoke

\* "what is pending then goes out frame after frame, min_bytes not applied
\* again to the rest": a fn that owes part of a batch is still draining it.
BatchGoesWhole == \A f \in Fns : fn[f].on /\ owed[f] > 0 => fn[f].draining > 0

-----------------------------------------------------------------------------
(* Liveness                                                                *)

\* Fn f has data for its subscriber that its batching cannot hold for good.
Waits(f) ==
  /\ locked /\ ~pushGone /\ fn[f].on /\ data[f] > 0
  /\ fn[f].delay > 0 \/ fn[f].min <= data[f]

\* What waits goes out (the fn's seq moves), or is nobody's any more.
GoesOut(f) ==
  \A k \in 0 .. SeqTurn - 1 :
    (Waits(f) /\ fn[f].seq = k) ~> (~Waits(f) \/ fn[f].seq # k)

\* Answers and events go before data, and a fn before the ones after it: data
\* goes out once the host stops asking, the events stop and the fns before it
\* in push()'s walk have come to rest.
Quiet == <>[][\A f \in Fns, r \in Routes : ~event(f) /\ ~Asks(r)]_vars
LowerRest(f) == <>[](\A g \in 1 .. f - 1 : data[g] = 0)
DataGoesOut == \A f \in Fns : Quiet /\ LowerRest(f) => GoesOut(f)

=============================================================================
