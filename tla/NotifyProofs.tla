---------------------------- MODULE NotifyProofs ----------------------------
(***************************************************************************)
(* Where a session's notifications can go, and that their seqs tell a host *)
(* what it missed, for every number of fns, slots, connections and         *)
(* sessions, every ring and every batching. What a frame takes of the      *)
(* transport's room is a sum over what waits there and stays opaque here.  *)
(***************************************************************************)
EXTENDS Notify, SequenceTheorems, FiniteSetTheorems, TLAPS

Events == [fn : Fns, seq : Int, sub : Int, term : Int]
Notes == [kind : {"event", "push"}, size : Int, term : Int]
Frames == [kind : {"answer"}, size : Int] \cup Notes

FnState == [on : BOOLEAN, min : Int, delay : Int, seq : Int, waiting : BOOLEAN,
            waited : Int, draining : Int]

Shape ==
  /\ locked \in BOOLEAN
  /\ fn \in [Fns -> FnState]
  /\ ring \in Seq(Events)
  /\ data \in [Fns -> Int]
  /\ tx \in [Routes -> Seq(Frames)]
  /\ push \in [route : Routes, conn : Int]
  /\ conn \in [Routes -> Int]
  /\ conns \in Int
  /\ told \in [Fns -> [subs : Int, past : Int]]
  /\ term \in Int
  /\ at \in Int
  /\ conn[Usb] = 1

(* The subscriber's route: a request of this session came over it.         *)
Subscriber == /\ locked
              /\ [route |-> push.route, conn |-> push.conn, term |-> term] \in spoke
              /\ push.route = Usb => push.conn = 1

Subscribed == /\ \A f \in Fns : fn[f].on => Subscriber
              /\ ring # <<>> => Subscriber

(* push() is past pushGone: nothing closes before it ends.                 *)
Pushing == at # 0 => locked /\ ~pushGone

(* A request comes over a connection that is there.                        *)
Real == \A x \in spoke : x.conn # 0

IInv == Shape /\ Subscribed /\ Pushing /\ RingIsTheSessions /\ SpokenTo /\ Real

(* A frame more on one route: an answer, or a notification of a session    *)
(* that spoke over the connection there.                                   *)
LEMMA OneFrameMore ==
  ASSUME Shape, SpokenTo, NEW r \in Routes, NEW x \in Frames,
         tx' = [tx EXCEPT ![r] = Append(@, x)], conn' = conn,
         spoke \subseteq spoke',
         x.kind # "answer" =>
           [route |-> r, conn |-> conn[r], term |-> x.term] \in spoke'
  PROVE  SpokenTo' /\ tx' \in [Routes -> Seq(Frames)]
<1>1. tx \in [Routes -> Seq(Frames)]
  BY DEF Shape
<1>2. tx' \in [Routes -> Seq(Frames)]
  BY <1>1
<1>3. SpokenTo'
  <2> SUFFICES ASSUME NEW q \in Routes, NEW i \in DOMAIN tx'[q],
                      tx'[q][i].kind # "answer"
               PROVE  [route |-> q, conn |-> conn[q], term |-> tx'[q][i].term] \in spoke'
    BY DEF SpokenTo
  <2>1. CASE q # r
    BY <1>1, <2>1 DEF SpokenTo
  <2>2. CASE q = r
    <3>1. tx'[r] = Append(tx[r], x) /\ tx[r] \in Seq(Frames)
      BY <1>1
    <3>2. CASE i = Len(tx[r]) + 1
      BY <3>1, <3>2, <2>2
    <3>3. CASE i # Len(tx[r]) + 1
      <4>1. i \in DOMAIN tx[r] /\ tx'[r][i] = tx[r][i]
        BY <3>1, <3>3, <2>2
      <4> QED
        BY <4>1, <2>2 DEF SpokenTo
    <3> QED
      BY <3>2, <3>3
  <2> QED
    BY <2>1, <2>2
<1> QED
  BY <1>2, <1>3

(* An answer, by itself.                                                   *)
LEMMA AnswerIsAFrame ==
  ASSUME NotifyAssumption, NEW n \in {1} \cup AnswerSizes
  PROVE  Answer(n) \in Frames /\ Answer(n).kind = "answer"
BY DEF NotifyAssumption, Answer, Frames

(* A request served: its answer, and the connection it came over noted.    *)
LEMMA ServedKeeps ==
  ASSUME NotifyAssumption, Shape, SpokenTo, Real, NEW r \in Routes,
         NEW n \in {1} \cup AnswerSizes, NEW t,
         Served(r, n), Speaks(r, t), conn' = conn
  PROVE  /\ SpokenTo' /\ Real' /\ tx' \in [Routes -> Seq(Frames)]
         /\ spoke \subseteq spoke' /\ at = 0
         /\ [route |-> r, conn |-> conn[r], term |-> t] \in spoke'
<1>1. Answer(n) \in Frames /\ Answer(n).kind = "answer"
  BY AnswerIsAFrame
<1>2. spoke \subseteq spoke' /\ [route |-> r, conn |-> conn[r], term |-> t] \in spoke'
  BY DEF Speaks
<1>3. at = 0 /\ tx' = [tx EXCEPT ![r] = Append(@, Answer(n))]
  BY DEF Served
<1>4. Real'
  BY DEF Real, Speaks, Served
<1> HIDE DEF Answer
<1> QED
  BY <1>1, <1>2, <1>3, <1>4, OneFrameMore

(* The end of the subscriptions leaves nothing to send.                    *)
LEMMA EndedKeeps ==
  ASSUME Shape, endSubscriptions
  PROVE  /\ fn' \in [Fns -> FnState] /\ ring' = <<>> /\ ring' \in Seq(Events)
         /\ \A f \in Fns : ~fn'[f].on
<1>1. ring' = <<>> /\ fn' = [f \in Fns |-> [fn[f] EXCEPT !.on = FALSE]]
  BY DEF endSubscriptions
<1>2. ASSUME NEW f \in Fns
      PROVE  /\ [fn[f] EXCEPT !.on = FALSE] \in FnState
             /\ ~[fn[f] EXCEPT !.on = FALSE].on
  <2>1. fn[f] \in FnState
    BY DEF Shape
  <2> QED
    BY <2>1 DEF FnState
<1>3. fn' \in [Fns -> FnState] /\ \A f \in Fns : ~fn'[f].on
  BY <1>1, <1>2
<1>4. <<>> \in Seq(Events)
  OBVIOUS
<1> QED
  BY <1>1, <1>3, <1>4

(* A seq counted on.                                                       *)
LEMMA AfterIsInt ==
  ASSUME NotifyAssumption, NEW q \in Int
  PROVE  After(q, 1) \in Int
<1>1. SeqTurn \in Int /\ SeqTurn > 0 /\ q + 1 \in Int
  BY DEF NotifyAssumption
<1> QED
  BY <1>1 DEF After

(* A fn's record with its subscription off.                                *)
LEMMA OffIsAState ==
  ASSUME NEW s \in FnState
  PROVE  [s EXCEPT !.on = FALSE] \in FnState /\ ~[s EXCEPT !.on = FALSE].on
BY DEF FnState

(* The initial states.                                                     *)
LEMMA InitSpeaks == NotifyAssumption /\ Init => IInv
<1> SUFFICES ASSUME NotifyAssumption, Init PROVE IInv
  OBVIOUS
<1>1. Shape
  <2>1. fn \in [Fns -> FnState]
    BY DEF Init, Fresh, FnState
  <2>2. /\ ring \in Seq(Events) /\ tx \in [Routes -> Seq(Frames)]
        /\ data \in [Fns -> Int] /\ conns \in Int /\ term \in Int /\ at \in Int
        /\ locked \in BOOLEAN
    <3>1. ring = <<>> /\ tx = [r \in Routes |-> <<>>] /\ data = [f \in Fns |-> 0]
          /\ conns = 1 /\ term = 0 /\ at = 0 /\ locked = FALSE
      BY DEF Init
    <3>2. <<>> \in Seq(Events) /\ <<>> \in Seq(Frames)
      OBVIOUS
    <3>3. tx \in [Routes -> Seq(Frames)]
      BY <3>1, <3>2
    <3>4. data \in [Fns -> Int]
      BY <3>1
    <3>5. ring \in Seq(Events)
      BY <3>1, <3>2
    <3>6. conns \in Int /\ term \in Int /\ at \in Int
      <4>1. conns = 1 /\ term = 0 /\ at = 0
        BY <3>1
      <4> QED
        BY <4>1
    <3>7. locked \in BOOLEAN
      BY <3>1, Zenon
    <3> QED
      BY <3>3, <3>4, <3>5, <3>6, <3>7
  <2>3. push \in [route : Routes, conn : Int] /\ conn \in [Routes -> Int] /\ conn[Usb] = 1
    BY DEF Init, Routes
  <2>4. told \in [Fns -> [subs : Int, past : Int]]
    BY DEF Init, Untold
  <2> QED
    BY <2>1, <2>2, <2>3, <2>4 DEF Shape
<1>2. Subscribed /\ Pushing
  BY DEF Init, Subscribed, Pushing, Fresh
<1>3. RingIsTheSessions /\ SpokenTo /\ Real
  BY DEF Init, RingIsTheSessions, SpokenTo, Real
<1> QED
  BY <1>1, <1>2, <1>3 DEF IInv

(* A step of the requests.                                                 *)
LEMMA AsksKeeps ==
  ASSUME NotifyAssumption, IInv, NEW r \in Routes, Asks(r)
  PROVE  IInv'
<1>0. Shape /\ Subscribed /\ Pushing /\ RingIsTheSessions /\ SpokenTo /\ Real
  BY DEF IInv
<1>1. CASE Open(r)
  <2>1. /\ Served(r, 1) /\ Speaks(r, term') /\ term' = term + 1 /\ locked' = TRUE
        /\ UNCHANGED <<data, push, conn, conns, at, told>>
    BY <1>1 DEF Open
  <2>2. /\ SpokenTo' /\ Real' /\ tx' \in [Routes -> Seq(Frames)] /\ at = 0
    BY <1>0, <2>1, ServedKeeps
  <2>3. /\ fn' \in [Fns -> FnState] /\ ring' = <<>> /\ ring' \in Seq(Events)
        /\ \A f \in Fns : ~fn'[f].on
    <3>1. CASE locked
      BY <1>0, <1>1, <3>1, EndedKeeps DEF Open
    <3>2. CASE ~locked
      <4>1. UNCHANGED <<fn, ring>>
        BY <1>1, <3>2 DEF Open
      <4>2. ring = <<>> /\ \A f \in Fns : ~fn[f].on
        BY <1>0, <3>2 DEF Subscribed, Subscriber
      <4> QED
        BY <1>0, <4>1, <4>2 DEF Shape
    <3> QED
      BY <3>1, <3>2
  <2>4. Shape'
    BY <1>0, <2>1, <2>2, <2>3 DEF Shape
  <2>5. Subscribed' /\ Pushing' /\ RingIsTheSessions'
    BY <2>1, <2>2, <2>3 DEF Subscribed, Pushing, RingIsTheSessions
  <2> QED
    BY <2>2, <2>4, <2>5 DEF IInv
<1>2. CASE Request(r)
  <2>1. /\ \E n \in AnswerSizes : Served(r, n)
        /\ Speaks(r, term)
        /\ UNCHANGED <<locked, fn, ring, push, conn, conns, at, term, told>>
    BY <1>2 DEF Request
  <2>2. PICK n \in AnswerSizes : Served(r, n)
    BY <2>1
  <2>3. SpokenTo' /\ Real' /\ tx' \in [Routes -> Seq(Frames)] /\ spoke \subseteq spoke'
    BY <1>0, <2>1, <2>2, ServedKeeps
  <2>4. data' \in [Fns -> Int]
    BY <1>0, <1>2 DEF Request, Shape
  <2>5. Shape'
    BY <1>0, <2>1, <2>3, <2>4 DEF Shape
  <2>6. Subscribed' /\ Pushing' /\ RingIsTheSessions'
    BY <1>0, <2>1, <2>3
    DEF Subscribed, Subscriber, Pushing, pushGone, RingIsTheSessions
  <2> QED
    BY <2>3, <2>5, <2>6 DEF IInv
<1>3. CASE End(r)
  <2>1. /\ Served(r, 1) /\ Speaks(r, term) /\ endSubscriptions /\ locked' = FALSE
        /\ UNCHANGED <<data, push, conn, conns, at, term, told>>
    BY <1>3 DEF End
  <2>2. SpokenTo' /\ Real' /\ tx' \in [Routes -> Seq(Frames)] /\ at = 0
    BY <1>0, <2>1, ServedKeeps
  <2>3. /\ fn' \in [Fns -> FnState] /\ ring' = <<>> /\ ring' \in Seq(Events)
        /\ \A f \in Fns : ~fn'[f].on
    BY <1>0, <2>1, EndedKeeps
  <2>4. Shape'
    BY <1>0, <2>1, <2>2, <2>3 DEF Shape
  <2>5. Subscribed' /\ Pushing' /\ RingIsTheSessions'
    BY <2>1, <2>2, <2>3 DEF Subscribed, Pushing, RingIsTheSessions
  <2> QED
    BY <2>2, <2>4, <2>5 DEF IInv
<1>4. ASSUME NEW f \in Fns, subscribe(f, r)
      PROVE  IInv'
  <2>1. /\ locked /\ Served(r, 1) /\ Speaks(r, term)
        /\ push' = [route |-> r, conn |-> conn[r]]
        /\ UNCHANGED <<locked, ring, data, conn, conns, at, term>>
    BY <1>4 DEF subscribe
  <2>2. /\ SpokenTo' /\ Real' /\ tx' \in [Routes -> Seq(Frames)] /\ spoke \subseteq spoke'
        /\ at = 0 /\ [route |-> r, conn |-> conn[r], term |-> term] \in spoke'
    BY <1>0, <2>1, ServedKeeps
  <2>3. PICK b \in Batches :
          fn' = [fn EXCEPT ![f] = Fresh(TRUE, b.min, b.delay)]
    BY <1>4 DEF subscribe
  <2>4. Fresh(TRUE, b.min, b.delay) \in FnState
    <3>1. b.min \in Int /\ b.delay \in Int
      BY DEF NotifyAssumption
    <3> QED
      BY <3>1 DEF Fresh, FnState
  <2>5. fn' \in [Fns -> FnState]
    BY <1>0, <2>3, <2>4 DEF Shape
  <2>6. told' \in [Fns -> [subs : Int, past : Int]]
    <3>1. told[f].subs + 1 \in Int
      BY <1>0 DEF Shape
    <3>2. [Untold EXCEPT !.subs = told[f].subs + 1] \in [subs : Int, past : Int]
      BY <3>1 DEF Untold
    <3>3. told' = [told EXCEPT ![f] = [Untold EXCEPT !.subs = told[f].subs + 1]]
      BY <1>4 DEF subscribe
    <3> QED
      BY <1>0, <3>2, <3>3 DEF Shape
  <2>7. Shape'
    BY <1>0, <2>1, <2>2, <2>5, <2>6 DEF Shape
  <2>8. Subscriber'
    BY <1>0, <2>1, <2>2 DEF Subscriber, Shape
  <2>9. Subscribed' /\ Pushing' /\ RingIsTheSessions'
    BY <1>0, <2>1, <2>2, <2>8 DEF Subscribed, Pushing, RingIsTheSessions
  <2> QED
    BY <2>2, <2>7, <2>9 DEF IInv
<1>5. ASSUME NEW f \in Fns, unsubscribe(f, r)
      PROVE  IInv'
  <2>1. /\ Served(r, 1) /\ Speaks(r, term)
        /\ fn' = [fn EXCEPT ![f].on = FALSE]
        /\ UNCHANGED <<locked, ring, data, push, conn, conns, at, term, told>>
    BY <1>5 DEF unsubscribe
  <2>2. SpokenTo' /\ Real' /\ tx' \in [Routes -> Seq(Frames)] /\ spoke \subseteq spoke'
    BY <1>0, <2>1, ServedKeeps
  <2>3. fn' \in [Fns -> FnState] /\ \A g \in Fns : fn'[g].on => fn[g].on
    <3>1. fn \in [Fns -> FnState]
      BY <1>0 DEF Shape
    <3>2. fn' = [fn EXCEPT ![f] = [fn[f] EXCEPT !.on = FALSE]]
      BY <2>1
    <3>3. [fn[f] EXCEPT !.on = FALSE] \in FnState /\ ~[fn[f] EXCEPT !.on = FALSE].on
      BY <3>1, OffIsAState
    <3> QED
      BY <3>1, <3>2, <3>3
  <2>4. Shape'
    BY <1>0, <2>1, <2>2, <2>3 DEF Shape
  <2>5. Subscribed' /\ Pushing' /\ RingIsTheSessions'
    BY <1>0, <2>1, <2>2, <2>3
    DEF Subscribed, Subscriber, Pushing, pushGone, RingIsTheSessions
  <2> QED
    BY <2>2, <2>4, <2>5 DEF IInv
<1> QED
  BY <1>1, <1>2, <1>3, <1>4, <1>5 DEF Asks

(* A step that neither queues nor sends, and subscribes nobody.            *)
LEMMA QuietStepKeeps ==
  ASSUME IInv, fn' \in [Fns -> FnState],
         \A f \in Fns : fn'[f].on => fn[f].on,
         told' \in [Fns -> [subs : Int, past : Int]],
         data' \in [Fns -> Int],
         at' \in Int, at' # 0 => locked /\ ~pushGone,
         UNCHANGED <<locked, ring, tx, push, conn, conns, term, spoke>>
  PROVE  IInv'
<1>1. Shape'
  BY DEF IInv, Shape
<1>2. Subscribed' /\ Pushing'
  BY DEF IInv, Subscribed, Subscriber, Pushing, pushGone
<1>3. RingIsTheSessions' /\ SpokenTo' /\ Real'
  BY DEF IInv, RingIsTheSessions, SpokenTo, Real
<1> QED
  BY <1>1, <1>2, <1>3 DEF IInv

(* A fn as its batch comes due,                                            *)
LEMMA DrawnIsAState ==
  ASSUME Shape, NEW f \in Fns
  PROVE  Drawn(f) \in FnState /\ (Drawn(f).on => fn[f].on)
<1>1. fn[f] \in FnState /\ data[f] \in Int
  BY DEF Shape
<1> QED
  BY <1>1 DEF Drawn, FnState

(* ... and as part of the batch has gone.                                  *)
LEMMA DrainedIsAState ==
  ASSUME NotifyAssumption, NEW s \in FnState, NEW n \in Int
  PROVE  Drained(s, n) \in FnState /\ (Drained(s, n).on => s.on)
<1>1. After(s.seq, 1) \in Int
  BY AfterIsInt DEF FnState
<1> DEFINE d == IF s.draining > Meta + n THEN s.draining - (Meta + n) ELSE 0
<1>2. d \in Int
  BY DEF FnState, Meta
<1>3. Drained(s, n) = [s EXCEPT !.draining = d,
                                !.waiting = IF d = 0 THEN FALSE ELSE @,
                                !.seq = After(@, 1)]
  BY DEF Drained
<1>4. (IF d = 0 THEN FALSE ELSE s.waiting) \in BOOLEAN
  BY DEF FnState
<1> HIDE DEF d
<1> QED
  BY <1>1, <1>2, <1>3, <1>4 DEF FnState

(* A fn as it begins to wait,                                              *)
LEMMA WaitsIsAState ==
  ASSUME NEW s \in FnState, NEW w \in Int
  PROVE  /\ [s EXCEPT !.waiting = TRUE, !.waited = w] \in FnState
         /\ [s EXCEPT !.waiting = TRUE, !.waited = w].on => s.on
<1> DEFINE d == [s EXCEPT !.waiting = TRUE]
<1>1. d \in FnState /\ (d.on => s.on)
  BY DEF FnState
<1>2. [s EXCEPT !.waiting = TRUE, !.waited = w] = [d EXCEPT !.waited = w]
  OBVIOUS
<1> HIDE DEF d
<1>3. [d EXCEPT !.waited = w] \in FnState /\ ([d EXCEPT !.waited = w].on => d.on)
  BY <1>1 DEF FnState
<1> QED
  BY <1>1, <1>2, <1>3

(* ... and as its batch is over.                                           *)
LEMMA OverIsAState ==
  ASSUME NEW s \in FnState
  PROVE  /\ [s EXCEPT !.draining = 0, !.waiting = FALSE] \in FnState
         /\ [s EXCEPT !.draining = 0, !.waiting = FALSE].on => s.on
<1> DEFINE d == [s EXCEPT !.draining = 0]
<1>1. d \in FnState /\ (d.on => s.on)
  BY DEF FnState
<1>2. [s EXCEPT !.draining = 0, !.waiting = FALSE] = [d EXCEPT !.waiting = FALSE]
  OBVIOUS
<1> HIDE DEF d
<1>3. [d EXCEPT !.waiting = FALSE] \in FnState /\ ([d EXCEPT !.waiting = FALSE].on => d.on)
  BY <1>1 DEF FnState
<1> QED
  BY <1>1, <1>2, <1>3

(* A fn's seq counted on for an event.                                     *)
LEMMA CountedKeeps ==
  ASSUME NotifyAssumption, Shape, NEW f \in Fns,
         fn' = [fn EXCEPT ![f].seq = After(@, 1)]
  PROVE  fn' \in [Fns -> FnState] /\ \A g \in Fns : fn'[g].on => fn[g].on
<1>1. fn \in [Fns -> FnState] /\ fn[f] \in FnState
  BY DEF Shape
<1>2. After(fn[f].seq, 1) \in Int
  BY <1>1, AfterIsInt DEF FnState
<1>3. fn' = [fn EXCEPT ![f] = [fn[f] EXCEPT !.seq = After(fn[f].seq, 1)]]
  OBVIOUS
<1>4. /\ [fn[f] EXCEPT !.seq = After(fn[f].seq, 1)] \in FnState
      /\ [fn[f] EXCEPT !.seq = After(fn[f].seq, 1)].on => fn[f].on
  BY <1>1, <1>2 DEF FnState
<1> HIDE DEF After
<1> QED
  BY <1>1, <1>3, <1>4

(* The ghost's count of an event that left keeps its type.                 *)
LEMMA ToldKeeps ==
  ASSUME NotifyAssumption, Shape, NEW f \in Fns
  PROVE  [told EXCEPT ![f].past = After(@, 1)] \in [Fns -> [subs : Int, past : Int]]
<1>1. told \in [Fns -> [subs : Int, past : Int]] /\ told[f] \in [subs : Int, past : Int]
  BY DEF Shape
<1>2. After(told[f].past, 1) \in Int
  BY <1>1, AfterIsInt
<1>3. [told[f] EXCEPT !.past = After(told[f].past, 1)] \in [subs : Int, past : Int]
  BY <1>1, <1>2
<1>4. [told EXCEPT ![f].past = After(@, 1)]
      = [told EXCEPT ![f] = [told[f] EXCEPT !.past = After(told[f].past, 1)]]
  OBVIOUS
<1> QED
  BY <1>1, <1>3, <1>4

(* Handing over: an event queued is of a session whose subscriber spoke.   *)
LEMMA EventKeeps ==
  ASSUME NotifyAssumption, IInv, NEW f \in Fns, event(f)
  PROVE  IInv'
<1>0. Shape /\ Subscribed /\ Pushing /\ RingIsTheSessions /\ SpokenTo /\ Real
  BY DEF IInv
<1> DEFINE e == [fn |-> f, seq |-> fn[f].seq, sub |-> told[f].subs, term |-> term]
           kept == IF Len(ring) >= Ring THEN Tail(ring) ELSE ring
<1>1. /\ fn[f].on /\ ring' = Append(kept, e)
      /\ fn' = [fn EXCEPT ![f].seq = After(@, 1)]
      /\ told' = IF Len(ring) >= Ring THEN Leaves(Head(ring)) ELSE told
      /\ UNCHANGED <<locked, data, tx, push, conn, conns, at, term, spoke>>
  BY DEF event, queueEvent
<1>2. Subscriber
  BY <1>0, <1>1 DEF Subscribed
<1>3. fn' \in [Fns -> FnState] /\ \A g \in Fns : fn'[g].on => fn[g].on
  BY <1>0, <1>1, CountedKeeps
<1>4. e \in Events
  <2>1. fn[f] \in FnState /\ told[f] \in [subs : Int, past : Int] /\ term \in Int
    BY <1>0 DEF Shape
  <2> QED
    BY <2>1 DEF Events, FnState
<1>5. ring \in Seq(Events) /\ (Len(ring) >= Ring => ring # <<>>)
  BY <1>0 DEF Shape, NotifyAssumption
<1>6. /\ kept \in Seq(Events)
      /\ \A i \in DOMAIN kept : \E j \in DOMAIN ring : kept[i] = ring[j]
  <2>1. CASE Len(ring) >= Ring
    <3>1. kept = Tail(ring) /\ ring # <<>>
      BY <1>5, <2>1
    <3>2. /\ Tail(ring) \in Seq(Events) /\ Len(Tail(ring)) = Len(ring) - 1
          /\ \A i \in 1 .. Len(Tail(ring)) : Tail(ring)[i] = ring[i + 1]
      BY <1>5, <3>1, HeadTailProperties
    <3>3. \A i \in DOMAIN Tail(ring) : i + 1 \in DOMAIN ring /\ Tail(ring)[i] = ring[i + 1]
      BY <1>5, <3>2
    <3> QED
      BY <3>1, <3>2, <3>3
  <2>2. CASE ~(Len(ring) >= Ring)
    BY <1>5, <2>2
  <2> QED
    BY <2>1, <2>2
<1>7. told' \in [Fns -> [subs : Int, past : Int]]
  <2>1. CASE told' = told
    BY <1>0, <2>1 DEF Shape
  <2>2. CASE told' = Leaves(Head(ring)) /\ Len(ring) >= Ring
    <3>1. Head(ring) \in Events
      BY <1>5, <2>2, HeadTailProperties
    <3>2. Head(ring).fn \in Fns
      BY <3>1 DEF Events
    <3>3. CASE told' = told
      BY <1>0, <3>3 DEF Shape
    <3>4. CASE told' = [told EXCEPT ![Head(ring).fn].past = After(@, 1)]
      BY <1>0, <3>2, <3>4, ToldKeeps
    <3> QED
      BY <2>2, <3>3, <3>4 DEF Leaves
  <2>3. told' = told \/ (told' = Leaves(Head(ring)) /\ Len(ring) >= Ring)
    <3> HIDE DEF kept, e
    <3> QED
      BY ONLY <1>1
  <2> QED
    BY ONLY <2>1, <2>2, <2>3
<1> HIDE DEF e, kept
<1>8. ring' \in Seq(Events) /\ ring' # <<>>
  <2>1. ring' = Append(kept, e) /\ kept \in Seq(Events)
    BY <1>1, <1>6
  <2> QED
    BY ONLY <1>4, <2>1
<1>9. Shape'
  BY <1>0, <1>1, <1>3, <1>7, <1>8 DEF Shape
<1>10. Subscribed' /\ Pushing'
  BY <1>0, <1>1, <1>2, <1>3 DEF Subscribed, Subscriber, Pushing, pushGone
<1>11. RingIsTheSessions'
  <2> SUFFICES ASSUME NEW i \in DOMAIN ring' PROVE locked /\ ring'[i].term = term
    BY <1>1 DEF RingIsTheSessions
  <2>1. locked
    BY <1>2 DEF Subscriber
  <2>2. e.term = term
    BY DEF e
  <2>3. ring'[i] = e \/ \E j \in DOMAIN ring : ring'[i] = ring[j]
    <3>1. /\ DOMAIN ring' = 1 .. Len(kept) + 1 /\ DOMAIN kept = 1 .. Len(kept)
          /\ Len(kept) \in Nat /\ ring'[Len(kept) + 1] = e
          /\ \A k \in 1 .. Len(kept) : ring'[k] = kept[k]
      BY <1>1, <1>4, <1>6, AppendProperties
    <3> QED
      BY <1>6, <3>1
  <2> QED
    BY <1>0, <2>1, <2>2, <2>3 DEF RingIsTheSessions
<1>12. SpokenTo' /\ Real'
  BY <1>0, <1>1 DEF SpokenTo, Real
<1> QED
  BY <1>9, <1>10, <1>11, <1>12 DEF IInv

(* push(): what it writes goes where the subscriber spoke.                 *)
LEMMA PushKeeps ==
  ASSUME NotifyAssumption, IInv, Push
  PROVE  IInv'
<1>0. Shape /\ Subscribed /\ Pushing /\ RingIsTheSessions /\ SpokenTo /\ Real
  BY DEF IInv
<1>s. fn \in [Fns -> FnState] /\ told \in [Fns -> [subs : Int, past : Int]]
      /\ data \in [Fns -> Int] /\ ring \in Seq(Events) /\ at \in Int /\ term \in Int
      /\ push.route \in Routes /\ conn[Usb] = 1
  BY <1>0 DEF Shape
<1>c. ASSUME Subscriber, at # 0
      PROVE  /\ locked
             /\ [route |-> push.route, conn |-> conn[push.route], term |-> term] \in spoke
  BY <1>0, <1>s, <1>c DEF Subscriber, Pushing, pushGone, Routes
<1>1. CASE BeginPush
  BY <1>0, <1>s, <1>1, QuietStepKeeps DEF BeginPush, ghost
<1>2. CASE sendEvents
  <2>0. at = 1 /\ UNCHANGED <<locked, fn, data, push, conn, conns, term, spoke>>
    BY <1>2 DEF sendEvents
  <2>1. CASE UNCHANGED <<ring, tx, told>> /\ at' \in Int
    BY <1>0, <1>s, <2>0, <2>1, QuietStepKeeps DEF Pushing
  <2>2. CASE /\ ring # <<>>
             /\ tx' = [tx EXCEPT ![push.route] = Append(@, EventFrame(Head(ring)))]
             /\ told' = Leaves(Head(ring))
             /\ ring' = Tail(ring)
             /\ at' = at
    <3>1. /\ Head(ring) \in Events /\ Tail(ring) \in Seq(Events)
          /\ Len(Tail(ring)) = Len(ring) - 1
          /\ \A i \in 1 .. Len(Tail(ring)) : Tail(ring)[i] = ring[i + 1]
      BY <1>s, <2>2, HeadTailProperties
    <3>2. Head(ring).term = term /\ Head(ring).fn \in Fns
      <4>1. 1 \in DOMAIN ring /\ Head(ring) = ring[1]
        BY <1>s, <2>2
      <4> QED
        BY <1>0, <3>1, <4>1 DEF RingIsTheSessions, Events
    <3>3. EventFrame(Head(ring)) \in Frames /\ EventFrame(Head(ring)).term = term
      BY <1>s, <3>2 DEF EventFrame, Frames, Notes, EventSize
    <3>4. /\ Subscriber
          /\ [route |-> push.route, conn |-> conn[push.route], term |-> term] \in spoke
      BY <1>0, <1>c, <2>0, <2>2 DEF Subscribed
    <3>5. SpokenTo' /\ tx' \in [Routes -> Seq(Frames)]
      <4> HIDE DEF EventFrame
      <4> QED
        BY <1>0, <1>s, <2>0, <2>2, <3>3, <3>4, OneFrameMore
    <3>6. told' \in [Fns -> [subs : Int, past : Int]]
      <4>1. CASE told' = told
        BY <1>s, <4>1
      <4>2. CASE told' = [told EXCEPT ![Head(ring).fn].past = After(@, 1)]
        BY <1>0, <3>2, <4>2, ToldKeeps
      <4> QED
        BY <2>2, <4>1, <4>2 DEF Leaves
    <3>7. Shape'
      BY <1>0, <2>0, <2>2, <3>1, <3>5, <3>6 DEF Shape
    <3>8. Subscribed' /\ Pushing' /\ Real'
      BY <1>0, <2>0, <2>2, <3>4 DEF Subscribed, Subscriber, Pushing, pushGone, Real
    <3>9. RingIsTheSessions'
      <4>1. \A i \in DOMAIN Tail(ring) : i + 1 \in DOMAIN ring /\ Tail(ring)[i] = ring[i + 1]
        BY <1>s, <3>1
      <4> QED
        BY <1>0, <2>0, <2>2, <4>1 DEF RingIsTheSessions
    <3> QED
      BY <3>5, <3>7, <3>8, <3>9 DEF IInv
  <2>3. (IF N = 0 THEN 0 ELSE 2) \in Int
    OBVIOUS
  <2> QED
    BY <1>2, <2>1, <2>2, <2>3 DEF sendEvents
<1>3. ASSUME NEW f \in Fns, PushFn(f)
      PROVE  IInv'
  <2>0. at = f + 1 /\ f \in Int /\ at # 0
    BY <1>3 DEF PushFn, Hold, Full, Empty, Pull, Fns
  <2>1. /\ Drawn(f) \in FnState /\ (Drawn(f).on => fn[f].on) /\ fn[f] \in FnState
        /\ data[f] \in Int
    BY <1>0, <1>s, DrawnIsAState
  <2>2. NextFn => at' \in Int
    BY <1>s DEF NextFn
  <2>3. locked /\ ~pushGone
    BY <1>0, <2>0 DEF Pushing
  <2>4. CASE Hold(f)
    <3>1. /\ UNCHANGED <<locked, ring, data, tx, push, conn, conns, term, spoke, told>>
          /\ at' \in Int
      BY <2>2, <2>4 DEF Hold, ghost
    <3>2. fn' \in [Fns -> FnState] /\ \A g \in Fns : fn'[g].on => fn[g].on
      <4>1. CASE UNCHANGED fn
        BY <1>s, <4>1
      <4>2. CASE fn' = [fn EXCEPT ![f].waiting = FALSE]
        <5>1. /\ [fn[f] EXCEPT !.waiting = FALSE] \in FnState
              /\ [fn[f] EXCEPT !.waiting = FALSE].on => fn[f].on
          BY <2>1 DEF FnState
        <5>2. fn' = [fn EXCEPT ![f] = [fn[f] EXCEPT !.waiting = FALSE]]
          BY <4>2
        <5> QED
          BY <1>s, <5>1, <5>2
      <4>3. CASE fn' = [fn EXCEPT ![f].waiting = TRUE,
                                  ![f].waited = IF fn[f].waiting THEN @ ELSE 0]
        <5> DEFINE w == IF fn[f].waiting THEN fn[f].waited ELSE 0
                   s == [fn[f] EXCEPT !.waiting = TRUE, !.waited = w]
        <5>1. w \in Int
          BY <2>1 DEF FnState
        <5>3. s \in FnState /\ (s.on => fn[f].on)
          <6> HIDE DEF w
          <6> QED
            BY <2>1, <5>1, WaitsIsAState
        <5>2. fn' = [fn EXCEPT ![f] = s]
          BY <1>s, <2>1, <4>3 DEF FnState
        <5> HIDE DEF s
        <5> QED
          BY <1>s, <5>2, <5>3
      <4> QED
        BY <2>4, <4>1, <4>2, <4>3 DEF Hold
    <3> QED
      BY <1>s, <2>3, <3>1, <3>2, QuietStepKeeps
  <2>5. CASE Full(f)
    <3>1. /\ UNCHANGED <<locked, ring, data, tx, push, conn, conns, term, spoke, told>>
          /\ at' \in Int /\ fn' = [fn EXCEPT ![f] = Drawn(f)]
      BY <2>5 DEF Full
    <3>2. fn' \in [Fns -> FnState] /\ \A g \in Fns : fn'[g].on => fn[g].on
      <4> HIDE DEF Drawn
      <4> QED
        BY <1>s, <2>1, <3>1
    <3> QED
      BY <1>s, <2>3, <3>1, <3>2, QuietStepKeeps
  <2>6. CASE Empty(f)
    <3> DEFINE s == IF Drawn(f).draining > 0 /\ data[f] = 0
                    THEN [Drawn(f) EXCEPT !.draining = 0, !.waiting = FALSE]
                    ELSE Drawn(f)
    <3>1. /\ UNCHANGED <<locked, ring, data, tx, push, conn, conns, term, spoke, told>>
          /\ at' \in Int /\ fn' = [fn EXCEPT ![f] = s]
      BY <2>2, <2>6 DEF Empty
    <3>2. s \in FnState /\ (s.on => fn[f].on)
      <4> HIDE DEF Drawn
      <4>2. CASE s = Drawn(f)
        BY <2>1, <4>2, Zenon
      <4>3. CASE s = [Drawn(f) EXCEPT !.draining = 0, !.waiting = FALSE]
        <5> HIDE DEF s
        <5> QED
          BY <2>1, <4>3, OverIsAState
      <4> QED
        BY <4>2, <4>3, Zenon
    <3>3. fn' \in [Fns -> FnState] /\ \A g \in Fns : fn'[g].on => fn[g].on
      <4> HIDE DEF s
      <4> QED
        BY <1>s, <3>1, <3>2
    <3> QED
      BY <1>s, <2>3, <3>1, <3>3, QuietStepKeeps
  <2>7. CASE Pull(f)
    <3>1. PICK n \in 1 .. data[f] :
            /\ data' = [data EXCEPT ![f] = @ - n]
            /\ tx' = [tx EXCEPT ![push.route] = Append(@, PushFrame(n))]
            /\ fn' = [fn EXCEPT ![f] = Drained(Drawn(f), n)]
      BY <2>7 DEF Pull
    <3>2. /\ told' = [told EXCEPT ![f].past = After(@, 1)] /\ at' \in Int
          /\ Goes(f)
          /\ UNCHANGED <<locked, ring, push, conn, conns, term, spoke>>
      BY <2>2, <2>7 DEF Pull
    <3>3. n \in Int
      BY <2>1
    <3>4. data' \in [Fns -> Int]
      BY <1>s, <2>1, <3>1, <3>3
    <3>5. fn' \in [Fns -> FnState] /\ \A g \in Fns : fn'[g].on => fn[g].on
      <4>1. Drained(Drawn(f), n) \in FnState /\ (Drained(Drawn(f), n).on => fn[f].on)
        BY <2>1, <3>3, DrainedIsAState
      <4> HIDE DEF Drained
      <4> QED
        BY <1>s, <3>1, <4>1
    <3>6. told' \in [Fns -> [subs : Int, past : Int]]
      BY <1>0, <3>2, ToldKeeps
    <3>7. PushFrame(n) \in Frames /\ PushFrame(n).term = term
      BY <1>s, <3>3 DEF PushFrame, Frames, Notes, Header, Meta
    <3>8. /\ Subscriber
          /\ [route |-> push.route, conn |-> conn[push.route], term |-> term] \in spoke
      BY <1>0, <1>c, <2>0, <3>2 DEF Subscribed, Goes
    <3>9. SpokenTo' /\ tx' \in [Routes -> Seq(Frames)]
      <4> HIDE DEF PushFrame
      <4> QED
        BY <1>0, <1>s, <3>1, <3>2, <3>7, <3>8, OneFrameMore
    <3>10. Shape'
      BY <1>0, <3>2, <3>4, <3>5, <3>6, <3>9 DEF Shape
    <3>11. Subscribed' /\ Pushing' /\ RingIsTheSessions' /\ Real'
      BY <1>0, <2>3, <3>2, <3>5
      DEF Subscribed, Subscriber, Pushing, pushGone, RingIsTheSessions, Real
    <3> QED
      BY <3>9, <3>10, <3>11 DEF IInv
  <2> QED
    BY <1>3, <2>4, <2>5, <2>6, <2>7 DEF PushFn
<1> QED
  BY <1>1, <1>2, <1>3 DEF Push

(* The other end: frames taken, connections lost and made.                 *)
LEMMA HostKeeps ==
  ASSUME NotifyAssumption, IInv, NEW r \in Routes, Drain(r) \/ Close(r) \/ Accept(r)
  PROVE  IInv'
<1>0. Shape /\ Subscribed /\ Pushing /\ RingIsTheSessions /\ SpokenTo /\ Real
  BY DEF IInv
<1>s. tx \in [Routes -> Seq(Frames)] /\ conn \in [Routes -> Int] /\ conns \in Int
  BY <1>0 DEF Shape
<1>1. CASE Drain(r)
  <2>1. /\ tx[r] # <<>> /\ tx' = [tx EXCEPT ![r] = Tail(@)]
        /\ UNCHANGED <<locked, fn, ring, data, push, conn, conns, at, term, spoke, told>>
    BY <1>1 DEF Drain, ghost
  <2>2. /\ Tail(tx[r]) \in Seq(Frames)
        /\ Len(Tail(tx[r])) = Len(tx[r]) - 1
        /\ \A i \in 1 .. Len(Tail(tx[r])) : Tail(tx[r])[i] = tx[r][i + 1]
    BY <1>s, <2>1, HeadTailProperties
  <2>3. \A i \in DOMAIN Tail(tx[r]) : i + 1 \in DOMAIN tx[r] /\ Tail(tx[r])[i] = tx[r][i + 1]
    BY <1>s, <2>2
  <2>4. Shape'
    BY <1>0, <2>1, <2>2 DEF Shape
  <2>5. SpokenTo'
    <3> SUFFICES ASSUME NEW q \in Routes, NEW i \in DOMAIN tx'[q],
                        tx'[q][i].kind # "answer"
                 PROVE  [route |-> q, conn |-> conn[q], term |-> tx'[q][i].term] \in spoke
      BY <2>1 DEF SpokenTo
    <3>1. CASE q = r
      BY <1>0, <1>s, <2>1, <2>3, <3>1 DEF SpokenTo
    <3>2. CASE q # r
      BY <1>0, <1>s, <2>1, <3>2 DEF SpokenTo
    <3> QED
      BY <3>1, <3>2
  <2>6. Subscribed' /\ Pushing' /\ RingIsTheSessions' /\ Real'
    BY <1>0, <2>1 DEF Subscribed, Subscriber, Pushing, pushGone, RingIsTheSessions, Real
  <2> QED
    BY <2>4, <2>5, <2>6 DEF IInv
<1>2. CASE Close(r)
  <2>1. /\ r \in Slots /\ at = 0 /\ conn' = [conn EXCEPT ![r] = 0]
        /\ tx' = [tx EXCEPT ![r] = <<>>]
        /\ UNCHANGED <<locked, fn, ring, data, push, conns, at, term, spoke, told>>
    BY <1>2 DEF Close, ghost
  <2>2. r # Usb
    BY <2>1 DEF NotifyAssumption
  <2>3. <<>> \in Seq(Frames)
    OBVIOUS
  <2>4. Shape'
    <3>1. tx' \in [Routes -> Seq(Frames)] /\ conn' \in [Routes -> Int] /\ conn'[Usb] = 1
      BY <1>0, <1>s, <2>1, <2>2, <2>3 DEF Shape
    <3> QED
      BY <1>0, <2>1, <3>1 DEF Shape
  <2>5. SpokenTo'
    BY <1>0, <1>s, <2>1 DEF SpokenTo
  <2>6. Subscribed' /\ Pushing' /\ RingIsTheSessions' /\ Real'
    BY <1>0, <2>1 DEF Subscribed, Subscriber, Pushing, RingIsTheSessions, Real
  <2> QED
    BY <2>4, <2>5, <2>6 DEF IInv
<1>3. CASE Accept(r)
  <2>1. /\ r \in Slots /\ at = 0 /\ conn[r] = 0 /\ conns' = conns + 1
        /\ conn' = [conn EXCEPT ![r] = conns']
        /\ UNCHANGED <<locked, fn, ring, data, tx, push, at, term, spoke, told>>
    BY <1>3 DEF Accept, ghost
  <2>2. r # Usb
    BY <2>1 DEF NotifyAssumption
  <2>3. Shape'
    <3>1. conn' \in [Routes -> Int] /\ conn'[Usb] = 1 /\ conns' \in Int
      BY <1>0, <1>s, <2>1, <2>2 DEF Shape
    <3> QED
      BY <1>0, <2>1, <3>1 DEF Shape
  <2>4. SpokenTo'
    BY <1>0, <1>s, <2>1 DEF SpokenTo, Real
  <2>5. Subscribed' /\ Pushing' /\ RingIsTheSessions' /\ Real'
    BY <1>0, <2>1 DEF Subscribed, Subscriber, Pushing, RingIsTheSessions, Real
  <2> QED
    BY <2>3, <2>4, <2>5 DEF IInv
<1> QED
  BY <1>1, <1>2, <1>3

(* Every step keeps the invariant.                                         *)
LEMMA StepSpeaks == NotifyAssumption /\ IInv /\ [Next]_vars => IInv'
<1> SUFFICES ASSUME NotifyAssumption, IInv, [Next]_vars PROVE IInv'
  OBVIOUS
<1>0. Shape /\ Subscribed /\ Pushing /\ RingIsTheSessions /\ SpokenTo /\ Real
  BY DEF IInv
<1>s. /\ fn \in [Fns -> FnState] /\ told \in [Fns -> [subs : Int, past : Int]]
      /\ data \in [Fns -> Int] /\ at \in Int
      /\ at # 0 => locked /\ ~pushGone
  BY <1>0 DEF Shape, Pushing
<1>1. ASSUME NEW r \in Routes, Asks(r) PROVE IInv'
  BY <1>1, AsksKeeps
<1>2. CASE lapse
  <2>1. /\ endSubscriptions /\ locked' = FALSE /\ at = 0
        /\ UNCHANGED <<data, tx, push, conn, conns, at, term, spoke, told>>
    BY <1>2 DEF lapse, ghost
  <2>2. /\ fn' \in [Fns -> FnState] /\ ring' = <<>> /\ ring' \in Seq(Events)
        /\ \A f \in Fns : ~fn'[f].on
    BY <1>0, <2>1, EndedKeeps
  <2>3. Shape'
    BY <1>0, <2>1, <2>2 DEF Shape
  <2>4. Subscribed' /\ Pushing' /\ RingIsTheSessions'
    BY <2>1, <2>2 DEF Subscribed, Pushing, RingIsTheSessions
  <2>5. SpokenTo' /\ Real'
    BY <1>0, <2>1 DEF SpokenTo, Real
  <2> QED
    BY <2>3, <2>4, <2>5 DEF IInv
<1>3. CASE Tick
  <2>1. UNCHANGED <<locked, ring, data, tx, push, conn, conns, at, term, spoke, told>>
    BY <1>3 DEF Tick, ghost
  <2>2. \A f \in Fns : fn'[f] = IF fn[f].waiting /\ fn[f].waited < MaxDelay
                                THEN [fn[f] EXCEPT !.waited = @ + 1] ELSE fn[f]
    BY <1>3 DEF Tick
  <2>3. ASSUME NEW f \in Fns
        PROVE  fn'[f] \in FnState /\ (fn'[f].on => fn[f].on)
    <3>1. fn[f] \in FnState
      BY <1>s
    <3>2. [fn[f] EXCEPT !.waited = @ + 1] \in FnState
          /\ ([fn[f] EXCEPT !.waited = @ + 1].on => fn[f].on)
      BY <3>1 DEF FnState
    <3>3. fn'[f] = fn[f] \/ fn'[f] = [fn[f] EXCEPT !.waited = @ + 1]
      BY <2>2
    <3> QED
      BY <3>1, <3>2, <3>3, Zenon
  <2>4. DOMAIN fn' = Fns /\ fn' = [f \in Fns |-> fn'[f]]
    BY <1>3 DEF Tick
  <2>5. fn' \in [Fns -> FnState]
    BY <2>3, <2>4
  <2> QED
    BY <1>s, <2>1, <2>3, <2>5, QuietStepKeeps
<1>4. CASE Push
  BY <1>4, PushKeeps
<1>5. ASSUME NEW f \in Fns, event(f) PROVE IInv'
  BY <1>5, EventKeeps
<1>6. ASSUME NEW f \in Fns, eventsLost(f) PROVE IInv'
  <2>1. /\ fn' = [fn EXCEPT ![f].seq = After(@, 1)]
        /\ told' = [told EXCEPT ![f].past = After(@, 1)]
        /\ UNCHANGED <<locked, ring, data, tx, push, conn, conns, at, term, spoke>>
    BY <1>6 DEF eventsLost
  <2>2. fn' \in [Fns -> FnState] /\ \A g \in Fns : fn'[g].on => fn[g].on
    BY <1>0, <2>1, CountedKeeps
  <2>3. told' \in [Fns -> [subs : Int, past : Int]]
    BY <1>0, <2>1, ToldKeeps
  <2> QED
    BY <1>s, <2>1, <2>2, <2>3, QuietStepKeeps
<1>7. ASSUME NEW f \in Fns, Arrive(f) PROVE IInv'
  <2>1. /\ data' = [data EXCEPT ![f] = @ + 1]
        /\ UNCHANGED <<locked, fn, ring, tx, push, conn, conns, at, term, spoke, told>>
    BY <1>7 DEF Arrive, ghost
  <2>2. data' \in [Fns -> Int]
    BY <1>s, <2>1
  <2> QED
    BY <1>s, <2>1, <2>2, QuietStepKeeps
<1>8. ASSUME NEW r \in Routes, Drain(r) \/ Close(r) \/ Accept(r) PROVE IInv'
  BY <1>8, HostKeeps
<1>9. CASE UNCHANGED vars
  <2>1. UNCHANGED <<locked, fn, ring, data, tx, push, conn, conns, at, term, spoke, told>>
    BY <1>9 DEF vars, state, ghost
  <2> QED
    BY <1>s, <2>1, QuietStepKeeps
<1> QED
  BY <1>1, <1>2, <1>3, <1>4, <1>5, <1>6, <1>7, <1>8, <1>9 DEF Next

(* The invariant of every behaviour.                                       *)
LEMMA AlwaysSpeaks == Spec => []IInv
<1>1. Init => IInv
  BY NotifyAssumption, InitSpeaks
<1>2. IInv /\ [Next]_vars => IInv'
  BY NotifyAssumption, StepSpeaks
<1> QED
  BY <1>1, <1>2, PTL DEF Spec

(* A session's notifications never reach a connection it did not speak     *)
(* over: not the one that took the slot of its host, not the next session's*)
(* (push_conn_, pushGone).                                                 *)
THEOREM OnlyWhereItSpoke == Spec => []SpokenTo
<1>1. IInv => SpokenTo
  BY DEF IInv
<1> QED
  BY <1>1, AlwaysSpeaks, PTL

(* No event waits for a session that is over (endSubscriptions).           *)
THEOREM NoEventOutlives == Spec => []RingIsTheSessions
<1>1. IInv => RingIsTheSessions
  BY DEF IInv
<1> QED
  BY <1>1, AlwaysSpeaks, PTL
-----------------------------------------------------------------------------
(* A subscription's numbers: what left the ring and what waits there is    *)
(* what was numbered, modulo a turn of the seq.                            *)

\* Remainders, as the provers know them.
LEMMA Remainder ==
  ASSUME NEW a \in Int, NEW T \in Nat \ {0}
  PROVE  /\ a \div T \in Int /\ a % T \in 0 .. T - 1
         /\ a = T * (a \div T) + (a % T)
OBVIOUS

\* The numbers of a turn are their own remainders, whole turns added or not.
LEMMA TurnsAway ==
  ASSUME NEW q \in 0 .. SeqTurn - 1, NEW k \in Int
  PROVE  (q + SeqTurn * k) % SeqTurn = q
<1> DEFINE a == q + SeqTurn * k
           r == a % SeqTurn
<1>1. SeqTurn \in Nat \ {0} /\ q \in Int /\ SeqTurn * k \in Int
  BY NotifyAssumption
<1>2. a \in Int
  BY <1>1
<1>3. a \div SeqTurn \in Int /\ r \in 0 .. SeqTurn - 1 /\ a = SeqTurn * (a \div SeqTurn) + r
  <2> HIDE DEF a
  <2> QED BY <1>1, <1>2, Remainder
<1> HIDE DEF r
<1>4. PICK p \in Int : a = SeqTurn * p + r
  BY <1>3
<1>5. q - r = SeqTurn * (p - k)
  <2>1. SeqTurn * (p - k) = SeqTurn * p - SeqTurn * k
    BY <1>1
  <2>2. SeqTurn * p \in Int /\ r \in Int
    BY <1>1, <1>3
  <2> QED BY <1>1, <1>4, <2>1, <2>2
<1>6. p - k = 0
  <2>1. p - k >= 1 => SeqTurn * (p - k) >= SeqTurn
    BY <1>1
  <2>2. p - k <= -1 => SeqTurn * (p - k) <= -SeqTurn
    BY <1>1
  <2>3. q - r < SeqTurn /\ q - r > -SeqTurn
    BY <1>1, <1>3
  <2> HIDE DEF a
  <2> QED BY <1>1, <1>5, <2>1, <2>2, <2>3
<1>7. SeqTurn * (p - k) = 0
  BY <1>1, <1>6
<1>8. r = q
  BY <1>1, <1>3, <1>5, <1>7
<1> QED BY <1>8 DEF r

\* A number counted on is one more, whole turns aside; and just one more
\* where the seq stops short of its turn.
LEMMA CountedOn ==
  ASSUME NEW q \in Int
  PROVE  /\ After(q, 1) \in 0 .. SeqTurn - 1
         /\ \E m \in Int : q + 1 = After(q, 1) + SeqTurn * m
         /\ q \in 0 .. SeqTurn - 2 => After(q, 1) = q + 1
<1>1. SeqTurn \in Nat \ {0} /\ q + 1 \in Int
  BY NotifyAssumption
<1>2. /\ (q + 1) \div SeqTurn \in Int /\ (q + 1) % SeqTurn \in 0 .. SeqTurn - 1
      /\ q + 1 = SeqTurn * ((q + 1) \div SeqTurn) + ((q + 1) % SeqTurn)
  BY <1>1, Remainder
<1>3. ASSUME q \in 0 .. SeqTurn - 2 PROVE (q + 1) % SeqTurn = q + 1
  <2>1. q + 1 \in 0 .. SeqTurn - 1
    BY <1>1, <1>3
  <2>2. (q + 1 + SeqTurn * 0) % SeqTurn = q + 1
    BY <2>1, TurnsAway
  <2>3. q + 1 + SeqTurn * 0 = q + 1
    BY <1>1
  <2> QED BY <2>2, <2>3
<1> DEFINE r == (q + 1) % SeqTurn
           d == (q + 1) \div SeqTurn
<1>4. After(q, 1) = r
  BY DEF After
<1>5. d \in Int /\ r \in 0 .. SeqTurn - 1 /\ q + 1 = SeqTurn * d + r
  BY <1>2
<1> HIDE DEF r, d
<1>6. SeqTurn * d \in Int
  BY <1>1, <1>5
<1>7. q + 1 = r + SeqTurn * d
  BY <1>5, <1>6
<1> QED BY <1>3, <1>4, <1>5, <1>7 DEF r

\* Where in a ring the events of fn g's b-th subscription wait.
Of(s, g, b) == {i \in DOMAIN s : s[i].fn = g /\ s[i].sub = b}

\* With next as the number to come: p have left the ring and the rest wait
\* in order.
Counted(s, g, b, next, p) ==
  /\ \E k \in Int : p + Cardinality(Of(s, g, b)) = next + SeqTurn * k
  /\ ~Wraps => \A i \in Of(s, g, b) :
                 /\ s[i].seq < next
                 /\ \A j \in Of(s, g, b) : i < j => s[i].seq < s[j].seq

\* The events of a ring, field by field.
LEMMA EventsAre ==
  ASSUME NEW s \in Seq(Events)
  PROVE  /\ DOMAIN s = 1 .. Len(s)
         /\ \A j \in DOMAIN s : s[j].seq \in Int /\ s[j].sub \in Int /\ s[j].fn \in Fns
<1>1. \A j \in DOMAIN s : s[j] \in Events
  OBVIOUS
<1>2. \A e \in Events : e.seq \in Int /\ e.sub \in Int /\ e.fn \in Fns
  BY DEF Events
<1> QED BY <1>1, <1>2

\* The events of one subscription are finitely many.
LEMMA OfIsFinite ==
  ASSUME NEW s \in Seq(Events), NEW g, NEW b
  PROVE  /\ IsFiniteSet(Of(s, g, b)) /\ Cardinality(Of(s, g, b)) \in Nat
         /\ Of(s, g, b) \subseteq 1 .. Len(s)
<1>1. DOMAIN s = 1 .. Len(s) /\ Len(s) \in Nat
  OBVIOUS
<1>2. Of(s, g, b) \in SUBSET (1 .. Len(s))
  BY <1>1 DEF Of
<1>3. IsFiniteSet(1 .. Len(s))
  BY <1>1, FS_Interval
<1>4. IsFiniteSet(Of(s, g, b))
  BY <1>2, <1>3, FS_Subset
<1> QED BY <1>2, <1>4, FS_CardinalityType

\* An event queued that takes the number to come, or is another's.
LEMMA QueuedCounted ==
  ASSUME NEW s \in Seq(Events), NEW e \in Events, NEW g, NEW b, NEW next \in Int, NEW p \in Int,
         Counted(s, g, b, next, p)
  PROVE  /\ ~(e.fn = g /\ e.sub = b) => Counted(Append(s, e), g, b, next, p)
         /\ /\ e.fn = g /\ e.sub = b /\ e.seq = next
            /\ ~Wraps => next \in 0 .. SeqTurn - 2
            => Counted(Append(s, e), g, b, After(next, 1), p)
<1> DEFINE n == Len(s) + 1
           O == Of(s, g, b)
           Q == Of(Append(s, e), g, b)
<1>1. /\ Len(s) \in Nat /\ DOMAIN Append(s, e) = 1 .. n /\ DOMAIN s = 1 .. Len(s)
      /\ Append(s, e)[n] = e
      /\ \A i \in 1 .. Len(s) : Append(s, e)[i] = s[i]
  BY AppendProperties
<1>2. O \subseteq 1 .. Len(s) /\ IsFiniteSet(O) /\ Cardinality(O) \in Nat
  BY OfIsFinite
<1>3. \A i \in 1 .. n : i = n \/ i \in 1 .. Len(s)
  BY <1>1
<1>4. Q = IF e.fn = g /\ e.sub = b THEN O \cup {n} ELSE O
  <2>1. \A i \in 1 .. Len(s) : i \in Q <=> i \in O
    BY <1>1 DEF Of
  <2>2. n \in Q <=> (e.fn = g /\ e.sub = b)
    BY <1>1 DEF Of
  <2>3. Q \subseteq 1 .. n
    BY <1>1 DEF Of
  <2> HIDE DEF Q, O
  <2>4. ASSUME e.fn = g /\ e.sub = b PROVE Q = O \cup {n}
    BY <1>1, <1>2, <1>3, <2>1, <2>2, <2>3, <2>4
  <2>5. ASSUME ~(e.fn = g /\ e.sub = b) PROVE Q = O
    BY <1>1, <1>2, <1>3, <2>1, <2>2, <2>3, <2>5
  <2> QED BY <2>4, <2>5
<1>5. \A i \in O : Append(s, e)[i] = s[i] /\ i < n
  BY <1>1, <1>2
<1>6. n \notin O
  BY <1>1, <1>2
<1> HIDE DEF O, Q
<1>7. ASSUME ~(e.fn = g /\ e.sub = b) PROVE Counted(Append(s, e), g, b, next, p)
  <2>1. Q = O
    BY <1>4, <1>7
  <2>2. \E k \in Int : p + Cardinality(Q) = next + SeqTurn * k
    BY <2>1 DEF Counted, O
  <2>3. ~Wraps => \A i \in O : s[i].seq < next /\ \A j \in O : i < j => s[i].seq < s[j].seq
    BY DEF Counted, O
  <2>4. ~Wraps => \A i \in Q :
           /\ Append(s, e)[i].seq < next
           /\ \A j \in Q : i < j => Append(s, e)[i].seq < Append(s, e)[j].seq
    BY <1>5, <2>1, <2>3
  <2> QED BY <2>2, <2>4 DEF Counted, Q
<1>8. ASSUME e.fn = g, e.sub = b, e.seq = next, ~Wraps => next \in 0 .. SeqTurn - 2
      PROVE  Counted(Append(s, e), g, b, After(next, 1), p)
  <2>1. Q = O \cup {n}
    BY <1>4, <1>8
  <2>2. Cardinality(Q) = Cardinality(O) + 1
    BY <1>2, <1>6, <2>1, FS_AddElement
  <2>3. PICK k \in Int : p + Cardinality(O) = next + SeqTurn * k
    BY DEF Counted, O
  <2>4. PICK m \in Int : next + 1 = After(next, 1) + SeqTurn * m
    BY CountedOn
  <2>5. After(next, 1) \in Int
    BY CountedOn, NotifyAssumption
  <2>6. p + Cardinality(Q) = After(next, 1) + SeqTurn * (k + m)
    <3> DEFINE a == SeqTurn * k
               c == SeqTurn * m
               w == After(next, 1)
               o == Cardinality(O)
    <3>1. SeqTurn * (k + m) = a + c /\ a \in Int /\ c \in Int
      BY NotifyAssumption
    <3>2. p + o = next + a /\ next + 1 = w + c /\ Cardinality(Q) = o + 1 /\ o \in Int /\ w \in Int
      BY <1>2, <2>2, <2>3, <2>4, <2>5
    <3> HIDE DEF a, c, w, o
    <3>3. p + (o + 1) = w + (a + c)
      BY <3>1, <3>2
    <3> QED BY <3>1, <3>2, <3>3 DEF w
  <2>7. ASSUME ~Wraps, NEW i \in Q
        PROVE  /\ Append(s, e)[i].seq < After(next, 1)
               /\ \A j \in Q : i < j => Append(s, e)[i].seq < Append(s, e)[j].seq
    <3>1. After(next, 1) = next + 1
      BY <1>8, <2>7, CountedOn
    <3>2. \A j \in O : s[j].seq < next /\ s[j].seq \in Int
      <4>1. \A j \in 1 .. Len(s) : s[j].seq \in Int
        BY EventsAre
      <4> QED BY <1>2, <2>7, <4>1 DEF Counted, O
    <3>3. Append(s, e)[n].seq = next
      BY <1>1, <1>8
    <3>4. \A j \in O, l \in O : j < l => s[j].seq < s[l].seq
      BY <2>7 DEF Counted, O
    <3>5. CASE i = n
      <4>1. \A j \in Q : ~(n < j)
        BY <1>2, <1>5, <1>1, <2>1
      <4> QED BY <3>1, <3>3, <3>5, <4>1
    <3>6. CASE i \in O
      <4>1. Append(s, e)[i] = s[i] /\ s[i].seq < next /\ s[i].seq \in Int
        BY <1>5, <3>2, <3>6
      <4>3. Append(s, e)[i].seq < next + 1
        BY <4>1
      <4>2. \A j \in Q : i < j => Append(s, e)[i].seq < Append(s, e)[j].seq
        BY <1>5, <2>1, <3>2, <3>3, <3>4, <3>6
      <4> QED BY <3>1, <4>2, <4>3
    <3> QED BY <2>1, <2>7, <3>5, <3>6
  <2>8. k + m \in Int
    OBVIOUS
  <2> QED BY <2>6, <2>7, <2>8 DEF Counted, Q
<1> QED BY <1>7, <1>8

\* The oldest event leaves: counted among what has left, or another's.
LEMMA LeftCounted ==
  ASSUME NEW s \in Seq(Events), s # <<>>, NEW g, NEW b, NEW next \in Int, NEW p \in Int,
         Counted(s, g, b, next, p)
  PROVE  /\ ~(Head(s).fn = g /\ Head(s).sub = b) => Counted(Tail(s), g, b, next, p)
         /\ Head(s).fn = g /\ Head(s).sub = b => Counted(Tail(s), g, b, next, After(p, 1))
<1> DEFINE O == Of(s, g, b)
           Q == Of(Tail(s), g, b)
           R == O \ {1}
           h == [i \in Q |-> i + 1]
<1>1. /\ Tail(s) \in Seq(Events) /\ Len(Tail(s)) = Len(s) - 1 /\ Len(s) \in Nat \ {0}
      /\ \A i \in 1 .. Len(Tail(s)) : Tail(s)[i] = s[i + 1]
      /\ Head(s) = s[1]
  BY HeadTailProperties
<1>2. O \subseteq 1 .. Len(s) /\ IsFiniteSet(O) /\ Cardinality(O) \in Nat
  BY OfIsFinite
<1>3. Q \subseteq 1 .. Len(s) - 1 /\ IsFiniteSet(Q) /\ Cardinality(Q) \in Nat
  BY <1>1, OfIsFinite
<1>4. 1 \in O <=> (Head(s).fn = g /\ Head(s).sub = b)
  BY <1>1 DEF Of
<1>5. \A i \in 1 .. Len(s) - 1 : i \in Q <=> i + 1 \in O
  <2>1. \A i \in 1 .. Len(s) - 1 : Tail(s)[i] = s[i + 1] /\ i \in DOMAIN Tail(s) /\ i + 1 \in DOMAIN s
    BY <1>1
  <2> QED BY <2>1 DEF Of
<1>6. h \in Bijection(Q, R)
  <2> HIDE DEF O, Q
  <2>1. \A i \in Q : i \in Int /\ i + 1 \in R
    BY <1>1, <1>3, <1>5
  <2>2. h \in [Q -> R]
    BY <2>1
  <2>3. \A i, j \in Q : h[i] = h[j] => i = j
    BY <2>1
  <2>4. \A r \in R : \E i \in Q : h[i] = r
    <3> SUFFICES ASSUME NEW r \in R PROVE \E i \in Q : h[i] = r
      OBVIOUS
    <3>1. r \in 1 .. Len(s) /\ r # 1
      BY <1>2
    <3>2. r - 1 \in 1 .. Len(s) - 1 /\ (r - 1) + 1 = r
      BY <1>1, <3>1
    <3>3. r - 1 \in Q
      BY <1>5, <3>2
    <3> QED BY <3>2, <3>3
  <2> HIDE DEF h, R
  <2> QED BY <2>2, <2>3, <2>4 DEF Bijection, Injection, Surjection, IsInjective
<1>7. Cardinality(R) = Cardinality(Q)
  <2>1. ExistsBijection(Q, R)
    BY <1>6 DEF ExistsBijection
  <2> HIDE DEF Q, R
  <2> QED BY <1>3, <2>1, FS_Bijection
<1>8. Cardinality(R) = IF 1 \in O THEN Cardinality(O) - 1 ELSE Cardinality(O)
  BY <1>2, FS_RemoveElement
<1>9. ~Wraps => \A i \in Q :
         /\ Tail(s)[i].seq < next
         /\ \A j \in Q : i < j => Tail(s)[i].seq < Tail(s)[j].seq
  <2>1. \A i \in Q : Tail(s)[i] = s[i + 1] /\ i + 1 \in O /\ i \in Int
    BY <1>1, <1>3, <1>5
  <2> HIDE DEF Q
  <2>2. \A i, j \in Q : i < j => i + 1 < j + 1
    BY <2>1
  <2> QED BY <2>1, <2>2 DEF Counted, O
<1>10. PICK k \in Int : p + Cardinality(O) = next + SeqTurn * k
  BY DEF Counted
<1>11. PICK m \in Int : p + 1 = After(p, 1) + SeqTurn * m
  BY CountedOn
<1>12. After(p, 1) \in Int
  BY CountedOn, NotifyAssumption
<1> HIDE DEF O, Q, R, h
<1>13. ASSUME 1 \notin O PROVE Counted(Tail(s), g, b, next, p)
  <2>1. p + Cardinality(Q) = next + SeqTurn * k
    BY <1>7, <1>8, <1>10, <1>13
  <2> QED BY <1>9, <2>1 DEF Counted, Q
<1>14. ASSUME 1 \in O PROVE Counted(Tail(s), g, b, next, After(p, 1))
  <2>1. Cardinality(Q) = Cardinality(O) - 1
    BY <1>7, <1>8, <1>14
  <2>2. After(p, 1) + Cardinality(Q) = next + SeqTurn * (k - m)
    <3> DEFINE a == SeqTurn * k
               c == SeqTurn * m
               w == After(p, 1)
               o == Cardinality(O)
    <3>1. SeqTurn * (k - m) = a - c /\ a \in Int /\ c \in Int
      BY NotifyAssumption
    <3>2. p + o = next + a /\ p + 1 = w + c /\ Cardinality(Q) = o - 1 /\ o \in Int /\ w \in Int
      BY <1>2, <1>10, <1>11, <1>12, <2>1
    <3> HIDE DEF a, c, w, o
    <3>3. w + (o - 1) = next + (a - c)
      BY <3>1, <3>2
    <3> QED BY <3>1, <3>2, <3>3 DEF w
  <2>3. k - m \in Int
    OBVIOUS
  <2> QED BY <1>9, <2>2, <2>3 DEF Counted, Q
<1> QED BY <1>4, <1>13, <1>14

\* A number taken by what never waited: lost, or data.
LEMMA SkippedCounted ==
  ASSUME NEW s \in Seq(Events), NEW g, NEW b, NEW next \in Int, NEW p \in Int,
         Counted(s, g, b, next, p), ~Wraps => next \in 0 .. SeqTurn - 2
  PROVE  Counted(s, g, b, After(next, 1), After(p, 1))
<1>1. PICK k \in Int : p + Cardinality(Of(s, g, b)) = next + SeqTurn * k
  BY DEF Counted
<1>2. PICK m \in Int : p + 1 = After(p, 1) + SeqTurn * m
  BY CountedOn
<1>3. PICK l \in Int : next + 1 = After(next, 1) + SeqTurn * l
  BY CountedOn
<1>4. After(p, 1) \in Int /\ After(next, 1) \in Int /\ Cardinality(Of(s, g, b)) \in Nat
  <2>1. After(p, 1) \in 0 .. SeqTurn - 1 /\ After(next, 1) \in 0 .. SeqTurn - 1
    BY CountedOn
  <2>2. \A x \in 0 .. SeqTurn - 1 : x \in Int
    BY NotifyAssumption
  <2> QED BY <2>1, <2>2, OfIsFinite
<1>5. After(p, 1) + Cardinality(Of(s, g, b)) = After(next, 1) + SeqTurn * (k + l - m)
  <2> DEFINE a == SeqTurn * k
             c == SeqTurn * m
             d == SeqTurn * l
             w == After(p, 1)
             x == After(next, 1)
             o == Cardinality(Of(s, g, b))
  <2>1. SeqTurn * (k + l - m) = a + d - c /\ a \in Int /\ c \in Int /\ d \in Int
    BY NotifyAssumption
  <2>2. p + o = next + a /\ p + 1 = w + c /\ next + 1 = x + d /\ o \in Int /\ w \in Int /\ x \in Int
    BY <1>1, <1>2, <1>3, <1>4
  <2> HIDE DEF a, c, d, w, x, o
  <2>3. w + o = x + (a + d - c)
    BY <2>1, <2>2
  <2> QED BY <2>1, <2>3 DEF w, x, o
<1>6. ASSUME ~Wraps, NEW i \in Of(s, g, b)
      PROVE  /\ s[i].seq < After(next, 1)
             /\ \A j \in Of(s, g, b) : i < j => s[i].seq < s[j].seq
  <2>1. After(next, 1) = next + 1
    BY <1>6, CountedOn
  <2>2. s[i].seq < next /\ \A j \in Of(s, g, b) : i < j => s[i].seq < s[j].seq
    BY <1>6 DEF Counted
  <2>3. s[i].seq \in Int
    BY OfIsFinite, EventsAre
  <2> QED BY <2>1, <2>2, <2>3
<1>7. k + l - m \in Int
  OBVIOUS
<1> QED BY <1>5, <1>6, <1>7 DEF Counted

SeqInv ==
  /\ data \in [Fns -> 0 .. MaxData]
  /\ \A i \in DOMAIN ring : ring[i].sub <= told[ring[i].fn].subs
  /\ \A f \in Fns : /\ fn[f].seq \in 0 .. SeqTurn - 1
                    /\ fn[f].on => Counted(ring, f, told[f].subs, fn[f].seq, told[f].past)

(* What the model states of a subscription follows from the count.         *)
LEMMA CountTells ==
  ASSUME Shape, SeqInv
  PROVE  SeqsTell
<1> SUFFICES ASSUME NEW f \in Fns, fn[f].on
             PROVE  /\ fn[f].seq = (told[f].past + Cardinality(Own(f))) % SeqTurn
                    /\ ~Wraps => \A i, j \in Own(f) : i < j => ring[i].seq < ring[j].seq
  BY DEF SeqsTell
<1>1. Own(f) = Of(ring, f, told[f].subs)
  BY DEF Own, Of
<1>2. Counted(ring, f, told[f].subs, fn[f].seq, told[f].past) /\ fn[f].seq \in 0 .. SeqTurn - 1
  BY DEF SeqInv
<1>3. PICK k \in Int : told[f].past + Cardinality(Own(f)) = fn[f].seq + SeqTurn * k
  BY <1>1, <1>2 DEF Counted
<1>4. (fn[f].seq + SeqTurn * k) % SeqTurn = fn[f].seq
  BY <1>2, TurnsAway
<1>5. ~Wraps => \A i, j \in Own(f) : i < j => ring[i].seq < ring[j].seq
  BY <1>1, <1>2 DEF Counted
<1> QED BY <1>3, <1>4, <1>5

(* A step that takes no number and queues or sends no event.               *)
LEMMA SameCounts ==
  ASSUME SeqInv, ring' = ring, told' = told, data' \in [Fns -> 0 .. MaxData],
         \A f \in Fns : fn'[f].seq = fn[f].seq /\ (fn'[f].on => fn[f].on)
  PROVE  SeqInv'
BY DEF SeqInv, Counted, Of

(* The subscriptions over: nothing waits, whatever the numbers.            *)
LEMMA EndedCounts ==
  ASSUME Shape, SeqInv, endSubscriptions, told' = told, data' = data
  PROVE  SeqInv'
<1>1. ring' = <<>> /\ fn' = [f \in Fns |-> [fn[f] EXCEPT !.on = FALSE]]
  BY DEF endSubscriptions
<1>2. \A f \in Fns : ~fn'[f].on /\ fn'[f].seq = fn[f].seq
  BY <1>1 DEF Shape, FnState
<1>3. DOMAIN ring' = {}
  BY <1>1
<1> QED BY <1>2, <1>3 DEF SeqInv

(* The requests: a subscription begins a count of its own.                 *)
LEMMA AsksCount ==
  ASSUME IInv, SeqInv, NEW r \in Routes, Asks(r)
  PROVE  SeqInv'
<1>0. Shape /\ Subscribed
  BY DEF IInv
<1>1. CASE Open(r)
  <2>1. told' = told /\ data' = data
    BY <1>1 DEF Open
  <2>2. CASE locked
    BY <1>0, <1>1, <2>1, <2>2, EndedCounts DEF Open
  <2>3. CASE ~locked
    <3>1. fn' = fn /\ ring' = ring
      BY <1>1, <2>3 DEF Open
    <3> QED BY <2>1, <3>1, SameCounts DEF SeqInv
  <2> QED BY <2>2, <2>3
<1>2. CASE Request(r)
  <2>1. fn' = fn /\ ring' = ring /\ told' = told
    BY <1>2 DEF Request
  <2>2. PICK f \in Fns : \E n \in 0 .. data[f] : data' = [data EXCEPT ![f] = n]
    BY <1>2 DEF Request
  <2>4. PICK n \in 0 .. data[f] : data' = [data EXCEPT ![f] = n]
    BY <2>2
  <2>3. data' \in [Fns -> 0 .. MaxData]
    <3>1. data[f] \in 0 .. MaxData /\ data \in [Fns -> 0 .. MaxData]
      BY DEF SeqInv
    <3>2. n \in 0 .. MaxData
      BY <3>1, NotifyAssumption
    <3> QED BY <2>4, <3>1, <3>2
  <2> QED BY <2>1, <2>3, SameCounts
<1>3. CASE End(r)
  BY <1>0, <1>3, EndedCounts DEF End
<1>4. ASSUME NEW f \in Fns, subscribe(f, r) PROVE SeqInv'
  <2>1. PICK b \in Batches : fn' = [fn EXCEPT ![f] = Fresh(TRUE, b.min, b.delay)]
    BY <1>4 DEF subscribe
  <2>2. /\ ring' = ring /\ data' = data
        /\ told' = [told EXCEPT ![f] = [Untold EXCEPT !.subs = told[f].subs + 1]]
    BY <1>4 DEF subscribe
  <2>3. /\ fn'[f].seq = 0
        /\ \A g \in Fns \ {f} : fn'[g] = fn[g] /\ told'[g] = told[g]
        /\ told'[f].subs = told[f].subs + 1 /\ told'[f].past = 0 /\ told[f].subs \in Int
    BY <1>0, <2>1, <2>2 DEF Shape, Fresh, Untold
  <2>4. Of(ring, f, told[f].subs + 1) = {}
    <3>1. \A i \in DOMAIN ring : ring[i].sub \in Int
      BY <1>0, EventsAre DEF Shape
    <3>2. \A i \in DOMAIN ring : ring[i].fn = f => ring[i].sub <= told[f].subs
      BY DEF SeqInv
    <3> QED BY <2>3, <3>1, <3>2 DEF Of
  <2>5. Counted(ring, f, told[f].subs + 1, 0, 0)
    <3>1. Cardinality(Of(ring, f, told[f].subs + 1)) = 0
      BY <2>4, FS_EmptySet
    <3>2. 0 + Cardinality(Of(ring, f, told[f].subs + 1)) = 0 + SeqTurn * 0
      BY <3>1, NotifyAssumption
    <3> QED BY <2>4, <3>2 DEF Counted
  <2>6. \A i \in DOMAIN ring : ring[i].sub <= told'[ring[i].fn].subs
    <3> SUFFICES ASSUME NEW i \in DOMAIN ring PROVE ring[i].sub <= told'[ring[i].fn].subs
      OBVIOUS
    <3>1. ring[i].sub \in Int /\ ring[i].fn \in Fns
      BY <1>0, EventsAre DEF Shape
    <3>2. ring[i].sub <= told[ring[i].fn].subs
      BY DEF SeqInv
    <3> QED BY <2>3, <3>1, <3>2
  <2>7. ASSUME NEW g \in Fns
        PROVE  /\ fn'[g].seq \in 0 .. SeqTurn - 1
               /\ fn'[g].on => Counted(ring, g, told'[g].subs, fn'[g].seq, told'[g].past)
    <3>1. CASE g = f
      BY <2>3, <2>5, <3>1, NotifyAssumption
    <3>2. CASE g # f
      BY <2>3, <3>2 DEF SeqInv
    <3> QED BY <3>1, <3>2
  <2> QED BY <2>2, <2>6, <2>7 DEF SeqInv, Counted, Of
<1>5. ASSUME NEW f \in Fns, unsubscribe(f, r) PROVE SeqInv'
  <2>1. /\ fn' = [fn EXCEPT ![f].on = FALSE] /\ ring' = ring /\ told' = told /\ data' = data
    BY <1>5 DEF unsubscribe
  <2>2. \A g \in Fns : fn'[g].seq = fn[g].seq /\ (fn'[g].on => fn[g].on)
    BY <1>0, <2>1 DEF Shape, FnState
  <2> QED BY <2>1, <2>2, SameCounts DEF SeqInv
<1> QED BY <1>1, <1>2, <1>3, <1>4, <1>5 DEF Asks

(* The ghost's account of one event gone from the ring's head.             *)
LEMMA LeavesIs ==
  ASSUME Shape, NEW e \in Events
  PROVE  \A g \in Fns : /\ Leaves(e)[g].subs = told[g].subs
                        /\ Leaves(e)[g].past = IF e.fn = g /\ e.sub = told[g].subs
                                                 THEN After(told[g].past, 1) ELSE told[g].past
<1>1. told \in [Fns -> [subs : Int, past : Int]] /\ e.fn \in Fns
  BY DEF Shape, Events
<1>2. CASE told[e.fn].subs = e.sub
  <2>1. Leaves(e) = [told EXCEPT ![e.fn].past = After(@, 1)]
    BY <1>2 DEF Leaves
  <2> HIDE DEF After
  <2> QED BY <1>1, <1>2, <2>1
<1>3. CASE told[e.fn].subs # e.sub
  <2>1. Leaves(e) = told
    BY <1>3 DEF Leaves
  <2> QED BY <1>3, <2>1
<1> QED BY <1>2, <1>3

(* The oldest event gone, sent or displaced.                               *)
LEMMA HeadGoneCounts ==
  ASSUME Shape, SeqInv, ring # <<>>
  PROVE  /\ \A i \in DOMAIN Tail(ring) :
              Tail(ring)[i].sub <= Leaves(Head(ring))[Tail(ring)[i].fn].subs
         /\ \A f \in Fns : fn[f].on =>
              Counted(Tail(ring), f, told[f].subs, fn[f].seq, Leaves(Head(ring))[f].past)
         /\ \A f \in Fns : Leaves(Head(ring))[f].past \in Int
         /\ Tail(ring) \in Seq(Events)
<1>1. /\ ring \in Seq(Events) /\ Head(ring) \in Events /\ Tail(ring) \in Seq(Events)
      /\ \A i \in 1 .. Len(Tail(ring)) : Tail(ring)[i] = ring[i + 1]
      /\ Len(Tail(ring)) = Len(ring) - 1
  BY HeadTailProperties DEF Shape
<1>2. \A i \in DOMAIN Tail(ring) : Tail(ring)[i] = ring[i + 1] /\ i + 1 \in DOMAIN ring
  BY <1>1
<1>3. \A g \in Fns : /\ Leaves(Head(ring))[g].subs = told[g].subs
                     /\ Leaves(Head(ring))[g].past = IF Head(ring).fn = g /\ Head(ring).sub = told[g].subs
                                                       THEN After(told[g].past, 1) ELSE told[g].past
  BY <1>1, LeavesIs
<1>4. \A i \in DOMAIN ring : ring[i].fn \in Fns /\ ring[i].sub <= told[ring[i].fn].subs
  BY <1>1, EventsAre DEF SeqInv
<1>5. ASSUME NEW f \in Fns
      PROVE  /\ told[f].past \in Int /\ fn[f].seq \in Int /\ After(told[f].past, 1) \in Int
  <2>1. told[f].past \in Int /\ fn[f].seq \in Int
    BY DEF Shape, FnState
  <2> QED BY <2>1, AfterIsInt, NotifyAssumption
<1>6. ASSUME NEW f \in Fns, fn[f].on
      PROVE  Counted(Tail(ring), f, told[f].subs, fn[f].seq, Leaves(Head(ring))[f].past)
  <2>1. Counted(ring, f, told[f].subs, fn[f].seq, told[f].past)
    BY <1>6 DEF SeqInv
  <2>2. /\ ~(Head(ring).fn = f /\ Head(ring).sub = told[f].subs)
             => Counted(Tail(ring), f, told[f].subs, fn[f].seq, told[f].past)
        /\ Head(ring).fn = f /\ Head(ring).sub = told[f].subs
             => Counted(Tail(ring), f, told[f].subs, fn[f].seq, After(told[f].past, 1))
    BY <1>1, <1>5, <2>1, LeftCounted
  <2> HIDE DEF Counted, After
  <2> QED BY <1>3, <2>2
<1>7. \A f \in Fns : Leaves(Head(ring))[f].past \in Int
  BY <1>3, <1>5
<1> QED BY <1>1, <1>2, <1>3, <1>4, <1>6, <1>7

(* An event queued.                                                        *)
LEMMA EventCounts ==
  ASSUME Shape, SeqInv, NEW f \in Fns, event(f)
  PROVE  SeqInv'
<1> DEFINE e == [fn |-> f, seq |-> fn[f].seq, sub |-> told[f].subs, term |-> term]
           kept == IF Len(ring) >= Ring THEN Tail(ring) ELSE ring
           left == IF Len(ring) >= Ring THEN Leaves(Head(ring)) ELSE told
<1>1. /\ fn[f].on /\ CanTake(f) /\ data' = data
      /\ ring' = Append(kept, e) /\ told' = left
      /\ fn' = [fn EXCEPT ![f].seq = After(@, 1)]
  BY DEF event, queueEvent
<1>2. e \in Events /\ e.fn = f /\ e.sub = told[f].subs /\ e.seq = fn[f].seq
  <2>1. fn[f] \in FnState /\ told[f] \in [subs : Int, past : Int] /\ term \in Int
    BY DEF Shape
  <2> QED BY <2>1 DEF Events, FnState
<1>3. ring \in Seq(Events) /\ (Len(ring) >= Ring => ring # <<>>)
  BY NotifyAssumption DEF Shape
<1>4. \A g \in Fns : fn[g].seq \in Int /\ told[g].past \in Int /\ told[g].subs \in Int
  BY DEF Shape, FnState
<1>5. \A g \in Fns : left[g].subs = told[g].subs
  <2>1. ring # <<>> => Head(ring) \in Events
    BY <1>3, HeadTailProperties
  <2> QED BY <1>3, <2>1, LeavesIs
<1>6. /\ kept \in Seq(Events)
      /\ \A i \in DOMAIN kept : kept[i].sub <= left[kept[i].fn].subs
      /\ \A g \in Fns : left[g].past \in Int
      /\ \A g \in Fns : fn[g].on => Counted(kept, g, told[g].subs, fn[g].seq, left[g].past)
  <2>1. CASE Len(ring) >= Ring
    BY <1>3, <2>1, HeadGoneCounts
  <2>2. CASE ~(Len(ring) >= Ring)
    BY <1>3, <1>4, <2>2 DEF SeqInv
  <2> QED BY <2>1, <2>2
<1>7. /\ \A g \in Fns \ {f} : fn'[g] = fn[g]
      /\ fn'[f].seq = After(fn[f].seq, 1)
  <2> HIDE DEF After
  <2> QED BY <1>1 DEF Shape, FnState
<1>8. ~Wraps => fn[f].seq \in 0 .. SeqTurn - 2
  <2>1. fn[f].seq \in 0 .. SeqTurn - 1
    BY DEF SeqInv
  <2>2. ~Wraps => fn[f].seq < SeqTurn - 1
    BY <1>1 DEF CanTake
  <2> DEFINE n == fn[f].seq
  <2>3. n \in 0 .. SeqTurn - 1 /\ (~Wraps => n < SeqTurn - 1) /\ SeqTurn \in Nat
    BY <2>1, <2>2, NotifyAssumption
  <2> HIDE DEF n
  <2>4. ~Wraps => n \in 0 .. SeqTurn - 2
    BY ONLY <2>3
  <2> QED BY <2>4 DEF n
<1> HIDE DEF e, kept, left
<1>9. ASSUME NEW g \in Fns
      PROVE  /\ fn'[g].seq \in 0 .. SeqTurn - 1
             /\ fn'[g].on => Counted(ring', g, told'[g].subs, fn'[g].seq, told'[g].past)
  <2>1. CASE g = f
    <3>1. fn'[g].seq \in 0 .. SeqTurn - 1
      BY <1>4, <1>7, <2>1, CountedOn
    <3>2. Counted(Append(kept, e), f, told[f].subs, After(fn[f].seq, 1), left[f].past)
      <4>1. Counted(kept, f, told[f].subs, fn[f].seq, left[f].past)
        BY <1>1, <1>6
      <4> QED BY <1>2, <1>4, <1>6, <1>8, <4>1, QueuedCounted
    <3> QED BY <1>1, <1>5, <1>7, <2>1, <3>1, <3>2
  <2>2. CASE g # f
    <3>1. fn[g].on => Counted(Append(kept, e), g, told[g].subs, fn[g].seq, left[g].past)
      <4>1. fn[g].on => Counted(kept, g, told[g].subs, fn[g].seq, left[g].past)
        BY <1>6
      <4> QED BY <1>2, <1>4, <1>6, <2>2, <4>1, QueuedCounted
    <3> QED BY <1>1, <1>5, <1>7, <2>2, <3>1 DEF SeqInv
  <2> QED BY <2>1, <2>2
<1>10. \A i \in DOMAIN ring' : ring'[i].sub <= told'[ring'[i].fn].subs
  <2>1. /\ DOMAIN ring' = 1 .. Len(kept) + 1 /\ DOMAIN kept = 1 .. Len(kept)
        /\ Len(kept) \in Nat /\ ring'[Len(kept) + 1] = e
        /\ \A k \in 1 .. Len(kept) : ring'[k] = kept[k]
    BY <1>1, <1>2, <1>6, AppendProperties
  <2>2. e.sub <= told'[e.fn].subs
    BY <1>1, <1>2, <1>4, <1>5
  <2>3. \A i \in 1 .. Len(kept) + 1 : i = Len(kept) + 1 \/ i \in 1 .. Len(kept)
    BY <2>1
  <2> QED BY <1>1, <1>6, <2>1, <2>2, <2>3
<1>11. data' \in [Fns -> 0 .. MaxData]
  BY <1>1 DEF SeqInv
<1>12. \A g \in Fns : fn'[g].on => Counted(ring, g, told[g].subs, fn[g].seq, told[g].past)'
  BY <1>9 DEF Counted, Of
<1> QED BY <1>9, <1>10, <1>11, <1>12 DEF SeqInv

(* push(): an event sent has left the ring; data takes a number at once.   *)
LEMMA PushCounts ==
  ASSUME IInv, SeqInv, Push
  PROVE  SeqInv'
<1>0. Shape
  BY DEF IInv
<1>s. /\ fn \in [Fns -> FnState] /\ told \in [Fns -> [subs : Int, past : Int]]
      /\ data \in [Fns -> 0 .. MaxData] /\ MaxData \in Nat
      /\ \A g \in Fns : fn[g].seq \in Int /\ told[g].past \in Int
  BY <1>0, NotifyAssumption DEF Shape, SeqInv, FnState
<1>1. CASE BeginPush
  BY <1>1, SameCounts DEF BeginPush, ghost, SeqInv
<1>2. CASE sendEvents
  <2>0. fn' = fn /\ data' = data
    BY <1>2 DEF sendEvents
  <2>1. CASE ring' = ring /\ told' = told
    BY <2>0, <2>1, SameCounts DEF SeqInv
  <2>2. CASE ring # <<>> /\ told' = Leaves(Head(ring)) /\ ring' = Tail(ring)
    <3>1. ring \in Seq(Events) /\ Head(ring) \in Events
      BY <1>0, <2>2, HeadTailProperties DEF Shape
    <3>2. \A g \in Fns : told'[g].subs = told[g].subs
      BY <1>0, <2>2, <3>1, LeavesIs
    <3>3. /\ \A i \in DOMAIN ring' : ring'[i].sub <= told'[ring'[i].fn].subs
          /\ \A f \in Fns : fn[f].on => Counted(ring', f, told[f].subs, fn[f].seq, told'[f].past)
      BY <1>0, <2>2, HeadGoneCounts
    <3>4. \A f \in Fns : (fn[f].on => Counted(ring, f, told[f].subs, fn[f].seq, told[f].past))'
      BY <2>0, <3>2, <3>3 DEF Counted, Of
    <3> QED BY <2>0, <3>3, <3>4 DEF SeqInv
  <2> QED BY <1>2, <2>1, <2>2 DEF sendEvents
<1>3. ASSUME NEW f \in Fns, PushFn(f) PROVE SeqInv'
  <2>1. Drawn(f).seq = fn[f].seq /\ Drawn(f).on = fn[f].on /\ Drawn(f) \in FnState
    <3>1. fn[f] \in FnState
      BY <1>s
    <3> QED BY <1>0, <3>1, DrawnIsAState DEF Drawn, FnState
  <2>2. ASSUME ring' = ring, told' = told, data' = data,
               NEW s, fn' = [fn EXCEPT ![f] = s], s.seq = fn[f].seq, s.on => fn[f].on
        PROVE  SeqInv'
    <3>1. \A g \in Fns : fn'[g].seq = fn[g].seq /\ (fn'[g].on => fn[g].on)
      BY <1>s, <2>2
    <3> QED BY <1>s, <2>2, <3>1, SameCounts
  <2>3. CASE Hold(f)
    <3>1. ring' = ring /\ told' = told /\ data' = data
      BY <2>3 DEF Hold, ghost
    <3>2. CASE fn' = fn
      BY <1>s, <3>1, <3>2, SameCounts
    <3>3. CASE fn' = [fn EXCEPT ![f].waiting = FALSE]
      <4>1. \A g \in Fns : fn'[g].seq = fn[g].seq /\ (fn'[g].on => fn[g].on)
        BY <1>s, <3>3 DEF FnState
      <4> QED BY <1>s, <3>1, <4>1, SameCounts
    <3>4. CASE fn' = [fn EXCEPT ![f].waiting = TRUE,
                                ![f].waited = IF fn[f].waiting THEN @ ELSE 0]
      <4>1. \A g \in Fns : fn'[g].seq = fn[g].seq /\ (fn'[g].on => fn[g].on)
        BY <1>s, <3>4 DEF FnState
      <4> QED BY <1>s, <3>1, <4>1, SameCounts
    <3> QED BY <2>3, <3>2, <3>3, <3>4 DEF Hold
  <2>4. CASE Full(f)
    <3>1. ring' = ring /\ told' = told /\ data' = data /\ fn' = [fn EXCEPT ![f] = Drawn(f)]
      BY <2>4 DEF Full
    <3> HIDE DEF Drawn
    <3> QED BY <2>1, <2>2, <3>1
  <2>5. CASE Empty(f)
    <3> DEFINE s == IF Drawn(f).draining > 0 /\ data[f] = 0
                    THEN [Drawn(f) EXCEPT !.draining = 0, !.waiting = FALSE]
                    ELSE Drawn(f)
    <3>1. ring' = ring /\ told' = told /\ data' = data /\ fn' = [fn EXCEPT ![f] = s]
      BY <2>5 DEF Empty
    <3>2. s.seq = fn[f].seq /\ (s.on => fn[f].on)
      BY <2>1 DEF FnState
    <3> HIDE DEF s
    <3> QED BY <2>2, <3>1, <3>2
  <2>6. CASE Pull(f)
    <3>1. PICK n \in 1 .. data[f] :
            /\ data' = [data EXCEPT ![f] = @ - n]
            /\ fn' = [fn EXCEPT ![f] = Drained(Drawn(f), n)]
      BY <2>6 DEF Pull
    <3>2. told' = [told EXCEPT ![f].past = After(@, 1)] /\ ring' = ring /\ fn[f].on
      BY <2>6 DEF Pull, Goes
    <3>3. data' \in [Fns -> 0 .. MaxData] /\ MaxData # 0
      <4>1. data[f] \in 0 .. MaxData /\ data[f] - n \in 0 .. MaxData
        BY <1>s
      <4> QED BY <1>s, <3>1, <4>1
    <3>4. Wraps
      BY <3>3, NotifyAssumption
    <3>5. /\ \A g \in Fns \ {f} : fn'[g] = fn[g] /\ told'[g] = told[g]
          /\ told'[f].subs = told[f].subs /\ told'[f].past = After(told[f].past, 1)
      <4> HIDE DEF After, Drained, Drawn
      <4> QED BY <1>s, <3>1, <3>2
    <3>6. fn'[f].seq = After(fn[f].seq, 1)
      <4>1. fn'[f] = Drained(Drawn(f), n)
        BY <1>s, <3>1
      <4>2. Drained(Drawn(f), n).seq = After(Drawn(f).seq, 1)
        <5> HIDE DEF After, Drawn
        <5> QED BY <2>1 DEF Drained, FnState
      <4> QED BY <2>1, <4>1, <4>2
    <3>7. Counted(ring, f, told[f].subs, After(fn[f].seq, 1), After(told[f].past, 1))
      <4>1. Counted(ring, f, told[f].subs, fn[f].seq, told[f].past) /\ ring \in Seq(Events)
        BY <1>0, <3>2 DEF SeqInv, Shape
      <4> QED BY <1>s, <3>4, <4>1, SkippedCounted
    <3>8. \A g \in Fns : told'[g].subs = told[g].subs
      BY <3>5
    <3>9. ASSUME NEW g \in Fns
          PROVE  /\ fn'[g].seq \in 0 .. SeqTurn - 1
                 /\ fn'[g].on => Counted(ring, g, told'[g].subs, fn'[g].seq, told'[g].past)
      <4>1. CASE g = f
        BY <1>s, <3>5, <3>6, <3>7, <4>1, CountedOn
      <4>2. CASE g # f
        BY <3>5, <4>2 DEF SeqInv
      <4> QED BY <4>1, <4>2
    <3>10. \A i \in DOMAIN ring : ring[i].sub <= told'[ring[i].fn].subs
      BY <1>0, <3>8, EventsAre DEF SeqInv, Shape
    <3>11. \A g \in Fns : (fn[g].on => Counted(ring, g, told[g].subs, fn[g].seq, told[g].past))'
      BY <3>2, <3>9 DEF Counted, Of
    <3> QED BY <3>2, <3>3, <3>9, <3>10, <3>11 DEF SeqInv
  <2> QED BY <1>3, <2>3, <2>4, <2>5, <2>6 DEF PushFn
<1> QED BY <1>1, <1>2, <1>3 DEF Push

(* What the interface lost itself takes a number too.                      *)
LEMMA LostCounts ==
  ASSUME Shape, SeqInv, NEW f \in Fns, eventsLost(f)
  PROVE  SeqInv'
<1>s. /\ fn \in [Fns -> FnState] /\ told \in [Fns -> [subs : Int, past : Int]]
      /\ \A g \in Fns : fn[g].seq \in Int /\ told[g].past \in Int
      /\ ring \in Seq(Events)
  BY DEF Shape, FnState
<1>1. /\ fn[f].on /\ CanTake(f) /\ ring' = ring /\ data' = data
      /\ fn' = [fn EXCEPT ![f].seq = After(@, 1)]
      /\ told' = [told EXCEPT ![f].past = After(@, 1)]
  BY DEF eventsLost
<1>2. /\ \A g \in Fns \ {f} : fn'[g] = fn[g] /\ told'[g] = told[g]
      /\ fn'[f].seq = After(fn[f].seq, 1)
      /\ told'[f].subs = told[f].subs /\ told'[f].past = After(told[f].past, 1)
  <2> HIDE DEF After
  <2> QED BY <1>s, <1>1 DEF FnState
<1>3. ~Wraps => fn[f].seq \in 0 .. SeqTurn - 2
  <2>1. fn[f].seq \in 0 .. SeqTurn - 1
    BY DEF SeqInv
  <2>2. ~Wraps => fn[f].seq < SeqTurn - 1
    BY <1>1 DEF CanTake
  <2> DEFINE n == fn[f].seq
  <2>3. n \in 0 .. SeqTurn - 1 /\ (~Wraps => n < SeqTurn - 1) /\ SeqTurn \in Nat
    BY <2>1, <2>2, NotifyAssumption
  <2> HIDE DEF n
  <2>4. ~Wraps => n \in 0 .. SeqTurn - 2
    BY ONLY <2>3
  <2> QED BY <2>4 DEF n
<1>4. Counted(ring, f, told[f].subs, After(fn[f].seq, 1), After(told[f].past, 1))
  <2>1. Counted(ring, f, told[f].subs, fn[f].seq, told[f].past)
    BY <1>1 DEF SeqInv
  <2> QED BY <1>s, <1>3, <2>1, SkippedCounted
<1>5. \A g \in Fns : told'[g].subs = told[g].subs
  BY <1>2
<1>6. ASSUME NEW g \in Fns
      PROVE  /\ fn'[g].seq \in 0 .. SeqTurn - 1
             /\ fn'[g].on => Counted(ring, g, told'[g].subs, fn'[g].seq, told'[g].past)
  <2>1. CASE g = f
    BY <1>s, <1>2, <1>4, <2>1, CountedOn
  <2>2. CASE g # f
    BY <1>2, <2>2 DEF SeqInv
  <2> QED BY <2>1, <2>2
<1>7. \A i \in DOMAIN ring : ring[i].sub <= told'[ring[i].fn].subs
  BY <1>s, <1>5, EventsAre DEF SeqInv
<1>8. \A g \in Fns : (fn[g].on => Counted(ring, g, told[g].subs, fn[g].seq, told[g].past))'
  BY <1>1, <1>6 DEF Counted, Of
<1> QED BY <1>1, <1>6, <1>7, <1>8 DEF SeqInv

(* Every step keeps the count.                                             *)
LEMMA StepCounts == IInv /\ SeqInv /\ [Next]_vars => SeqInv'
<1> SUFFICES ASSUME IInv, SeqInv, [Next]_vars PROVE SeqInv'
  OBVIOUS
<1>0. Shape
  BY DEF IInv
<1>s. fn \in [Fns -> FnState] /\ data \in [Fns -> 0 .. MaxData] /\ MaxData \in Nat
  BY <1>0, NotifyAssumption DEF Shape, SeqInv
<1>1. ASSUME NEW r \in Routes, Asks(r) PROVE SeqInv'
  BY <1>1, AsksCount
<1>2. CASE lapse
  BY <1>0, <1>2, EndedCounts DEF lapse, ghost
<1>3. CASE Tick
  <2>1. ring' = ring /\ told' = told /\ data' = data
    BY <1>3 DEF Tick, ghost
  <2>2. ASSUME NEW f \in Fns PROVE fn'[f].seq = fn[f].seq /\ (fn'[f].on => fn[f].on)
    <3>1. fn'[f] = IF fn[f].waiting /\ fn[f].waited < MaxDelay
                     THEN [fn[f] EXCEPT !.waited = @ + 1] ELSE fn[f]
      BY <1>3 DEF Tick
    <3>2. fn[f] \in FnState
      BY <1>s
    <3> QED BY <3>1, <3>2 DEF FnState
  <2> QED BY <1>s, <2>1, <2>2, SameCounts
<1>4. CASE Push
  BY <1>4, PushCounts
<1>5. ASSUME NEW f \in Fns, event(f) PROVE SeqInv'
  BY <1>0, <1>5, EventCounts
<1>6. ASSUME NEW f \in Fns, eventsLost(f) PROVE SeqInv'
  BY <1>0, <1>6, LostCounts
<1>7. ASSUME NEW f \in Fns, Arrive(f) PROVE SeqInv'
  <2>1. data[f] < MaxData /\ data' = [data EXCEPT ![f] = @ + 1]
        /\ fn' = fn /\ ring' = ring /\ told' = told
    BY <1>7 DEF Arrive, ghost
  <2>2. data' \in [Fns -> 0 .. MaxData]
    BY <1>s, <2>1
  <2> QED BY <2>1, <2>2, SameCounts
<1>8. ASSUME NEW r \in Routes, Drain(r) \/ Close(r) \/ Accept(r) PROVE SeqInv'
  <2>1. fn' = fn /\ ring' = ring /\ told' = told /\ data' = data
    BY <1>8 DEF Drain, Close, Accept, ghost
  <2> QED BY <1>s, <2>1, SameCounts
<1>9. CASE UNCHANGED vars
  <2>1. fn' = fn /\ ring' = ring /\ told' = told /\ data' = data
    BY <1>9 DEF vars, state, ghost
  <2> QED BY <1>s, <2>1, SameCounts
<1> QED
  BY <1>1, <1>2, <1>3, <1>4, <1>5, <1>6, <1>7, <1>8, <1>9 DEF Next

(* A host that is told seqs can count what it never got: they are what was *)
(* sent, what still waits and what was lost, modulo the u16's turn, through*)
(* every overflow of the ring and every new subscription (takeSeq).        *)
THEOREM HostsCanCount == Spec => []SeqsTell
<1>1. Init => SeqInv
  <2> SUFFICES ASSUME Init PROVE SeqInv
    OBVIOUS
  <2>1. data \in [Fns -> 0 .. MaxData] /\ DOMAIN ring = {}
    BY NotifyAssumption DEF Init
  <2>2. \A f \in Fns : fn[f].seq = 0 /\ ~fn[f].on
    BY DEF Init, Fresh
  <2> QED BY <2>1, <2>2, NotifyAssumption DEF SeqInv
<1>2. Init => IInv
  BY NotifyAssumption, InitSpeaks
<1>3. IInv /\ [Next]_vars => IInv'
  BY NotifyAssumption, StepSpeaks
<1>4. IInv /\ SeqInv => SeqsTell
  BY CountTells DEF IInv
<1> QED
  BY <1>1, <1>2, <1>3, <1>4, StepCounts, PTL DEF Spec
=============================================================================
