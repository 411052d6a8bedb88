-------------------------------- MODULE UartRx --------------------------------
(***************************************************************************)
(* A fixture UART's receive on the ESP32: the driver's interrupt, the task *)
(* that takes its events into a UartRxLedger, and loop(), which reads the  *)
(* driver's ring and marks where bytes were lost                           *)
(* (src/src/OepUartRx.h, FixtureUart in src/src/OepFixture.cpp).           *)
(*                                                                         *)
(* A place is a count of bytes received.  The interrupt and the task share *)
(* a core, loop() has the other.  A loss is [at, bad]: the place of the    *)
(* first byte after it, and whether it is a bad byte kept or bytes gone.   *)
(* "of", in an event or a place of the ledger, names the losses it tells   *)
(* of: it is there for the properties alone.                               *)
(***************************************************************************)
EXTENDS Integers, Sequences, FiniteSets

CONSTANTS
  Chunks,        \* how many bytes one interrupt reads
  QueueLength,   \* the driver's event queue: 20
  Losses,        \* kLosses
  Pending,       \* kPending
  Every,         \* events taken before a queue that never empties is published: 16
  MaxBytes,      \* bound: bytes the line brings in one run of the UART
  MaxLosses      \* bound: losses of one run

UartAssumption ==
  /\ Chunks \subseteq Nat
  /\ QueueLength \in Nat \ {0} /\ Losses \in Nat /\ Pending \in Nat /\ Every \in Nat
  /\ MaxBytes \in Nat /\ MaxLosses \in Nat

VARIABLES
  received, losses,    \* bytes in or through the driver's ring; their losses
  events, unsaid,      \* the driver's queue; losses whose event found it full
  tpc, got, unpublished, sawTaken, sawHeld,             \* the task
  pushed, chunk, suspect, suspected, hold, ring, limit, \* UartRxLedger
  blind,               \* what the ledger has no guard against, once it happened
  stopping,            \* stopEvents()
  rpc, rlimit, pending, taken, marked                   \* loop(); the losses marked in time

driverVars == <<received, losses, events, unsaid>>
taskVars   == <<tpc, got, unpublished, sawTaken, sawHeld>>
ledgerVars == <<pushed, chunk, suspect, suspected, hold, limit>>
readVars   == <<rlimit, pending, taken, marked>>
pollVars   == <<stopping, rpc, readVars>>
uartVars   == <<driverVars, taskVars, ledgerVars, ring, blind, pollVars>>

Place(p, of) == [at |-> p, of |-> of]
None == Place(-1, {})              \* held_ is false
Quiet == [kind |-> "none", size |-> 0, of |-> {}]
Least(a, b) == IF a < b THEN a ELSE b

UartInit ==
  /\ received = 0 /\ losses = {} /\ events = <<>> /\ unsaid = {}
  /\ tpc = "take" /\ got = Quiet /\ unpublished = 0 /\ sawTaken = 0 /\ sawHeld = 0
  /\ pushed = 0 /\ chunk = 0 /\ suspect = 0 /\ suspected = FALSE
  /\ hold = None /\ ring = <<>> /\ limit = 0 /\ blind = {}
  /\ stopping = FALSE /\ rpc = "look" /\ rlimit = 0 /\ pending = <<>> /\ taken = 0 /\ marked = {}
-----------------------------------------------------------------------------
(* The driver's interrupt, external: the batch it read, then what it lost;  *)
(* an event that finds the queue full is dropped.                          *)
Data(n)    == [kind |-> "data", size |-> n, of |-> {}]
Lost(k, l) == [kind |-> k, size |-> 0, of |-> {l}]

Post(es) ==
  LET fit == Least(Len(es), QueueLength - Len(events)) IN
  /\ events' = events \o SubSeq(es, 1, fit)
  /\ unsaid' = unsaid \union UNION {es[k].of : k \in fit + 1 .. Len(es)}

\* the queue is full once more, with a drop of before not yet placed
Refills ==
  /\ unsaid # {} /\ Len(events') > Len(events)
  /\ Len(events') + (IF tpc = "count" THEN 1 ELSE 0) >= QueueLength

Batch(n, says) ==
  /\ received + n <= MaxBytes
  /\ received' = received + n
  /\ Post((IF n = 0 THEN <<>> ELSE <<Data(n)>>) \o says)
  /\ blind' = blind \union (IF \E l \in unsaid' \ unsaid : l.bad THEN {"bad"} ELSE {})
                    \union (IF Refills THEN {"refilled"} ELSE {})
  /\ UNCHANGED <<taskVars, ledgerVars, ring, pollVars>>

\* the receive FIFO read into the ring, or into the stash when that is full
Arrive == \E n \in Chunks : Batch(n, <<>>) /\ UNCHANGED losses

Lose(l) == l \notin losses /\ Cardinality(losses) < MaxLosses /\ losses' = losses \union {l}

\* the FIFO overflowed: reset after it was read, so the gap is after what was received
Overflow == \E n \in Chunks \union {0} :
  LET l == [at |-> received + n, bad |-> FALSE] IN
  Lose(l) /\ Batch(n, <<Lost("overflow", l)>>)

\* a framing or parity error or a break: a byte of what was read, or the next one
BadByte == \E n \in Chunks \union {0} : \E p \in received + 1 .. received + n + 1 :
  LET l == [at |-> p, bad |-> TRUE] IN
  Lose(l) /\ Batch(n, <<Lost("bad", l)>>)
-----------------------------------------------------------------------------
(* UartRxLedger                                                            *)
room(r) == Len(r) < Losses

\* add(): a loss the ring has no room for is held, and those after it merge into it
add(l, p) ==
  LET free == l.hold = None \/ room(l.ring)
      r == IF l.hold # None /\ room(l.ring) THEN Append(l.ring, l.hold) ELSE l.ring IN
  IF ~free THEN [l EXCEPT !.hold = Place(Least(@.at, p.at), @.of \union p.of)]
  ELSE IF room(r) THEN [l EXCEPT !.ring = Append(r, p), !.hold = None]
       ELSE [l EXCEPT !.ring = r, !.hold = p]

\* bad(): the last chunk, unless the reader may be past it
bad == IF chunk < limit THEN limit ELSE chunk

\* Mutant: one event short of a full queue is not looked for.
queueFullLate(queued) == IF queued > QueueLength /\ queued > suspect THEN queued ELSE suspect

\* queueFull(): the events to count before the drop's place is known
queueFull(queued) == IF queued >= QueueLength /\ queued > suspect THEN queued ELSE suspect

\* event(): s: the events still to count before a full queue's drop is placed
event(e, s) ==
  LET more == IF e.kind = "data" THEN pushed + e.size ELSE pushed
      now == [hold |-> hold, ring |-> ring]
      told == CASE e.kind = "overflow" -> add(now, Place(pushed, e.of))
                [] e.kind = "bad"      -> add(now, Place(bad, e.of))
                [] OTHER               -> now
      end == IF s = 1 THEN add(told, Place(more, unsaid)) ELSE told IN
  /\ pushed' = more
  /\ chunk' = IF e.kind = "data" THEN pushed ELSE chunk
  /\ suspect' = IF s = 0 THEN 0 ELSE s - 1
  /\ suspected' = (suspected \/ s = 1)
  /\ unsaid' = IF s = 1 THEN {} ELSE unsaid
  /\ hold' = end.hold /\ ring' = end.ring

\* check(): events were dropped when more was received than counted
check(seen) ==
  LET dropped == seen > pushed
      end == IF dropped /\ ~suspected
               THEN add([hold |-> hold, ring |-> ring], Place(limit, unsaid))
               ELSE [hold |-> hold, ring |-> ring] IN
  /\ pushed' = IF dropped THEN seen ELSE pushed
  /\ chunk' = IF dropped THEN pushed ELSE chunk
  /\ unsaid' = IF dropped /\ ~suspected THEN {} ELSE unsaid
  /\ suspected' = FALSE
  /\ hold' = end.hold /\ ring' = end.ring

publish ==
  LET give == hold # None /\ room(ring) IN
  /\ ring' = IF give THEN Append(ring, hold) ELSE ring
  /\ hold' = IF give THEN None ELSE hold
  /\ limit' = IF hold # None /\ ~give THEN hold.at ELSE pushed
-----------------------------------------------------------------------------
(* FixtureUart::eventTask, on the interrupt's core: an event, how many wait *)
(* behind it, the reader's count and the driver's are each looked at at a   *)
(* moment of its own.                                                       *)
Receive ==
  /\ tpc = "take" /\ ~stopping /\ events # <<>>
  /\ got' = Head(events) /\ events' = Tail(events) /\ tpc' = "count"
  /\ UNCHANGED <<received, losses, unsaid, unpublished, sawTaken, sawHeld, ledgerVars,
                 ring, blind, pollVars>>

\* the event counted; the rest of the batch comes before anything is published
Count ==
  LET s == queueFull(Len(events) + 1) IN
  /\ tpc = "count" /\ got' = Quiet
  /\ event(got, s)
  /\ IF events # <<>> /\ unpublished + 1 < Every
       THEN tpc' = "take" /\ unpublished' = unpublished + 1
       ELSE tpc' = "taken" /\ unpublished' = 0
  /\ UNCHANGED <<received, losses, events, sawTaken, sawHeld, limit, blind, pollVars>>

\* xQueueReceive waited its 10 ms in vain
Waited ==
  /\ tpc = "take" /\ ~stopping /\ events = <<>> /\ tpc' = "taken" /\ unpublished' = 0
  /\ UNCHANGED <<driverVars, got, sawTaken, sawHeld, ledgerVars, ring, blind, pollVars>>

SeeTaken ==
  /\ tpc = "taken" /\ tpc' = "held" /\ sawTaken' = taken
  /\ UNCHANGED <<driverVars, got, unpublished, sawHeld, ledgerVars, ring, blind, pollVars>>

SeeHeld ==
  /\ tpc = "held" /\ tpc' = "check" /\ sawHeld' = received - taken
  /\ UNCHANGED <<driverVars, got, unpublished, sawTaken, ledgerVars, ring, blind, pollVars>>

Check ==
  /\ tpc = "check" /\ tpc' = "publish" /\ sawTaken' = 0 /\ sawHeld' = 0
  /\ IF events = <<>> THEN check(sawTaken + sawHeld)
     ELSE UNCHANGED <<pushed, chunk, suspected, unsaid, hold, ring>>
  /\ UNCHANGED <<received, losses, events, got, unpublished, suspect, limit, blind, pollVars>>

Publish ==
  /\ tpc = "publish" /\ tpc' = "take" /\ publish
  /\ blind' = blind \union IF events # <<>> THEN {"split"} ELSE {}
  /\ UNCHANGED <<driverVars, got, unpublished, sawTaken, sawHeld, pushed, chunk, suspect,
                 suspected, pollVars>>

\* stopping: what is queued is counted, a full queue no longer looked for
CountLast ==
  /\ tpc = "take" /\ stopping /\ events # <<>> /\ events' = Tail(events)
  /\ event(Head(events), suspect)
  /\ blind' = blind \union IF unsaid # {} THEN {"stopped"} ELSE {}
  /\ UNCHANGED <<received, losses, taskVars, limit, pollVars>>

PublishLast ==
  /\ tpc = "take" /\ stopping /\ events = <<>> /\ tpc' = "ended" /\ publish
  /\ UNCHANGED <<driverVars, got, unpublished, sawTaken, sawHeld, pushed, chunk, suspect,
                 suspected, blind, pollVars>>
-----------------------------------------------------------------------------
(* loop(): FixtureUart::poll, stopUart and begin                           *)
\* how many of the places of q are reached at p
reached(q, p) == CHOOSE n \in 0 .. Len(q) :
  (\A k \in 1 .. n : q[k].at <= p) /\ (n < Len(q) => q[n + 1].at > p)
before(q, p) == SubSeq(q, 1, reached(q, p))
after(q, p)  == SubSeq(q, reached(q, p) + 1, Len(q))

\* in the order of their places; full: merged into the last one
addPending(q, x) ==
  IF Len(q) < Pending THEN before(q, x.at) \o <<x>> \o after(q, x.at)
  ELSE [q EXCEPT ![Pending] = Place(Least(@.at, x.at), @.of \union x.of)]

\* the losses the marks of q at place p come in time for
InTime(q, p) == {l \in UNION {q[k].of : k \in 1 .. Len(q)} : p <= l.at}

Look ==
  /\ rpc = "look" /\ (~stopping \/ tpc = "ended")
  /\ rpc' = "drain" /\ rlimit' = limit
  /\ UNCHANGED <<driverVars, taskVars, ledgerVars, ring, blind, stopping, pending, taken, marked>>

Drain ==
  /\ rpc = "drain" /\ Len(pending) < Pending /\ ring # <<>>
  /\ pending' = addPending(pending, Head(ring)) /\ ring' = Tail(ring)
  /\ UNCHANGED <<driverVars, taskVars, ledgerVars, blind, stopping, rpc, rlimit, taken, marked>>

\* with no room left to wait in, the losses behind stay in the ledger
Drained ==
  /\ rpc = "drain" /\ (Len(pending) = Pending \/ ring = <<>>) /\ rpc' = "take"
  /\ blind' = blind \union IF ring # <<>> THEN {"piled"} ELSE {}
  /\ UNCHANGED <<driverVars, taskVars, ledgerVars, ring, stopping, readVars>>

\* placeDue(), then the bytes up to the next place, the limit or what the driver holds
Take ==
  LET rest == after(pending, taken)
      want == Least(IF rest = <<>> THEN rlimit ELSE Least(rlimit, rest[1].at), received) IN
  /\ rpc = "take"
  /\ marked' = marked \union InTime(before(pending, taken), taken)
  /\ pending' = rest
  /\ IF want > taken THEN taken' = want /\ UNCHANGED <<rpc, rlimit>>
     ELSE /\ UNCHANGED taken /\ rlimit' = 0
          /\ rpc' = IF stopping THEN "stopped" ELSE "look"
  /\ UNCHANGED <<driverVars, taskVars, ledgerVars, ring, blind, stopping>>

\* stopUart(): the event task ends, then one more poll
Stop ==
  /\ rpc = "look" /\ ~stopping /\ stopping' = TRUE
  /\ UNCHANGED <<driverVars, taskVars, ledgerVars, ring, blind, rpc, readVars>>

\* the places not reached are marked at the end
MarkRest ==
  /\ rpc = "stopped" /\ rpc' = "begin"
  /\ marked' = marked \union InTime(pending, taken) /\ pending' = <<>>
  /\ UNCHANGED <<driverVars, taskVars, ledgerVars, ring, blind, stopping, rlimit, taken>>

\* begin(): the driver, the ledger and the counts start again
Begin ==
  /\ rpc = "begin"
  /\ received' = 0 /\ losses' = {} /\ events' = <<>> /\ unsaid' = {}
  /\ tpc' = "take" /\ got' = Quiet /\ unpublished' = 0 /\ sawTaken' = 0 /\ sawHeld' = 0
  /\ pushed' = 0 /\ chunk' = 0 /\ suspect' = 0 /\ suspected' = FALSE
  /\ hold' = None /\ ring' = <<>> /\ limit' = 0 /\ blind' = {}
  /\ stopping' = FALSE /\ rpc' = "look" /\ rlimit' = 0 /\ pending' = <<>>
  /\ taken' = 0 /\ marked' = {}

UartNext ==
  \/ Arrive \/ Overflow \/ BadByte
  \/ Receive \/ Count \/ Waited \/ SeeTaken \/ SeeHeld \/ Check \/ Publish
  \/ CountLast \/ PublishLast
  \/ Look \/ Drain \/ Drained \/ Take \/ Stop \/ MarkRest \/ Begin

UartSpec == UartInit /\ [][UartNext]_uartVars
-----------------------------------------------------------------------------
Passed == {l \in losses : l.at < taken}

\* A byte after a loss is not read before the loss is marked, as long as the
\* queue never refilled before a drop was placed, no batch was published
\* halfway, no drop was left for stopEvents() to find, and no loss waited in the
\* ledger because loop() had no room for its place
\* (src/src/OepUartRx.h, the file's head; FixtureUart::poll).
LossMarked == blind = {} => Passed \subseteq marked
=============================================================================
