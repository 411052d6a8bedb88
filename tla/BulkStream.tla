------------------------------ MODULE BulkStream ------------------------------
(***************************************************************************)
(* The vendor bulk stream of a direct USB build                            *)
(* (src/src/OepDirectBulkStream.h): loop() writes result frames into one   *)
(* of two buffers and flush() hands that buffer over; any task queues data *)
(* buffers; one IN transfer is in flight at a time and the next is armed   *)
(* where the last one completed (usbd task) or where something was queued. *)
(*                                                                         *)
(* A frame is its number and its size; sizes are counted in units of which *)
(* Packet make a USB packet and Space fill a buffer.  A critical section   *)
(* is one step.  The bytes of a transfer are read when the host takes it.  *)
(***************************************************************************)
EXTENDS Integers, Sequences

CONSTANTS
  Stages,      \* the data buffers of the interfaces that queue them
  Sizes,       \* frame sizes, their length included
  Space,       \* kResultBytes - 64
  Packet,      \* kPacket
  Queue,       \* kQueue
  MaxFrames    \* bound: the frames written

BulkAssumption ==
  /\ Space \in Nat \ {0} /\ Packet \in Nat \ {0} /\ Queue \in Nat
  /\ Queue >= 4      \* two entries for each of the two buffers
  /\ Sizes \subseteq 1 .. Space /\ MaxFrames \in Nat

VARIABLES
  mem, tail, len, busy, cur,    \* result_, tail_, length_, busy_, current_
  results, dataQ,               \* the two queues
  inFlight, sending,            \* in_flight_, sending_
  kick,                         \* where each task is in kick() or completed()
  onBus,                        \* EspUsbDevice's transfer, external
  mounted,
  lpc, frame, back, wrote, stalled, dropped,   \* loop()
  lent,                         \* the stages their owner waits for
  host                          \* what came out of IN

buffers == <<mem, tail, len, busy, cur>>
queues  == <<results, dataQ>>
loopAt  == <<lpc, frame, back, wrote>>
bulkVars == <<buffers, queues, inFlight, sending, kick, onBus, mounted, loopAt,
              stalled, dropped, lent, host>>

Kickers == {"loop", "task", "usbd"}
NoEntry == [kind |-> "none"]
\* An Entry: a buffer's bytes, with resultSent or without; a tail's; a stage's
Whole(i, n) == [kind |-> "whole", buffer |-> i, length |-> n]
Most(i, n)  == [kind |-> "most", buffer |-> i, length |-> n]
Last(i)     == [kind |-> "last", buffer |-> i, length |-> 1]
Stage(s)    == [kind |-> "stage", stage |-> s]

No == [at |-> "no", entry |-> NoEntry]
Arm == [at |-> "arm", entry |-> NoEntry]

BulkInit ==
  /\ mem = [i \in {0, 1} |-> <<>>] /\ tail = [i \in {0, 1} |-> <<>>]
  /\ len = [i \in {0, 1} |-> 0] /\ busy = [i \in {0, 1} |-> FALSE] /\ cur = 0
  /\ results = <<>> /\ dataQ = <<>> /\ inFlight = FALSE /\ sending = NoEntry
  /\ kick = [t \in Kickers |-> No] /\ onBus = NoEntry /\ mounted = TRUE
  /\ lpc = "idle" /\ frame = [id |-> 0, size |-> 0] /\ back = "idle" /\ wrote = FALSE
  /\ stalled = FALSE /\ dropped = 0 /\ lent = {}
  /\ host = [id |-> 0, at |-> 0, half |-> FALSE, again |-> FALSE, split |-> FALSE]
-----------------------------------------------------------------------------
(* loop(): write() of a frame and flush().                                  *)

\* a frame's length arrived: is there room for the whole of it?
Write == /\ lpc = "idle" /\ frame.id < MaxFrames
         /\ \E z \in Sizes : frame' = [id |-> frame.id + 1, size |-> z]
         /\ lpc' = "room" /\ wrote' = TRUE
         /\ UNCHANGED <<buffers, queues, inFlight, sending, kick, onBus, mounted, back,
                        stalled, dropped, lent, host>>

Fits == len[cur] + frame.size <= Space

\* the frame's bytes after the buffer's; what an earlier use left lies behind
Put(i) ==
  LET old == mem[i]
      new == [k \in 1 .. frame.size |-> [id |-> frame.id, at |-> k, of |-> frame.size]]
      cut == len[i] + frame.size
  IN  SubSeq(old, 1, len[i]) \o new \o SubSeq(old, cut + 1, Len(old))

\* Mutant: room() looks at the length only, not whether the buffer is in flight.
RoomUnwaited ==
  /\ lpc \in {"room", "again"}
  /\ Fits /\ mem' = [mem EXCEPT ![cur] = Put(cur)]
  /\ len' = [len EXCEPT ![cur] = @ + frame.size] /\ lpc' = "idle"
  /\ UNCHANGED <<tail, busy, cur, queues, inFlight, sending, kick, onBus, mounted, frame,
                 back, wrote, stalled, dropped, lent, host>>

Room ==
  /\ lpc \in {"room", "again"} /\ ~busy[cur]
  /\ \/ /\ Fits \/ lpc = "again"
        /\ mem' = [mem EXCEPT ![cur] = Put(cur)]
        /\ len' = [len EXCEPT ![cur] = @ + frame.size]
        /\ lpc' = "idle" /\ UNCHANGED back
     \/ /\ ~Fits /\ lpc = "room"
        /\ lpc' = "flush" /\ back' = "again" /\ UNCHANGED <<mem, len>>
  /\ UNCHANGED <<tail, busy, cur, queues, inFlight, sending, kick, onBus, mounted, frame,
                 wrote, stalled, dropped, lent, host>>

\* waitWritable gives up: not mounted, stalled already, or kWaitMs went by (in
\* which every other task came to rest)
DropFrame ==
  /\ lpc \in {"room", "again"} /\ busy[cur]
  /\ ~mounted \/ stalled \/ \A t \in Kickers : kick[t] = No
  /\ stalled' = TRUE /\ dropped' = 1 /\ lpc' = "idle"
  /\ UNCHANGED <<buffers, queues, inFlight, sending, kick, onBus, mounted, frame, back,
                 wrote, lent, host>>

\* the endpoint's flush after what it served
FlushAsked == /\ lpc = "idle" /\ wrote /\ wrote' = FALSE
              /\ lpc' = "flush" /\ back' = "idle"
              /\ UNCHANGED <<buffers, queues, inFlight, sending, kick, onBus, mounted, frame,
                             stalled, dropped, lent, host>>

Queued(q, e) == IF Len(q) < Queue THEN Append(q, e) ELSE q

FlushNothing == /\ lpc = "flush" /\ len[cur] = 0 /\ lpc' = back
                /\ UNCHANGED <<buffers, queues, inFlight, sending, kick, onBus, mounted, frame,
                               back, wrote, stalled, dropped, lent, host>>

\* a whole number of packets: all but the last byte, then that byte alone
Flush ==
  /\ lpc = "flush" /\ len[cur] # 0
  /\ busy' = [busy EXCEPT ![cur] = TRUE] /\ cur' = 1 - cur
  /\ IF len[cur] % Packet = 0
     THEN /\ tail' = [tail EXCEPT ![cur] = <<mem[cur][len[cur]]>>]
          /\ results' = Queued(results, Most(cur, len[cur] - 1))
          /\ lpc' = "tail" /\ UNCHANGED kick
     ELSE /\ results' = Queued(results, Whole(cur, len[cur]))
          /\ lpc' = "kick" /\ kick' = [kick EXCEPT !["loop"] = Arm]
          /\ UNCHANGED tail
  /\ UNCHANGED <<mem, len, dataQ, inFlight, sending, onBus, mounted, frame, back, wrote,
                 stalled, dropped, lent, host>>

FlushTail == /\ lpc = "tail" /\ lpc' = "kick"
             /\ results' = Queued(results, Last(1 - cur))
             /\ kick' = [kick EXCEPT !["loop"] = Arm]
             /\ UNCHANGED <<buffers, dataQ, inFlight, sending, onBus, mounted, frame, back,
                            wrote, stalled, dropped, lent, host>>

Kicked == /\ lpc = "kick" /\ kick["loop"] = No /\ lpc' = back
          /\ UNCHANGED <<buffers, queues, inFlight, sending, kick, onBus, mounted, frame, back,
                         wrote, stalled, dropped, lent, host>>
-----------------------------------------------------------------------------
(* Any task.                                                                *)

\* queueData: false when the queue is full
QueueData(s) ==
  /\ kick["task"] = No /\ s \notin lent /\ Len(dataQ) < Queue
  /\ dataQ' = Append(dataQ, Stage(s)) /\ lent' = lent \union {s}
  /\ kick' = [kick EXCEPT !["task"] = Arm]
  /\ UNCHANGED <<buffers, results, inFlight, sending, onBus, mounted, loopAt,
                 stalled, dropped, host>>

Nothing == inFlight \/ (results = <<>> /\ dataQ = <<>>)

KickNothing(t) == /\ kick[t] = Arm /\ Nothing /\ kick' = [kick EXCEPT ![t] = No]
                  /\ UNCHANGED <<buffers, queues, inFlight, sending, onBus, mounted, loopAt,
                                 stalled, dropped, lent, host>>

Take(t, e) == /\ inFlight' = TRUE /\ sending' = e
              /\ kick' = [kick EXCEPT ![t] = [at |-> "write", entry |-> e]]

KickArm(t) ==
  /\ kick[t] = Arm /\ ~Nothing
  /\ IF results # <<>>
     THEN Take(t, Head(results)) /\ results' = Tail(results) /\ UNCHANGED dataQ
     ELSE Take(t, Head(dataQ)) /\ dataQ' = Tail(dataQ) /\ UNCHANGED results
  /\ UNCHANGED <<buffers, onBus, mounted, loopAt, stalled, dropped, lent, host>>

\* writeDirect takes it, or refuses: the buffer is given back unsent
KickWrite(t) ==
  /\ kick[t].at = "write"
  /\ IF mounted
     THEN /\ onBus' = kick[t].entry /\ kick' = [kick EXCEPT ![t] = No]
          /\ UNCHANGED inFlight
     ELSE /\ inFlight' = FALSE /\ UNCHANGED onBus
          /\ kick' = [kick EXCEPT ![t].at = "done"]
  /\ UNCHANGED <<buffers, queues, sending, mounted, loopAt, stalled, dropped, lent, host>>

\* Mutant: after a refusal the rest of the queue is left as it is.
GiveBackStops(t) ==
  /\ kick[t].at = "done" /\ kick' = [kick EXCEPT ![t] = No]
  /\ LET e == kick[t].entry
         sent == e.kind \in {"whole", "last"}
     IN  /\ len' = (IF sent THEN [len EXCEPT ![e.buffer] = 0] ELSE len)
         /\ busy' = (IF sent THEN [busy EXCEPT ![e.buffer] = FALSE] ELSE busy)
         /\ stalled' = (stalled /\ ~sent)
         /\ lent' = (IF e.kind = "stage" THEN lent \ {e.stage} ELSE lent)
  /\ UNCHANGED <<mem, tail, cur, queues, inFlight, sending, onBus, mounted, loopAt, dropped,
                 host>>

\* the entry's done (resultSent, or the stage's owner), and on with the queue
GiveBack(t) ==
  /\ kick[t].at = "done" /\ kick' = [kick EXCEPT ![t] = Arm]
  /\ LET e == kick[t].entry
         sent == e.kind \in {"whole", "last"}
     IN  /\ len' = (IF sent THEN [len EXCEPT ![e.buffer] = 0] ELSE len)
         /\ busy' = (IF sent THEN [busy EXCEPT ![e.buffer] = FALSE] ELSE busy)
         /\ stalled' = (stalled /\ ~sent)
         /\ lent' = (IF e.kind = "stage" THEN lent \ {e.stage} ELSE lent)
  /\ UNCHANGED <<mem, tail, cur, queues, inFlight, sending, onBus, mounted, loopAt, dropped,
                 host>>
-----------------------------------------------------------------------------
(* The host and EspUsbDevice, external.                                     *)

Bytes(e) == CASE e.kind \in {"whole", "most"} -> SubSeq(mem[e.buffer], 1, e.length)
              [] e.kind = "last" -> tail[e.buffer]
              [] OTHER -> <<>>

\* the host's frames: a byte goes on where the frame stands; a frame comes after the last
Goes(p, b) == b.at = p.at + 1 /\ (p.at # 0 => b.id = p.id)
Anew(p, b) == p.at = 0 => b.id > p.id
After(b) == [id |-> b.id, at |-> IF b.at = b.of THEN 0 ELSE b.at]
Heard(h, bytes) ==
  LET p(k) == IF k = 1 THEN h ELSE After(bytes[k - 1])
  IN  IF bytes = <<>> THEN h
      ELSE [h EXCEPT !.id = bytes[Len(bytes)].id, !.at = After(bytes[Len(bytes)]).at,
                     !.half = @ \/ \E k \in 1 .. Len(bytes) : ~Goes(p(k), bytes[k]),
                     !.again = @ \/ \E k \in 1 .. Len(bytes) : ~Anew(p(k), bytes[k])]

Completed ==
  /\ onBus # NoEntry /\ kick["usbd"] = No
  /\ onBus' = NoEntry /\ inFlight' = FALSE
  /\ kick' = [kick EXCEPT !["usbd"] = [at |-> "done", entry |-> sending]]
  /\ host' = (IF ~mounted THEN host
              ELSE IF onBus.kind = "stage" THEN [host EXCEPT !.split = @ \/ host.at # 0]
              ELSE Heard(host, Bytes(onBus)))
  /\ UNCHANGED <<buffers, queues, sending, mounted, loopAt, stalled, dropped, lent>>

\* the cable; the driver gives back what was on the bus, and a plug takes
\* longer than kick() takes to refuse what is queued
Unplug == /\ mounted /\ mounted' = FALSE
          /\ host' = [host EXCEPT !.at = 0]
          /\ UNCHANGED <<buffers, queues, inFlight, sending, kick, onBus, loopAt,
                         stalled, dropped, lent>>
Plug == /\ ~mounted /\ mounted' = TRUE
        /\ results = <<>> /\ dataQ = <<>> /\ ~inFlight /\ lpc # "tail"
        /\ UNCHANGED <<buffers, queues, inFlight, sending, kick, onBus, loopAt,
                       stalled, dropped, lent, host>>
-----------------------------------------------------------------------------
BulkNext ==
  \/ Write \/ Room \/ DropFrame \/ FlushAsked \/ FlushNothing \/ Flush \/ FlushTail \/ Kicked
  \/ \E s \in Stages : QueueData(s)
  \/ \E t \in Kickers : KickNothing(t) \/ KickArm(t) \/ KickWrite(t) \/ GiveBack(t)
  \/ Completed \/ Unplug \/ Plug

BulkSpec == BulkInit /\ [][BulkNext]_bulkVars

\* tasks run on; the host takes what is on the bus
BulkFairness ==
  /\ WF_bulkVars(Flush \/ FlushNothing \/ FlushTail \/ Kicked)
  /\ \A t \in Kickers : WF_bulkVars(KickNothing(t) \/ KickArm(t) \/ KickWrite(t) \/ GiveBack(t))
  /\ WF_bulkVars(Completed)
-----------------------------------------------------------------------------
Holders == {t \in Kickers : kick[t].at = "write"}

\* At most one transfer is armed or on the bus, and it is the one noted in
\* sending_: completed() gives back the buffer that went (kick, completed).
OneInFlight ==
  /\ \A t, u \in Holders : t = u
  /\ onBus # NoEntry => Holders = {} /\ sending = onBus
  /\ inFlight <=> onBus # NoEntry \/ Holders # {}

\* As long as no frame was dropped, what comes out of IN is whole frames in
\* the order they were written, each once (write, room, flush, resultSent).
WholeInOrder == dropped = 0 => ~host.half /\ ~host.again

\* Both: the buffer that is given back is the one the host got.
FramesGoOnce == OneInFlight /\ WholeInOrder

\* Results stop coming: kick() takes them first, so as long as one waits at
\* every kick() no stage goes.
ResultsEnd == <>[](results = <<>>)

\* Once results stop coming, a queued stage comes back, whatever went before and
\* whatever the cable and the other tasks do (kick goes on after a refusal and
\* after a completion).
GivenBack == ResultsEnd => \A s \in Stages : s \in lent ~> s \notin lent

\* What the comment over write() says: a frame goes into one buffer whole or is
\* dropped whole, never half a frame (flush after a dropped frame).
NeverHalfAFrame == ~host.half

\* What the file's head says: results go before queued data (flush's two queue calls).
ResultsBeforeData == ~host.split
=============================================================================
