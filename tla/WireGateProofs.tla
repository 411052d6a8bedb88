---------------------------- MODULE WireGateProofs ----------------------------
(***************************************************************************)
(* No frame meets a read and no window samples with a frame in it, for any *)
(* number of frames, searches and windows.  The invariant says what each   *)
(* side may conclude of the other from the words it has loaded.            *)
(*                                                                         *)
(* The boot guard's safe boots come exactly when due, for every limit and  *)
(* time; and what comes out of the bulk stream is whole frames in order,   *)
(* for every frame size, buffer, packet and queue: the invariant says      *)
(* which entries are in the line, in which order, and where in the frames  *)
(* the host stands.                                                        *)
(***************************************************************************)
EXTENDS MCWireGate, SequenceTheorems, TLAPS

\* reading = 1 exactly where the sampler may read next
ReadingAgrees == (reading = 1) <=> (spc \in Reading \/ (spc = "open" /\ after = "yield"))

\* an acknowledged frame still on the line has the sampler stopped for it
AckMeansStopped ==
  /\ spc \in {"acking", "stopped"} => Odd(seen)
  /\ spc = "stopped" => ack = seen
  /\ Odd(frame) /\ ack = frame => spc = "stopped" /\ seen = frame

\* a frame on the line: the sampler is not past its look at it
FrameStops ==
  lpc = "frame" =>
    /\ spc \notin {"paced", "read", "between", "block", "end"}
    /\ ~(spc = "open" /\ after = "yield")
    /\ spc \in {"acking", "stopped"} => seen = frame

\* held says who has the wire; the asks of a take are undone when it fails
HeldAgrees ==
  /\ lpc \in Holding \cup {"look", "giveup"} => held = 1
  /\ lpc \in {"idle", "take", "note", "spin", "spin2", "drain"} => held = 0

\* an immediate window, from the wait for the holder on
WindowAlone ==
  /\ mode = "immediate" => spc \notin {"burst", "look", "open", "block"}
  /\ mode = "immediate" /\ spc \in Reading \cup {"entering", "begin", "gap"}
       => window = "exclusive"
  /\ mode = "immediate" /\ spc \in Reading \cup {"begin", "gap"}
       => lpc \notin Holding /\ (lpc = "try" => held = 0)
  /\ spc \in {"off", "starting"} => window = "none"

Agreed == WordsOK /\ ReadingAgrees /\ AckMeansStopped /\ FrameStops /\ HeldAgrees /\ WindowAlone

IInv == Agreed /\ FlagsOK
-----------------------------------------------------------------------------
\* The counter's parity: odd while a frame is on the line (frameBegin, frameEnd).
LEMMA Parity ==
  ASSUME NEW n \in Nat
  PROVE  Odd(n + 1) <=> ~Odd(n)
BY SMT DEF Odd

\* Every step of loop()'s core keeps the invariant (tryHold, hold, release,
\* frameBegin, frameEnd, endTurn, waitIdle, startRun).
LEMMA LoopKeeps ==
  ASSUME IInv, Loop
  PROVE  Agreed'
<1> USE DEF IInv, Agreed, WordsOK, ReadingAgrees, AckMeansStopped, FrameStops, HeldAgrees,
            WindowAlone, LoopPcs, SamplerPcs, Holding, OnLine, Reading, words,
            samplerVars, loopVars, L
<1>1. CASE Call
  BY <1>1 DEF Call
<1>2. CASE TryHeld
  BY <1>2 DEF TryHeld
<1>3. CASE TakeHeld
  BY <1>3 DEF TakeHeld
<1>4. CASE Look
  BY <1>4 DEF Look
<1>5. CASE GiveUp
  BY <1>5 DEF GiveUp
<1>6. CASE Note
  BY <1>6 DEF Note
<1>7. CASE Spin
  BY <1>7 DEF Spin
<1>8. CASE FrameBegin
  BY <1>8, Parity DEF FrameBegin
<1>9. CASE FrameWait
  BY <1>9 DEF FrameWait
<1>10. CASE FrameEnd
  BY <1>10, Parity DEF FrameEnd
<1>11. CASE EndTurn
  BY <1>11 DEF EndTurn
<1>12. CASE Release
  BY <1>12 DEF Release
<1>13. CASE WaitIdle
  BY <1>13 DEF WaitIdle
<1>14. CASE Start
  BY <1>14 DEF Start
<1>15. QED
  BY <1>1, <1>2, <1>3, <1>4, <1>5, <1>6, <1>7, <1>8, <1>9, <1>10, <1>11, <1>12, <1>13, <1>14 DEF Loop

\* Every step of the sampler's core keeps the invariant (run, runClocked, take).
LEMMA SamplerKeeps ==
  ASSUME IInv, Sampler
  PROVE  Agreed'
<1> USE DEF IInv, Agreed, WordsOK, ReadingAgrees, AckMeansStopped, FrameStops, HeldAgrees,
            WindowAlone, LoopPcs, SamplerPcs, Holding, OnLine, Reading, words,
            samplerVars, loopVars, S
<1>1. CASE BeginWindow
  BY <1>1 DEF BeginWindow
<1>2. CASE Enter
  BY <1>2 DEF Enter
<1>3. CASE BeginBurst
  BY <1>3 DEF BeginBurst
<1>4. CASE LookForTurn
  BY <1>4 DEF LookForTurn
<1>5. CASE OpenTurn
  BY <1>5 DEF OpenTurn
<1>6. CASE BeginReading
  BY <1>6 DEF BeginReading
<1>7. CASE YieldFrame
  BY <1>7 DEF YieldFrame
<1>8. CASE Read
  BY <1>8 DEF Read
<1>9. CASE Again
  BY <1>9 DEF Again
<1>10. CASE Block
  BY <1>10 DEF Block
<1>11. CASE Hit
  BY <1>11 DEF Hit
<1>12. CASE EndReading
  BY <1>12 DEF EndReading
<1>13. CASE EndWindow
  BY <1>13 DEF EndWindow
<1>14. QED
  BY <1>1, <1>2, <1>3, <1>4, <1>5, <1>6, <1>7, <1>8, <1>9, <1>10, <1>11, <1>12, <1>13 DEF Sampler

\* The two cores' flags stay Boolean.
LEMMA FlagsKeep ==
  ASSUME FlagsOK, Next
  PROVE  FlagsOK'
<1> USE DEF FlagsOK, words, samplerVars, loopVars
<1>1. CASE Loop
  BY <1>1, Zenon DEF Loop, Call, TryHeld, TakeHeld, Look, GiveUp, Note, Spin, FrameBegin,
     FrameWait, FrameEnd, EndTurn, Release, WaitIdle, Start
<1>2. CASE Sampler
  BY <1>2, Zenon DEF Sampler, BeginWindow, Enter, BeginBurst, LookForTurn, OpenTurn,
     BeginReading, YieldFrame, Read, Again, Block, Hit, EndReading, EndWindow
<1>3. QED
  BY <1>1, <1>2 DEF Next

\* The invariant holds in every state of every behaviour.
LEMMA Invariant == Spec => []IInv
<1>1. Init => IInv
  <2> SUFFICES ASSUME Init PROVE IInv
    OBVIOUS
  <2>1. Agreed
    BY DEF Init, Agreed, WordsOK, ReadingAgrees, AckMeansStopped, FrameStops, HeldAgrees,
           WindowAlone, LoopPcs, SamplerPcs, Holding, OnLine, Reading, Odd
  <2>2. FlagsOK
    BY Zenon DEF Init, FlagsOK
  <2>3. QED
    BY <2>1, <2>2 DEF IInv
<1>2. IInv /\ [Next]_vars => IInv'
  <2> SUFFICES ASSUME IInv, [Next]_vars PROVE IInv'
    OBVIOUS
  <2>1. CASE Next
    BY <2>1, LoopKeeps, SamplerKeeps, FlagsKeep DEF Next, IInv
  <2>2. CASE UNCHANGED vars
    <3>1. Agreed'
      BY <2>2 DEF IInv, Agreed, WordsOK, ReadingAgrees, AckMeansStopped, FrameStops,
                  HeldAgrees, WindowAlone, vars, words, samplerVars, loopVars
    <3>2. FlagsOK'
      BY <2>2, Zenon DEF IInv, FlagsOK, vars, samplerVars, loopVars
    <3>3. QED
      BY <3>1, <3>2 DEF IInv
  <2>3. QED
    BY <2>1, <2>2
<1>3. QED
  BY <1>1, <1>2, PTL DEF Spec

\* A GPIO.in read never meets a SWIO frame, for any number of frames (frameBegin
\* against yieldFrame and beginReading, OepWireGate.h).
THEOREM FrameAlone == Spec => []NoReadMeetsFrame
<1>1. IInv => NoReadMeetsFrame
  BY DEF IInv, Agreed, FrameStops, NoReadMeetsFrame
<1>2. QED
  BY <1>1, Invariant, PTL

\* No frame begins or waits while an immediate window samples (beginWindow
\* against tryHold, OepWireGate.h).
THEOREM WindowUndisturbed == Spec => []ImmediateWindowHasNoFrame
<1>1. IInv => ImmediateWindowHasNoFrame
  BY DEF IInv, Agreed, WindowAlone, ImmediateWindowHasNoFrame, Reading
<1>2. QED
  BY <1>1, Invariant, PTL

\* Who waits for the wire, or for the sampler, holds nothing the other side
\* waits for (tryHold's undone take, waitIdle's release).
THEOREM NeitherWaitsHolding == Spec => []WaiterHoldsNothing
<1>1. IInv => WaiterHoldsNothing
  BY DEF IInv, Agreed, HeldAgrees, WaiterHoldsNothing
<1>2. QED
  BY <1>1, Invariant, PTL

\* No run leaves its window open behind it (endWindow at each exit).
THEOREM WindowCloses == Spec => []NoWindowIsLeft
<1>1. IInv => NoWindowIsLeft
  BY DEF IInv, Agreed, WindowAlone, NoWindowIsLeft
<1>2. QED
  BY <1>1, Invariant, PTL

\* The words' types and the parity of the frame counter.
THEOREM WordsTyped == Spec => []TypeOK
<1>1. IInv => TypeOK
  BY DEF IInv, Agreed, TypeOK
<1>2. QED
  BY <1>1, Invariant, PTL
-----------------------------------------------------------------------------
(* The boot guard.  Its record and the history of crashes move together:   *)
(* the record's count is what the history says, one more at most on an RP2 *)
(* (a crash on the way into a planned restart).                            *)

Slack == IF chip = "rp2" THEN 1 ELSE 0

\* the count begin() would come to now
Next1 == IF Guard!fast THEN Guard!Lower(kept.count + 1, CountMax) ELSE 0

RecordShape ==
  /\ chip \in {"esp", "rp2"}
  /\ kept = [state |-> kept.state, count |-> kept.count]
  /\ kept.count \in 0 .. CountMax
  /\ crashed \in 0 .. CountMax /\ repeated \in 0 .. CountMax

\* while a boot runs: what its record says of it
RunAgrees ==
  Guard!running =>
    /\ kept.state \in {"running", "settled", "planned"}
    /\ kept.state = "settled" => settled
    /\ kept.state = "running" => ~settled
    /\ kept.state \in {"settled", "planned"} => kept.count = 0
    /\ kept.state = "running" => repeated <= kept.count /\ kept.count <= crashed + Slack
    /\ kept.state = "running" /\ attach # "skipped" => kept.count < SafeAfter

\* between a reset and begin(): what begin() makes of the record
ResetAgrees == ~Guard!running => repeated <= Next1 /\ Next1 <= crashed + Slack

GuardInv == RecordShape /\ RunAgrees /\ ResetAgrees /\ Guard!SafeBoots

\* The guard's invariant holds in every state of every behaviour of the guard.
LEMMA GuardInvariant == Guard!BootSpec => []GuardInv
<1> USE BesideAssumption DEF Guard!BootAssumption
<1>1. Guard!BootInit => GuardInv
  BY DEF Guard!BootInit, GuardInv, RecordShape, RunAgrees, ResetAgrees, Guard!SafeBoots,
         Guard!CrashLoopEnds, Guard!SafeIsEarned, Guard!running, Next1, Guard!fast,
         Guard!crashReset, Slack
<1>2. GuardInv /\ [Guard!BootNext]_(Guard!bootVars) => GuardInv'
  <2> SUFFICES ASSUME GuardInv, [Guard!BootNext]_(Guard!bootVars) PROVE GuardInv'
    OBVIOUS
  <2> USE DEF GuardInv, RecordShape, RunAgrees, ResetAgrees, Guard!SafeBoots,
              Guard!CrashLoopEnds, Guard!SafeIsEarned, Guard!running, Next1, Guard!fast,
              Guard!crashReset, Slack, Guard!Lower
  <2>1. CASE Guard!begin
    BY <2>1 DEF Guard!begin
  <2>2. CASE Guard!round
    <3> DEFINE late == up >= Stable
               open == Guard!gate
    <3>1. /\ kept' = IF ~settled /\ late THEN [state |-> "settled", count |-> 0] ELSE kept
          /\ attach' = IF attach = "waits" /\ open THEN "done" ELSE attach
          /\ kept.state # "planned" /\ cause = "none" /\ cause' = cause
          /\ chip' = chip /\ crashed' = crashed /\ repeated' = repeated
      BY <2>2 DEF Guard!round
    <3>2. settled' <=> settled \/ late
      BY <2>2, Zenon DEF Guard!round
    <3> HIDE DEF late, open
    <3>3. QED
      BY <3>1, <3>2
  <2>3. CASE Guard!planned
    BY <2>3 DEF Guard!planned
  <2> USE DEF Guard!Reset, Guard!Told, Guard!soon
  <2>4. CASE Guard!crash
    BY <2>4 DEF Guard!crash
  <2>5. CASE Guard!lockup
    BY <2>5 DEF Guard!lockup
  <2>6. CASE Guard!restart
    BY <2>6 DEF Guard!restart
  <2>7. CASE Guard!outside
    BY <2>7 DEF Guard!outside
  <2>8. CASE Guard!tick
    BY <2>8 DEF Guard!tick
  <2>9. CASE Guard!enumerate
    BY <2>9 DEF Guard!enumerate
  <2>10. CASE UNCHANGED Guard!bootVars
    BY <2>10 DEF Guard!bootVars
  <2>11. QED
    BY <2>1, <2>2, <2>3, <2>4, <2>5, <2>6, <2>7, <2>8, <2>9, <2>10 DEF Guard!BootNext
<1>3. QED
  BY <1>1, <1>2, PTL DEF Guard!BootSpec

\* Whatever crashes, locks up or resets the probe in whatever order: an attach
\* that brings it down is given up after kSafeAfter boots, and a boot is a safe
\* one only when it was earned (BootGuard::begin, crashed, poll, safe).
THEOREM SafeBootsComeWhenDue == Guard!BootSpec => []SafeBoots
<1>1. GuardInv => SafeBoots
  BY DEF GuardInv, SafeBoots
<1>2. QED
  BY <1>1, GuardInvariant, PTL
-----------------------------------------------------------------------------
(* The bulk stream.  First who has the transfer, whatever was dropped.     *)

Sorts == {"whole", "most", "last"}

\* what is queued and what is in a buffer
ResultEntry == [kind : Sorts, buffer : {0, 1}, length : Nat]
StageEntry == [kind : {"stage"}, stage : Stages]
Byte == [id : Nat, at : Nat, of : Nat]

\* a task's place in kick(), the queues' entries, the buffers
KickShape ==
  /\ DOMAIN kick = Bulk!Kickers
  /\ \A t \in Bulk!Kickers :
       /\ kick[t] = [at |-> kick[t].at, entry |-> kick[t].entry]
       /\ kick[t].at \in {"no", "arm", "write", "done"}
       /\ kick[t].at \in {"no", "arm"} => kick[t].entry = Bulk!NoEntry
EntriesReal ==
  /\ results \in Seq(ResultEntry) /\ dataQ \in Seq(StageEntry)
  /\ inFlight => sending \in ResultEntry \cup StageEntry
BufferShape ==
  /\ cur \in {0, 1}
  /\ len \in [{0, 1} -> Nat] /\ DOMAIN busy = {0, 1} /\ DOMAIN tail = {0, 1}
  /\ mem \in [{0, 1} -> Seq(Byte)] /\ \A i \in {0, 1} : len[i] <= Len(mem[i])
  /\ written = [id |-> written.id, size |-> written.size]
  /\ written.id \in Nat /\ written.size \in Nat
HostShape == host = [id |-> host.id, at |-> host.at, half |-> host.half, again |-> host.again,
                     split |-> host.split]

\* the one who holds the transfer, before it is on the bus
HoldsIt ==
  /\ \A t, u \in Bulk!Kickers : kick[t].at = "write" /\ kick[u].at = "write" => t = u
  /\ \A t \in Bulk!Kickers : kick[t].at = "write" =>
       inFlight /\ onBus = Bulk!NoEntry /\ kick[t].entry = sending
  /\ onBus # Bulk!NoEntry => inFlight /\ sending = onBus
  /\ inFlight => onBus # Bulk!NoEntry \/ \E t \in Bulk!Kickers : kick[t].at = "write"

\* loop() is in kick() only where flush() or kick() called it
LoopRests == writing # "kick" => kick["loop"] = Bulk!No

WireInv == KickShape /\ EntriesReal /\ BufferShape /\ HostShape /\ HoldsIt /\ LoopRests
-----------------------------------------------------------------------------
(* Then what comes out, as long as nothing was dropped.  A result is ahead *)
(* while it is in flight or in the queue; the buffer loop() writes next is *)
(* cur, and if that one is busy it is the older of the two.                *)

other == 1 - cur

Sent == inFlight /\ sending.kind # "stage"

Ahead(sort, i) ==
  \/ Sent /\ sending.kind = sort /\ sending.buffer = i
  \/ \E k \in 1 .. Len(results) : results[k].kind = sort /\ results[k].buffer = i

\* loop() has a frame that is in no buffer yet
Unwritten == writing \in {"room", "again"} \/ (writing \in {"flush", "tail", "kick"} /\ back = "again")

Tailing(i) == writing = "tail" /\ i = other

\* the place in the line: the older buffer first, a tail after its buffer
Rank(e) == (IF e.buffer = cur THEN 0 ELSE 2) + (IF e.kind = "last" THEN 2 ELSE 1)

Final(i) == mem[i][len[i]]

\* an entry ahead is about a busy buffer as it is
Right(e) ==
  /\ e.kind \in Sorts /\ e.buffer \in {0, 1} /\ busy[e.buffer] /\ len[e.buffer] > 0
  /\ e.kind = "whole" => e.length = len[e.buffer] /\ len[e.buffer] % Packet # 0
  /\ e.kind = "most" => e.length = len[e.buffer] - 1
  /\ e.kind \in {"most", "last"} =>
       tail[e.buffer] = <<Final(e.buffer)>> /\ len[e.buffer] % Packet = 0

LineRight ==
  /\ Sent => Right(sending)
  /\ \A k \in 1 .. Len(results) : Right(results[k])
  /\ \A k \in 1 .. Len(results) : Sent => Rank(sending) < Rank(results[k])
  /\ \A j, k \in 1 .. Len(results) : j < k => Rank(results[j]) < Rank(results[k])

TailComes ==
  /\ \A i \in {0, 1} : Ahead("most", i) => Ahead("last", i) \/ Tailing(i)
  /\ writing = "tail" =>
       /\ busy[other] /\ len[other] > 0 /\ len[other] % Packet = 0
       /\ tail[other] = <<Final(other)>> /\ ~Ahead("last", other)

\* all of buffer i but its last byte is out
Midway(i) == busy[i] /\ (Ahead("last", i) \/ Tailing(i)) /\ ~Ahead("most", i)

MidwayAlone == Midway(other) => \A sort \in Sorts : ~Ahead(sort, cur)

\* what the host has heard, and what it is to hear
Follows(h, b) == Bulk!Goes(h, b) /\ Bulk!Anew(h, b)
HostAgrees ==
  /\ ~host.half /\ ~host.again /\ host.id \in Nat /\ host.at \in Nat
  /\ \A i \in {0, 1} : mounted /\ Midway(i) => Follows(host, Final(i))
  /\ host.at # 0 => mounted /\ \E i \in {0, 1} : Midway(i)

Waiting(i) == Ahead("whole", i) \/ Ahead("most", i) \/ (i = cur /\ ~busy[cur])
HostBehind ==
  \A i \in {0, 1} : Waiting(i) => \A k \in 1 .. len[i] : host.id < mem[i][k].id

\* the buffers' frames: linked byte to byte, the older buffer's before the other's
Linked(i) ==
  /\ len[i] > 0 => mem[i][1].at = 1 /\ Final(i).at = Final(i).of
  /\ \A k \in 1 .. len[i] - 1 : Follows(Bulk!After(mem[i][k]), mem[i][k + 1])
Below(i, j) == \A k \in 1 .. len[i] : \A l \in 1 .. len[j] : mem[i][k].id < mem[j][l].id
Top == IF Unwritten THEN written.id - 1 ELSE written.id
FramesLinked ==
  /\ Linked(0) /\ Linked(1)
  /\ IF busy[cur] THEN Below(cur, other) ELSE Below(other, cur)
  /\ host.id <= Top
  /\ \A i \in {0, 1} : \A k \in 1 .. len[i] : mem[i][k].id <= Top

\* a buffer is written and flushed only when it is not busy
Flushable ==
  /\ writing \in {"idle", "room", "again", "flush", "tail", "kick"} /\ back \in {"idle", "again"}
  /\ Unwritten => written.size > 0
  /\ ~busy[other] => len[other] = 0
  /\ writing = "flush" \/ (writing = "idle" /\ wrote) => ~busy[cur]
  /\ writing \in {"flush", "tail", "kick"} /\ back = "idle" => ~wrote

\* a buffer given back is done with, and given back once
GivenOnce ==
  \A t \in Bulk!Kickers : kick[t].at = "done" /\ kick[t].entry.kind \in {"whole", "last"} =>
    LET i == kick[t].entry.buffer IN
    /\ i \in {0, 1} /\ busy[i] /\ ~Tailing(i) /\ \A sort \in Sorts : ~Ahead(sort, i)
    /\ \A u \in Bulk!Kickers :
         kick[u].at = "done" /\ kick[u].entry.kind \in {"whole", "last"}
           /\ kick[u].entry.buffer = i => u = t

StreamInv ==
  /\ LineRight /\ TailComes /\ MidwayAlone /\ HostAgrees /\ HostBehind
  /\ FramesLinked /\ Flushable /\ GivenOnce

BulkInv == WireInv /\ (dropped = 0 => StreamInv)
-----------------------------------------------------------------------------
\* What Put leaves in a buffer: what was there, then the frame, then the rest.
LEMMA PutWell ==
  ASSUME NEW i \in {0, 1}, BufferShape
  PROVE  /\ Bulk!Put(i) \in Seq(Byte) /\ len[i] + written.size <= Len(Bulk!Put(i))
         /\ \A k \in 1 .. len[i] : Bulk!Put(i)[k] = mem[i][k]
         /\ \A k \in 1 .. written.size : Bulk!Put(i)[len[i] + k]
              = [id |-> written.id, at |-> k, of |-> written.size]
<1> DEFINE old == mem[i]
           n == len[i]
           z == written.size
           new == [k \in 1 .. z |-> [id |-> written.id, at |-> k, of |-> z]]
           a == SubSeq(old, 1, n)
           c == SubSeq(old, n + z + 1, Len(old))
<1>1. /\ old \in Seq(Byte) /\ n \in Nat /\ z \in Nat /\ n <= Len(old) /\ written.id \in Nat
  BY DEF BufferShape
<1>2. /\ a \in Seq(Byte) /\ Len(a) = n /\ \A k \in 1 .. n : a[k] = old[k]
  <2> HIDE DEF old, n
  <2>1. QED
    BY <1>1
<1>3. new \in Seq(Byte) /\ Len(new) = z
  <2> HIDE DEF z
  <2>1. QED
    BY <1>1 DEF Byte
<1>4. c \in Seq(Byte)
  <2> HIDE DEF old, n, z
  <2>1. QED
    BY <1>1
<1>5. \A k \in 1 .. z : new[k] = [id |-> written.id, at |-> k, of |-> written.size]
  OBVIOUS
<1>6. Bulk!Put(i) = (a \o new) \o c
  BY DEF Bulk!Put
<1> HIDE DEF a, new, c, old, n, z
<1>7. /\ a \o new \in Seq(Byte) /\ Len(a \o new) = n + z
      /\ \A k \in 1 .. n : (a \o new)[k] = a[k]
      /\ \A k \in 1 .. z : (a \o new)[n + k] = new[k]
  <2>1. /\ a \o new \in Seq(Byte) /\ Len(a \o new) = n + z
        /\ \A k \in 1 .. n + z : (a \o new)[k] = IF k <= n THEN a[k] ELSE new[k - n]
    BY ONLY <1>1, <1>2, <1>3, ConcatProperties
  <2>2. QED
    BY ONLY <1>1, <1>2, <1>3, <2>1
<1>8. \A k \in 1 .. n + z : ((a \o new) \o c)[k] = (a \o new)[k]
  BY <1>1, <1>4, <1>7
<1>9. (a \o new) \o c \in Seq(Byte) /\ Len((a \o new) \o c) >= n + z
  BY <1>1, <1>4, <1>7
<1>10. ASSUME NEW k \in 1 .. z
       PROVE  ((a \o new) \o c)[n + k] = [id |-> written.id, at |-> k, of |-> written.size]
  <2>1. n + k \in 1 .. n + z
    BY <1>1
  <2>2. QED
    BY <1>5, <1>7, <1>8, <2>1
<1>11. \A k \in 1 .. n : k \in 1 .. n + z
  BY <1>1
<1>12. \A k \in 1 .. n : ((a \o new) \o c)[k] = old[k]
  BY <1>2, <1>7, <1>8, <1>11
<1>13. QED
  BY ONLY <1>6, <1>9, <1>10, <1>12 DEF old, n, z

\* A task that comes to rest, or looks for the next to send, holds nothing.
LEMMA KickRests ==
  ASSUME KickShape, HoldsIt, NEW t \in Bulk!Kickers, NEW r \in {Bulk!No, Bulk!Arm},
         kick[t].at # "write", kick' = [kick EXCEPT ![t] = r],
         inFlight' <=> inFlight, sending' = sending, onBus' = onBus
  PROVE  KickShape' /\ HoldsIt'
<1>1. r = [at |-> r.at, entry |-> r.entry] /\ r.at \in {"no", "arm"} /\ r.entry = Bulk!NoEntry
  BY DEF Bulk!No, Bulk!Arm
<1>2. DOMAIN kick' = Bulk!Kickers /\ \A u \in Bulk!Kickers : kick'[u] = IF u = t THEN r ELSE kick[u]
  BY DEF KickShape
<1>3. KickShape'
  BY <1>1, <1>2 DEF KickShape
<1>4. \A u \in Bulk!Kickers : kick'[u].at = "write" <=> kick[u].at = "write"
  BY <1>1, <1>2
<1>5. \A u \in Bulk!Kickers : kick'[u].at = "write" => kick'[u] = kick[u]
  BY <1>1, <1>2
<1>6. HoldsIt'
  BY <1>4, <1>5 DEF HoldsIt
<1>7. QED
  BY <1>3, <1>6

\* Every step keeps the holder of the transfer one, and the shapes.
LEMMA WireKeeps ==
  ASSUME WireInv, Bulk!BulkNext
  PROVE  WireInv'
<1> USE BesideAssumption DEF Bulk!BulkAssumption, WireInv, Bulk!buffers, Bulk!queues, Bulk!loopAt
<1>0. /\ "loop" \in Bulk!Kickers /\ "task" \in Bulk!Kickers /\ "usbd" \in Bulk!Kickers
      /\ Bulk!No # Bulk!Arm /\ Bulk!No.at = "no" /\ Bulk!Arm.at = "arm"
  BY DEF Bulk!Kickers, Bulk!No, Bulk!Arm
<1>1. CASE \/ Bulk!DropFrame \/ Bulk!FlushAsked \/ Bulk!FlushNothing \/ Bulk!Kicked \/ Bulk!Plug
  <2>1. CASE Bulk!DropFrame
    BY <2>1 DEF Bulk!DropFrame, KickShape, EntriesReal, BufferShape, HoldsIt, LoopRests, HostShape
  <2>2. CASE Bulk!FlushAsked
    BY <2>2 DEF Bulk!FlushAsked, KickShape, EntriesReal, BufferShape, HoldsIt, LoopRests, HostShape
  <2>3. CASE Bulk!FlushNothing
    BY <2>3 DEF Bulk!FlushNothing, KickShape, EntriesReal, BufferShape, HoldsIt, LoopRests, HostShape
  <2>4. CASE Bulk!Kicked
    BY <2>4 DEF Bulk!Kicked, KickShape, EntriesReal, BufferShape, HoldsIt, LoopRests, HostShape
  <2>5. CASE Bulk!Plug
    BY <2>5 DEF Bulk!Plug, KickShape, EntriesReal, BufferShape, HoldsIt, LoopRests, HostShape
  <2>6. QED
    BY <1>1, <2>1, <2>2, <2>3, <2>4, <2>5
<1>2. CASE Bulk!Write
  <2>1. BufferShape'
    BY <1>2 DEF Bulk!Write, BufferShape
  <2>2. KickShape' /\ EntriesReal' /\ HostShape'
    BY <1>2 DEF Bulk!Write, KickShape, EntriesReal, HostShape
  <2>3. HoldsIt' /\ LoopRests'
    BY <1>2 DEF Bulk!Write, HoldsIt, LoopRests
  <2>4. QED
    BY <2>1, <2>2, <2>3
<1>3. CASE Bulk!Room
  <2>1. KickShape' /\ EntriesReal' /\ HostShape' /\ HoldsIt' /\ LoopRests'
    BY <1>3 DEF Bulk!Room, KickShape, EntriesReal, HostShape, HoldsIt, LoopRests
  <2>2. BufferShape'
    <3> DEFINE put == Bulk!Put(cur)
    <3>1. put \in Seq(Byte) /\ len[cur] + written.size <= Len(put)
      BY PutWell DEF BufferShape
    <3>2. \/ mem' = [mem EXCEPT ![cur] = put] /\ len' = [len EXCEPT ![cur] = @ + written.size]
          \/ mem' = mem /\ len' = len
      BY <1>3 DEF Bulk!Room
    <3>3. cur' = cur /\ busy' = busy /\ tail' = tail /\ written' = written /\ host' = host
      BY <1>3 DEF Bulk!Room
    <3> HIDE DEF put
    <3>4. BufferShape
      OBVIOUS
    <3>5. QED
      BY ONLY <3>1, <3>2, <3>3, <3>4 DEF BufferShape
  <2>3. QED
    BY <2>1, <2>2
<1>4. CASE Bulk!Flush
  <2>1. BufferShape' /\ HostShape'
    BY <1>4 DEF Bulk!Flush, BufferShape, HostShape
  <2>2. EntriesReal'
    <3>1. \A q \in Seq(ResultEntry) : \A e \in ResultEntry : Bulk!Queued(q, e) \in Seq(ResultEntry)
      BY DEF Bulk!Queued
    <3>2. /\ Bulk!Whole(cur, len[cur]) \in ResultEntry
          /\ len[cur] # 0 => Bulk!Most(cur, len[cur] - 1) \in ResultEntry
      BY DEF BufferShape, Bulk!Whole, Bulk!Most, ResultEntry, Sorts
    <3>3. QED
      BY <1>4, <3>1, <3>2 DEF Bulk!Flush, EntriesReal
  <2>3. kick["loop"].at # "write" /\ kick["loop"] = Bulk!No
    BY <1>0, <1>4 DEF Bulk!Flush, LoopRests
  <2>4. /\ \/ writing' = "tail" /\ kick' = kick
           \/ writing' = "kick" /\ kick' = [kick EXCEPT !["loop"] = Bulk!Arm]
        /\ inFlight' = inFlight /\ sending' = sending /\ onBus' = onBus
    BY <1>4 DEF Bulk!Flush
  <2>5. KickShape' /\ HoldsIt'
    <3>1. CASE kick' = kick
      BY <1>4, <3>1 DEF Bulk!Flush, KickShape, HoldsIt
    <3>2. CASE kick' = [kick EXCEPT !["loop"] = Bulk!Arm]
      BY <1>0, <1>4, <3>2, <2>3, KickRests DEF Bulk!Flush
    <3>3. QED
      BY <2>4, <3>1, <3>2
  <2>6. QED
    BY <2>1, <2>2, <2>3, <2>4, <2>5 DEF LoopRests
<1>5. CASE Bulk!FlushTail
  <2>1. BufferShape' /\ HostShape'
    BY <1>5 DEF Bulk!FlushTail, BufferShape, HostShape
  <2>2. EntriesReal'
    <3>1. \A q \in Seq(ResultEntry) : \A e \in ResultEntry : Bulk!Queued(q, e) \in Seq(ResultEntry)
      BY DEF Bulk!Queued
    <3>2. Bulk!Last(1 - cur) \in ResultEntry
      BY DEF BufferShape, Bulk!Last, ResultEntry, Sorts
    <3>3. QED
      BY <1>5, <3>1, <3>2 DEF Bulk!FlushTail, EntriesReal
  <2>3. kick["loop"].at # "write" /\ kick["loop"] = Bulk!No
    BY <1>0, <1>5 DEF Bulk!FlushTail, LoopRests
  <2>4. KickShape' /\ HoldsIt' /\ LoopRests'
    BY <1>0, <1>5, <2>3, KickRests DEF Bulk!FlushTail, LoopRests
  <2>5. QED
    BY <2>1, <2>2, <2>4
<1>6. ASSUME NEW s \in Stages, Bulk!QueueData(s)
      PROVE  WireInv'
  <2>1. KickShape' /\ HoldsIt'
    BY <1>0, <1>6, KickRests DEF Bulk!QueueData
  <2>2. EntriesReal'
    BY <1>6 DEF Bulk!QueueData, EntriesReal, Bulk!Stage, StageEntry
  <2>3. BufferShape' /\ HostShape' /\ LoopRests'
    BY <1>0, <1>6 DEF Bulk!QueueData, BufferShape, HostShape, LoopRests, KickShape
  <2>4. QED
    BY <2>1, <2>2, <2>3
<1>7. ASSUME NEW t \in Bulk!Kickers, Bulk!KickNothing(t)
      PROVE  WireInv'
  <2>1. KickShape' /\ HoldsIt'
    BY <1>0, <1>7, KickRests DEF Bulk!KickNothing
  <2>2. BufferShape' /\ HostShape' /\ LoopRests' /\ EntriesReal'
    BY <1>0, <1>7 DEF Bulk!KickNothing, BufferShape, HostShape, LoopRests, KickShape, EntriesReal
  <2>3. QED
    BY <2>1, <2>2
<1>8. ASSUME NEW t \in Bulk!Kickers, Bulk!KickArm(t)
      PROVE  WireInv'
  <2>1. BufferShape' /\ HostShape'
    BY <1>8 DEF Bulk!KickArm, BufferShape, HostShape
  <2>2. PICK e \in ResultEntry \cup StageEntry :
          Bulk!Take(t, e) /\ results' \in Seq(ResultEntry) /\ dataQ' \in Seq(StageEntry)
    <3>1. CASE results # <<>>
      <4>1. Bulk!Take(t, Head(results)) /\ results' = Tail(results) /\ dataQ' = dataQ
        BY <1>8, <3>1 DEF Bulk!KickArm
      <4>2. Head(results) \in ResultEntry /\ Tail(results) \in Seq(ResultEntry)
        BY <3>1 DEF EntriesReal
      <4>3. QED
        BY <4>1, <4>2 DEF EntriesReal
    <3>2. CASE results = <<>>
      <4>1. Bulk!Take(t, Head(dataQ)) /\ dataQ' = Tail(dataQ) /\ results' = results /\ dataQ # <<>>
        BY <1>8, <3>2 DEF Bulk!KickArm, Bulk!Nothing
      <4>2. Head(dataQ) \in StageEntry /\ Tail(dataQ) \in Seq(StageEntry)
        BY <4>1 DEF EntriesReal
      <4>3. QED
        BY <4>1, <4>2 DEF EntriesReal
    <3>3. QED
      BY <3>1, <3>2
  <2>3. ~inFlight /\ onBus' = onBus
    BY <1>8 DEF Bulk!KickArm, Bulk!Nothing
  <2>4. KickShape' /\ HoldsIt'
    BY <2>2, <2>3 DEF Bulk!Take, KickShape, HoldsIt
  <2>5. EntriesReal'
    BY <2>2 DEF Bulk!Take, EntriesReal
  <2>6. LoopRests'
    BY <1>0, <1>8, <2>2 DEF Bulk!KickArm, Bulk!Take, LoopRests, KickShape
  <2>7. QED
    BY <2>1, <2>4, <2>5, <2>6
<1>9. ASSUME NEW t \in Bulk!Kickers, Bulk!KickWrite(t)
      PROVE  WireInv'
  <2>1. BufferShape' /\ HostShape' /\ EntriesReal'
    BY <1>9 DEF Bulk!KickWrite, BufferShape, HostShape, EntriesReal, HoldsIt
  <2>2. KickShape'
    BY <1>9 DEF Bulk!KickWrite, KickShape, Bulk!No
  <2>3. sending # Bulk!NoEntry
    BY <1>9 DEF Bulk!KickWrite, HoldsIt, EntriesReal, ResultEntry, StageEntry, Sorts, Bulk!NoEntry
  <2>4. HoldsIt'
    BY <1>9, <2>3 DEF Bulk!KickWrite, HoldsIt, KickShape, Bulk!No
  <2>5. LoopRests'
    BY <1>0, <1>9 DEF Bulk!KickWrite, LoopRests, KickShape
  <2>6. QED
    BY <2>1, <2>2, <2>4, <2>5
<1>10. ASSUME NEW t \in Bulk!Kickers, Bulk!GiveBack(t)
       PROVE  WireInv'
  <2>1. BufferShape' /\ HostShape'
    <3>1. /\ cur' = cur /\ tail' = tail /\ mem' = mem /\ written' = written /\ host' = host
          /\ \/ len' = len \/ \E i : len' = [len EXCEPT ![i] = 0]
          /\ \/ busy' = busy \/ \E i : busy' = [busy EXCEPT ![i] = FALSE]
      BY <1>10 DEF Bulk!GiveBack
    <3>2. BufferShape /\ HostShape
      OBVIOUS
    <3>3. BufferShape'
      BY ONLY <3>1, <3>2 DEF BufferShape
    <3>4. HostShape'
      BY ONLY <3>1, <3>2 DEF HostShape
    <3>5. QED
      BY <3>3, <3>4
  <2>2. KickShape' /\ HoldsIt'
    BY <1>0, <1>10, KickRests DEF Bulk!GiveBack
  <2>3. EntriesReal' /\ LoopRests'
    BY <1>0, <1>10 DEF Bulk!GiveBack, KickShape, EntriesReal, LoopRests
  <2>4. QED
    BY <2>1, <2>2, <2>3
<1>11. CASE Bulk!Completed
  <2>1. KickShape' /\ HoldsIt' /\ EntriesReal' /\ LoopRests'
    BY <1>11 DEF Bulk!Completed, KickShape, HoldsIt, EntriesReal, LoopRests, Bulk!Kickers
  <2>2. HostShape'
    <3> DEFINE Shaped(h) == h = [id |-> h.id, at |-> h.at, half |-> h.half, again |-> h.again,
                                 split |-> h.split]
               next == (IF ~mounted THEN host
                        ELSE IF onBus.kind = "stage" THEN [host EXCEPT !.split = @ \/ host.at # 0]
                        ELSE Bulk!Heard(host, Bulk!Bytes(onBus)))
    <3>1. Shaped(host)
      BY DEF HostShape
    <3>2. \A h : Shaped(h) => \A x : Shaped([h EXCEPT !.split = x])
      OBVIOUS
    <3>3. ASSUME NEW h, Shaped(h), NEW a, NEW b, NEW c, NEW d
          PROVE  Shaped([h EXCEPT !.id = a, !.at = b, !.half = c, !.again = d])
      <4> DEFINE h1 == [h EXCEPT !.id = a]
                 h2 == [h1 EXCEPT !.at = b]
                 h3 == [h2 EXCEPT !.half = c]
                 h4 == [h3 EXCEPT !.again = d]
      <4>1. h4 = [h EXCEPT !.id = a, !.at = b, !.half = c, !.again = d]
        OBVIOUS
      <4>2. h1 = [id |-> a, at |-> h.at, half |-> h.half, again |-> h.again, split |-> h.split]
        BY <3>3
      <4> HIDE DEF h1
      <4>3. h2 = [id |-> a, at |-> b, half |-> h.half, again |-> h.again, split |-> h.split]
        BY <4>2
      <4> HIDE DEF h2
      <4>4. h3 = [id |-> a, at |-> b, half |-> c, again |-> h.again, split |-> h.split]
        BY <4>3
      <4> HIDE DEF h3
      <4>5. h4 = [id |-> a, at |-> b, half |-> c, again |-> d, split |-> h.split]
        BY <4>4
      <4> HIDE DEF h4
      <4>6. QED
        BY <4>1, <4>5
    <3> HIDE DEF Shaped
    <3>4. \A s : Shaped(Bulk!Heard(host, s))
      BY <3>1, <3>3 DEF Bulk!Heard
    <3>5. Shaped(next)
      BY <3>1, <3>2, <3>4
    <3>6. host' = next
      BY <1>11 DEF Bulk!Completed
    <3> HIDE DEF next
    <3>7. Shaped(host')
      BY <3>5, <3>6
    <3>8. QED
      BY <3>7 DEF Shaped, HostShape
  <2>3. BufferShape'
    <3>1. /\ cur' = cur /\ len' = len /\ busy' = busy /\ tail' = tail /\ mem' = mem
          /\ written' = written
      BY <1>11 DEF Bulk!Completed
    <3>2. QED
      BY <3>1 DEF BufferShape
  <2>4. QED
    BY <2>1, <2>2, <2>3
<1>12. CASE Bulk!Unplug
  BY <1>12 DEF Bulk!Unplug, KickShape, EntriesReal, BufferShape, HostShape, HoldsIt, LoopRests
<1>13. QED
  BY <1>1, <1>2, <1>3, <1>4, <1>5, <1>6, <1>7, <1>8, <1>9, <1>10, <1>11, <1>12 DEF Bulk!BulkNext
-----------------------------------------------------------------------------
(* What comes out: one lemma per step.                                     *)

\* A byte of a buffer's length is there.
LEMMA ByteAt ==
  ASSUME BufferShape, NEW i \in {0, 1}, NEW k \in 1 .. len[i]
  PROVE  mem[i][k] \in Byte /\ mem[i][k].id \in Nat /\ mem[i][k].at \in Nat
           /\ mem[i][k].of \in Nat
<1> DEFINE m == mem[i]
           n == len[i]
<1>1. m \in Seq(Byte) /\ n \in Nat /\ n <= Len(m) /\ k \in 1 .. n
  BY DEF BufferShape
<1> HIDE DEF m, n
<1>2. m[k] \in Byte
  BY <1>1
<1>3. QED
  BY <1>2 DEF Byte, m

\* Nothing moves in the line or the buffers, and the host hears nothing.
LEMMA QuietKeeps ==
  ASSUME StreamInv, Flushable', Top <= Top',
         results' = results, Sent' <=> Sent, sending' = sending,
         mem' = mem, tail' = tail, len' = len, busy' = busy, cur' = cur,
         host'.id = host.id, host'.at = host.at,
         host'.half <=> host.half, host'.again <=> host.again,
         mounted' <=> mounted, writing' = "tail" <=> writing = "tail",
         \A t \in Bulk!Kickers :
           kick'[t].at = "done" /\ kick'[t].entry.kind \in {"whole", "last"} => kick'[t] = kick[t],
         Top \in Int, Top' \in Int, BufferShape
  PROVE  StreamInv'
<1>1. \A sort, i : Ahead(sort, i)' <=> Ahead(sort, i)
  BY DEF Ahead, Sent
<1>2. /\ other' = other /\ \A i : Tailing(i)' <=> Tailing(i)
      /\ \A i : Final(i)' = Final(i)
  BY DEF Tailing, other, Final
<1>3. \A i : Midway(i)' <=> Midway(i)
  BY <1>1, <1>2 DEF Midway
<1>4. \A i : Waiting(i)' <=> Waiting(i)
  BY <1>1 DEF Waiting
<1>5. LineRight'
  BY <1>2 DEF StreamInv, LineRight, Right, Rank, Sent, Final
<1>6. TailComes'
  BY <1>1, <1>2 DEF StreamInv, TailComes
<1>7. MidwayAlone'
  BY <1>1, <1>2, <1>3 DEF StreamInv, MidwayAlone
<1>8. HostAgrees'
  <2>1. \A i : Follows(host, Final(i))' <=> Follows(host, Final(i))
    BY <1>2 DEF Follows, Bulk!Goes, Bulk!Anew
  <2>2. QED
    BY <1>3, <2>1 DEF StreamInv, HostAgrees
<1>9. HostBehind'
  BY <1>4 DEF StreamInv, HostBehind
<1>10. FramesLinked'
  <2>1. (\A i : Linked(i)' <=> Linked(i)) /\ \A i, j : Below(i, j)' <=> Below(i, j)
    BY <1>2 DEF Linked, Below
  <2>2. (host.id <= Top)'
    BY DEF StreamInv, FramesLinked, HostAgrees
  <2>3. ASSUME NEW i \in {0, 1}, NEW k \in 1 .. len[i]
        PROVE  mem[i][k].id <= Top'
    <3>1. mem[i][k].id \in Int
      BY ByteAt
    <3>2. mem[i][k].id <= Top
      BY DEF StreamInv, FramesLinked
    <3>3. QED
      BY <3>1, <3>2
  <2>4. QED
    BY <1>2, <2>1, <2>2, <2>3 DEF StreamInv, FramesLinked
<1>11. GivenOnce'
  BY <1>1, <1>2 DEF StreamInv, GivenOnce
<1>12. QED
  BY <1>5, <1>6, <1>7, <1>8, <1>9, <1>10, <1>11 DEF StreamInv

\* The newest frame in a buffer, or the one before a frame not yet in one.
LEMMA TopInt ==
  ASSUME BufferShape
  PROVE  Top \in Int /\ (Unwritten => Top = written.id - 1) /\ (~Unwritten => Top = written.id)
BY DEF BufferShape, Top

\* The steps of loop() that only move its place, and the steps of others that
\* touch neither the line nor the buffers.
LEMMA LoopMoves ==
  ASSUME WireInv, WireInv', StreamInv,
         Bulk!Write \/ Bulk!FlushAsked \/ Bulk!FlushNothing \/ Bulk!Kicked
  PROVE  StreamInv'
<1> USE DEF Bulk!buffers, Bulk!queues, Bulk!loopAt
<1>1. Top \in Int /\ Top' \in Int
  BY TopInt DEF WireInv, Top, BufferShape
<1>2. /\ results' = results /\ inFlight' = inFlight /\ sending' = sending
      /\ mem' = mem /\ tail' = tail /\ len' = len /\ busy' = busy /\ cur' = cur
      /\ host' = host /\ mounted' = mounted /\ kick' = kick
  BY DEF Bulk!Write, Bulk!FlushAsked, Bulk!FlushNothing, Bulk!Kicked
<1>3. writing' = "tail" <=> writing = "tail"
  BY DEF Bulk!Write, Bulk!FlushAsked, Bulk!FlushNothing, Bulk!Kicked, StreamInv, Flushable
<1>4. CASE Bulk!Write
  <2>1. ~Unwritten /\ Unwritten' /\ written'.id = written.id + 1 /\ written'.size \in Sizes
    BY <1>4 DEF Bulk!Write, Unwritten
  <2>2. Top <= Top'
    BY <1>1, <2>1, TopInt DEF Top, WireInv, BufferShape
  <2>3. Flushable'
    BY <1>2, <1>4, <2>1, BesideAssumption
       DEF Bulk!Write, StreamInv, Flushable, other, Bulk!BulkAssumption, Unwritten
  <2>4. QED
    BY <1>1, <1>2, <1>3, <2>2, <2>3, QuietKeeps DEF WireInv, Sent, Sent
<1>5. CASE Bulk!FlushAsked \/ Bulk!FlushNothing \/ Bulk!Kicked
  <2>1. (Unwritten' <=> Unwritten) /\ written' = written
    BY <1>5 DEF Bulk!FlushAsked, Bulk!FlushNothing, Bulk!Kicked, Unwritten, StreamInv, Flushable
  <2>2. Top <= Top'
    BY <1>1, <2>1 DEF Top
  <2>3. Flushable'
    BY <1>2, <1>5, <2>1
       DEF Bulk!FlushAsked, Bulk!FlushNothing, Bulk!Kicked, StreamInv, Flushable, other
  <2>4. QED
    BY <1>1, <1>2, <1>3, <2>2, <2>3, QuietKeeps DEF WireInv, Sent, Sent
<1>6. QED
  BY <1>4, <1>5

\* The steps of any task that leave the line as it is.
LEMMA OthersMove ==
  ASSUME WireInv, WireInv', StreamInv,
         \/ \E s \in Stages : Bulk!QueueData(s)
         \/ \E t \in Bulk!Kickers : Bulk!KickNothing(t) \/ (mounted /\ Bulk!KickWrite(t))
  PROVE  StreamInv'
<1> USE DEF Bulk!buffers, Bulk!queues, Bulk!loopAt
<1>1. Top \in Int
  BY TopInt DEF WireInv
<1>2. /\ results' = results /\ inFlight' = inFlight /\ sending' = sending
      /\ mem' = mem /\ tail' = tail /\ len' = len /\ busy' = busy /\ cur' = cur
      /\ host' = host /\ mounted' = mounted
      /\ writing' = writing /\ back' = back /\ wrote' = wrote /\ written' = written
  BY DEF Bulk!QueueData, Bulk!KickNothing, Bulk!KickWrite
<1>3. Top' = Top
  BY <1>2 DEF Top, Unwritten
<1>4. Flushable'
  BY <1>2 DEF StreamInv, Flushable, other, Unwritten
<1>5. \E t \in Bulk!Kickers : \E r \in {Bulk!No, Bulk!Arm} : kick' = [kick EXCEPT ![t] = r]
  BY DEF Bulk!QueueData, Bulk!KickNothing, Bulk!KickWrite, Bulk!Kickers
<1>6. \A t \in Bulk!Kickers : kick'[t].at = "done" => kick'[t] = kick[t]
  BY <1>5 DEF WireInv, KickShape, Bulk!No, Bulk!Arm
<1>7. QED
  BY <1>1, <1>2, <1>3, <1>4, <1>6, QuietKeeps DEF WireInv, Sent

\* The cable: what was half a frame is forgotten, and nothing is left of what
\* was queued when it comes back.
LEMMA CableKeeps ==
  ASSUME WireInv, WireInv', StreamInv, Bulk!Unplug \/ Bulk!Plug
  PROVE  StreamInv'
<1> USE DEF Bulk!buffers, Bulk!queues, Bulk!loopAt
<1>1. /\ results' = results /\ inFlight' = inFlight /\ sending' = sending
      /\ mem' = mem /\ tail' = tail /\ len' = len /\ busy' = busy /\ cur' = cur
      /\ kick' = kick
      /\ writing' = writing /\ back' = back /\ wrote' = wrote /\ written' = written
  BY DEF Bulk!Unplug, Bulk!Plug
<1>2. /\ host'.half = host.half /\ host'.again = host.again /\ host'.id = host.id
      /\ ~mounted' => host'.at = 0
      /\ mounted' => host' = host /\ ~inFlight /\ results = <<>> /\ writing # "tail"
      /\ host'.at \in Nat
  BY DEF Bulk!Unplug, Bulk!Plug, WireInv, HostShape, StreamInv, HostAgrees
<1>3. \A sort, i : Ahead(sort, i)' <=> Ahead(sort, i)
  BY <1>1 DEF Ahead, Sent
<1>4. /\ other' = other /\ (\A i : Tailing(i)' <=> Tailing(i)) /\ (\A i : Final(i)' = Final(i))
      /\ (Unwritten' <=> Unwritten) /\ Top' = Top
  BY <1>1 DEF Tailing, other, Final, Unwritten, Top
<1>5. (\A i : Midway(i)' <=> Midway(i)) /\ \A i : Waiting(i)' <=> Waiting(i)
  BY <1>1, <1>3, <1>4 DEF Midway, Waiting
<1>6. \A i : mounted' => ~Midway(i)
  BY <1>2 DEF Midway, Ahead, Sent, Tailing
<1>7. LineRight'
  <2>1. \A e : Right(e)' = Right(e)
    BY <1>1 DEF Right, Final
  <2>2. \A e : Rank(e)' = Rank(e)
    BY <1>1 DEF Rank
  <2>3. QED
    BY <1>1, <2>1, <2>2 DEF StreamInv, LineRight, Sent
<1>8. TailComes' /\ MidwayAlone'
  BY <1>1, <1>3, <1>4, <1>5 DEF StreamInv, TailComes, MidwayAlone
<1>9. HostAgrees'
  <2>1. mounted' => host'.at = 0
    BY <1>2, <1>6 DEF StreamInv, HostAgrees
  <2>2. QED
    BY <1>2, <1>5, <1>6, <2>1 DEF StreamInv, HostAgrees
<1>10. HostBehind'
  BY <1>1, <1>2, <1>5 DEF StreamInv, HostBehind
<1>11. FramesLinked'
  BY <1>1, <1>2, <1>4 DEF StreamInv, FramesLinked, Linked, Below
<1>12. Flushable'
  BY <1>1, <1>4 DEF StreamInv, Flushable
<1>13. GivenOnce'
  BY <1>1, <1>3, <1>4 DEF StreamInv, GivenOnce
<1>14. QED
  BY <1>7, <1>8, <1>9, <1>10, <1>11, <1>12, <1>13 DEF StreamInv

\* The next to send leaves the queue: the line is the same.
LEMMA ArmKeeps ==
  ASSUME WireInv, WireInv', StreamInv, NEW t \in Bulk!Kickers, Bulk!KickArm(t)
  PROVE  StreamInv'
<1> USE DEF Bulk!buffers, Bulk!queues, Bulk!loopAt
<1>1. /\ mem' = mem /\ tail' = tail /\ len' = len /\ busy' = busy /\ cur' = cur
      /\ host' = host /\ mounted' = mounted
      /\ writing' = writing /\ back' = back /\ wrote' = wrote /\ written' = written
  BY DEF Bulk!KickArm
<1>2. /\ ~inFlight /\ inFlight'
      /\ \/ /\ results # <<>> /\ sending' = Head(results) /\ results' = Tail(results)
         \/ /\ results = <<>> /\ results' = <<>> /\ dataQ # <<>> /\ sending' = Head(dataQ)
      /\ \A u \in Bulk!Kickers : kick'[u].at = "done" => kick'[u] = kick[u]
  BY DEF Bulk!KickArm, Bulk!Nothing, Bulk!Take, WireInv, KickShape
<1>3. /\ \/ /\ Sent' /\ Len(results) > 0 /\ sending' = results[1] /\ Len(results') = Len(results) - 1
            /\ \A k \in 1 .. Len(results') : results'[k] = results[k + 1]
         \/ /\ ~Sent' /\ Len(results) = 0 /\ Len(results') = 0
      /\ ~Sent /\ Len(results) \in Nat
  <2>1. CASE results # <<>>
    <3>1. Head(results) = results[1] /\ results[1] \in ResultEntry /\ Len(results) > 0
      BY <2>1 DEF WireInv, EntriesReal
    <3>2. /\ Len(Tail(results)) = Len(results) - 1
          /\ \A k \in 1 .. Len(results) - 1 : Tail(results)[k] = results[k + 1]
      BY <2>1 DEF WireInv, EntriesReal
    <3>3. Sent' /\ ~Sent
      BY <1>2, <2>1, <3>1 DEF Sent, ResultEntry, Sorts
    <3>4. sending' = results[1] /\ results' = Tail(results) /\ Len(results) \in Nat
      BY <1>2, <2>1, <3>1 DEF WireInv, EntriesReal
    <3>5. QED
      BY <3>1, <3>2, <3>3, <3>4
  <2>2. CASE results = <<>>
    <3>1. Head(dataQ) \in StageEntry
      BY <1>2, <2>2 DEF WireInv, EntriesReal
    <3>2. ~Sent' /\ ~Sent
      BY <1>2, <2>2, <3>1 DEF Sent, StageEntry
    <3>3. QED
      BY <1>2, <2>2, <3>2
  <2>3. QED
    BY <2>1, <2>2
<1>4. \A sort, i : Ahead(sort, i)' <=> Ahead(sort, i)
  <2> SUFFICES ASSUME NEW sort, NEW i PROVE Ahead(sort, i)' <=> Ahead(sort, i)
    OBVIOUS
  <2>1. ASSUME Ahead(sort, i)' PROVE Ahead(sort, i)
    <3>1. CASE Sent' /\ sending'.kind = sort /\ sending'.buffer = i
      BY <1>3, <3>1 DEF Ahead
    <3>2. CASE \E k \in 1 .. Len(results') : results'[k].kind = sort /\ results'[k].buffer = i
      <4>1. PICK k \in 1 .. Len(results') : results'[k].kind = sort /\ results'[k].buffer = i
        BY <3>2
      <4>2. k + 1 \in 1 .. Len(results) /\ results'[k] = results[k + 1]
        BY <1>3, <4>1
      <4>3. QED
        BY <4>1, <4>2 DEF Ahead
    <3>3. QED
      BY <2>1, <3>1, <3>2 DEF Ahead
  <2>2. ASSUME Ahead(sort, i) PROVE Ahead(sort, i)'
    <3>1. PICK k \in 1 .. Len(results) : results[k].kind = sort /\ results[k].buffer = i
      BY <2>2, <1>3 DEF Ahead
    <3>2. CASE k = 1
      BY <1>3, <3>1, <3>2 DEF Ahead
    <3>3. CASE k > 1
      <4>1. k - 1 \in 1 .. Len(results') /\ results'[k - 1] = results[(k - 1) + 1]
        BY <1>3, <3>1, <3>3
      <4>2. (k - 1) + 1 = k
        BY <3>1, <1>3
      <4>3. QED
        BY <3>1, <4>1, <4>2 DEF Ahead
    <3>4. QED
      BY <3>1, <3>2, <3>3, <1>3
  <2>3. QED
    BY <2>1, <2>2
<1>5. /\ other' = other /\ (\A i : Tailing(i)' <=> Tailing(i)) /\ (\A i : Final(i)' = Final(i))
      /\ (Unwritten' <=> Unwritten) /\ Top' = Top
  BY <1>1 DEF Tailing, other, Final, Unwritten, Top
<1>6. (\A i : Midway(i)' <=> Midway(i)) /\ \A i : Waiting(i)' <=> Waiting(i)
  BY <1>1, <1>4, <1>5 DEF Midway, Waiting
<1>7. LineRight'
  <2>2. \A k \in 1 .. Len(results') : k + 1 \in 1 .. Len(results) /\ results'[k] = results[k + 1]
    BY <1>3
  <2>3. Sent' => 1 \in 1 .. Len(results) /\ sending' = results[1]
    BY <1>3
  <2>4. \A j, k \in 1 .. Len(results') : (j < k => j + 1 < k + 1) /\ 1 < k + 1
    BY <1>3
  <2>5. (\A k \in 1 .. Len(results) : Right(results[k]))
        /\ \A j, k \in 1 .. Len(results) : j < k => Rank(results[j]) < Rank(results[k])
    BY DEF StreamInv, LineRight
  <2>6. (Sent => Right(sending))'
    BY <1>1, <2>3, <2>5 DEF Right, Final
  <2>7. (\A k \in 1 .. Len(results) : Right(results[k]))'
    <3>1. ASSUME NEW k \in 1 .. Len(results')
          PROVE  (Right(results[k]))'
      <4>1. results'[k] = results[k + 1] /\ Right(results[k + 1])
        BY <2>2, <2>5
      <4>2. QED
        BY <1>1, <4>1 DEF Right, Final
    <3>2. QED
      BY <3>1
  <2>8. (\A k \in 1 .. Len(results) : Sent => Rank(sending) < Rank(results[k]))'
    BY <1>1, <2>2, <2>3, <2>4, <2>5 DEF Rank
  <2>9. (\A j, k \in 1 .. Len(results) : j < k => Rank(results[j]) < Rank(results[k]))'
    BY <1>1, <2>2, <2>4, <2>5 DEF Rank
  <2>10. QED
    BY <2>6, <2>7, <2>8, <2>9 DEF LineRight
<1>8. TailComes' /\ MidwayAlone'
  BY <1>1, <1>4, <1>5, <1>6 DEF StreamInv, TailComes, MidwayAlone
<1>9. HostAgrees' /\ HostBehind'
  BY <1>1, <1>5, <1>6 DEF StreamInv, HostAgrees, HostBehind
<1>10. FramesLinked'
  BY <1>1, <1>5 DEF StreamInv, FramesLinked, Linked, Below
<1>11. Flushable'
  BY <1>1, <1>5 DEF StreamInv, Flushable
<1>12. GivenOnce'
  BY <1>1, <1>2, <1>4, <1>5 DEF StreamInv, GivenOnce
<1>13. QED
  BY <1>7, <1>8, <1>9, <1>10, <1>11, <1>12 DEF StreamInv

\* The result in flight comes back, sent or refused: what is behind it in the
\* line is about the same buffer's tail or about younger buffers.
LEMMA SendingLeaves ==
  ASSUME WireInv, StreamInv, Sent, ~inFlight', sending' = sending, NEW t \in Bulk!Kickers,
         results' = results, mem' = mem, tail' = tail, len' = len, busy' = busy, cur' = cur,
         writing' = writing,
         kick'[t].at = "done", kick'[t].entry = sending,
         \A u \in Bulk!Kickers \ {t} : kick'[u].at = "done" => kick'[u] = kick[u]
  PROVE  /\ LineRight' /\ TailComes' /\ MidwayAlone' /\ GivenOnce'
         /\ Right(sending)
         /\ \A sort, i : Ahead(sort, i)' => Ahead(sort, i)
         /\ ~Ahead(sending.kind, sending.buffer)'
         /\ sending.kind # "most" =>
              /\ ~Ahead("last", sending.buffer)' /\ ~Tailing(sending.buffer)
              /\ \A i : Midway(i)' => Midway(i)
         /\ \A i : Midway(i)' => Midway(i) \/ (i = sending.buffer /\ sending.kind = "most")
<1> DEFINE b == sending.buffer
           kd == sending.kind
<1>1. /\ Right(sending) /\ b \in {0, 1} /\ kd \in Sorts /\ cur \in {0, 1}
      /\ Ahead(kd, b)
  BY DEF StreamInv, LineRight, Right, WireInv, BufferShape, Ahead
<1>2. \A k \in 1 .. Len(results) :
        /\ results[k].kind \in Sorts /\ results[k].buffer \in {0, 1}
        /\ Rank(sending) < Rank(results[k])
        /\ Right(results[k])
  BY DEF StreamInv, LineRight, Right
<1>3. \A sort, i : Ahead(sort, i)' <=>
        \E k \in 1 .. Len(results) : results[k].kind = sort /\ results[k].buffer = i
  BY DEF Ahead, Sent
<1>4. \A sort, i : Ahead(sort, i)' => Ahead(sort, i)
  BY <1>3 DEF Ahead
<1>5. \A sort, i : Ahead(sort, i) => Ahead(sort, i)' \/ (sort = kd /\ i = b)
  BY <1>3 DEF Ahead
\* what the ranks say of what is behind
<1>6. /\ ~Ahead(kd, b)'
      /\ kd = "last" => \A sort \in Sorts : ~Ahead(sort, b)'
      /\ kd # "most" => ~Ahead("most", b)'
      /\ b = other => \A sort \in Sorts : ~Ahead(sort, cur)'
  <2>1. ASSUME NEW k \in 1 .. Len(results)
        PROVE  /\ results[k].buffer = b => results[k].kind = "last" /\ kd # "last"
               /\ b = other => results[k].buffer # cur
    <3> DEFINE e == results[k]
    <3>1. /\ Rank(sending) < Rank(e) /\ e.kind \in Sorts /\ e.buffer \in {0, 1}
      BY <1>2
    <3> HIDE DEF e
    <3>2. QED
      BY <1>1, <3>1 DEF Rank, Sorts, other, e
  <2>2. ASSUME NEW sort, NEW i, Ahead(sort, i)'
        PROVE  (i = b => sort = "last" /\ kd # "last") /\ (b = other => i # cur)
    BY <1>3, <2>1, <2>2
  <2> HIDE DEF b, kd
  <2>3. b' = b /\ kd' = kd /\ cur' = cur
    BY DEF b, kd
  <2>4. QED
    BY <1>1, <2>2, <2>3 DEF Sorts
<1>7. kd = "whole" => \A sort \in Sorts : ~Ahead(sort, b)'
  <2>1. ASSUME kd = "whole", NEW k \in 1 .. Len(results), results[k].buffer = b
        PROVE  results[k].kind = "whole"
    BY <1>1, <1>2, <2>1 DEF Right, Sorts
  <2>2. ASSUME NEW k \in 1 .. Len(results), results[k].buffer = b
        PROVE  results[k].kind # kd
    <3>1. ~Ahead(kd, b)' /\ b' = b /\ kd' = kd
      BY <1>6
    <3>2. QED
      BY <1>3, <2>2, <3>1
  <2>3. b' = b
    OBVIOUS
  <2>4. QED
    BY <2>1, <2>2, <2>3, <1>3
<1>8. kd # "most" => ~Tailing(b) /\ ~Ahead("last", b)'
  <2>1. CASE kd = "last"
    BY <1>1, <1>6, <2>1 DEF StreamInv, TailComes, Tailing, Sorts
  <2>2. CASE kd = "whole"
    BY <1>1, <1>7, <2>2 DEF StreamInv, TailComes, Tailing, Sorts, Right
  <2>3. QED
    BY <1>1, <2>1, <2>2 DEF Sorts
<1>9. /\ other' = other /\ (\A i : Tailing(i)' <=> Tailing(i)) /\ \A i : Final(i)' = Final(i)
  BY DEF other, Tailing, Final
<1>10. \A i : Midway(i)' => Midway(i) \/ (i = b /\ kd = "most")
  BY <1>4, <1>5, <1>9 DEF Midway
<1>11. LineRight'
  <2>1. ~Sent'
    BY DEF Sent
  <2>2. (\A k \in 1 .. Len(results) : Right(results[k]))'
    BY <1>2, <1>9 DEF Right
  <2>3. (\A j, k \in 1 .. Len(results) : j < k => Rank(results[j]) < Rank(results[k]))'
    BY DEF StreamInv, LineRight, Rank
  <2>4. QED
    BY <2>1, <2>2, <2>3 DEF LineRight
<1>12. TailComes'
  <2>1. ASSUME NEW i \in {0, 1}, Ahead("most", i)'
        PROVE  Ahead("last", i)' \/ Tailing(i)
    <3>1. Ahead("last", i) \/ Tailing(i)
      BY <2>1, <1>4 DEF StreamInv, TailComes
    <3>2. ~(kd = "last" /\ i = b)
      <4>1. b' = b
        OBVIOUS
      <4>2. QED
        BY <2>1, <4>1, <1>6 DEF Sorts
    <3>3. QED
      BY <3>1, <3>2, <1>5
  <2>2. QED
    BY <2>1, <1>4, <1>9 DEF StreamInv, TailComes
<1>13. MidwayAlone'
  BY <1>4, <1>6, <1>9, <1>10 DEF StreamInv, MidwayAlone
<1>14. GivenOnce'
  <2> DEFINE Back(u) == kick[u].at = "done" /\ kick[u].entry.kind \in {"whole", "last"}
             Of(u) == kick[u].entry.buffer
             Clear(i) == i \in {0, 1} /\ busy[i] /\ ~Tailing(i) /\ \A sort \in Sorts : ~Ahead(sort, i)
  <2>1. \A u \in Bulk!Kickers \ {t} : Back(u)' => Back(u) /\ Of(u)' = Of(u)
    OBVIOUS
  <2>2. \A u \in Bulk!Kickers : Back(u) =>
          Clear(Of(u)) /\ \A v \in Bulk!Kickers : Back(v) /\ Of(v) = Of(u) => v = u
    BY DEF StreamInv, GivenOnce
  <2>3. \A u \in Bulk!Kickers : Back(u) => Of(u) # b
    BY <1>1, <2>2
  <2>4. \A i : Clear(i) => Clear(i)'
    BY <1>4, <1>9
  <2>5. /\ Of(t)' = b
        /\ Back(t)' => kd # "most"
    BY DEF Sorts
  <2>6. kd # "most" => \A i : i = b => Clear(i)'
    <3>1. ASSUME kd # "most" PROVE b \in {0, 1} /\ busy[b] /\ ~Tailing(b)
      BY <1>1, <1>8, <3>1 DEF Right
    <3>2. ASSUME kd # "most" PROVE \A sort \in Sorts : ~Ahead(sort, b)'
      BY <1>1, <1>6, <1>7, <3>2 DEF Sorts
    <3>3. b' = b
      OBVIOUS
    <3>4. QED
      BY <1>9, <3>1, <3>2, <3>3
  <2> HIDE DEF b, kd, Back, Of, Clear
  <2>7. \A u \in Bulk!Kickers : Back(u)' =>
          (\A i : i = Of(u)' => Clear(i)') /\ \A v \in Bulk!Kickers : Back(v)' /\ Of(v)' = Of(u)' => v = u
    BY <2>1, <2>2, <2>3, <2>4, <2>5, <2>6
  <2>8. (\A u \in Bulk!Kickers : Back(u) =>
           Clear(Of(u)) /\ \A v \in Bulk!Kickers : Back(v) /\ Of(v) = Of(u) => v = u)'
    <3>1. ASSUME NEW u \in Bulk!Kickers, Back(u)' PROVE Clear(Of(u))'
      <4>1. PICK i : i = Of(u)'
        OBVIOUS
      <4>2. Clear(i)'
        BY <2>7, <3>1, <4>1
      <4>3. QED
        BY <4>1, <4>2 DEF Clear, Ahead, Tailing
    <3>2. QED
      BY <2>7, <3>1
  <2>9. QED
    BY <2>8 DEF GivenOnce, Back, Of, Clear
<1>15. QED
  BY <1>1, <1>4, <1>6, <1>8, <1>10, <1>11, <1>12, <1>13, <1>14

\* A write the device refuses, the cable being out.
LEMMA RefusedKeeps ==
  ASSUME WireInv, WireInv', StreamInv, NEW t \in Bulk!Kickers, Bulk!KickWrite(t), ~mounted
  PROVE  StreamInv'
<1> USE DEF Bulk!buffers, Bulk!queues, Bulk!loopAt
<1>1. /\ results' = results /\ ~inFlight' /\ sending' = sending
      /\ mem' = mem /\ tail' = tail /\ len' = len /\ busy' = busy /\ cur' = cur
      /\ host' = host /\ ~mounted'
      /\ writing' = writing /\ back' = back /\ wrote' = wrote /\ written' = written
  BY DEF Bulk!KickWrite
<1>2. /\ kick'[t].at = "done" /\ kick'[t].entry = sending /\ inFlight
      /\ \A u \in Bulk!Kickers \ {t} : kick'[u] = kick[u]
  BY DEF Bulk!KickWrite, WireInv, KickShape, HoldsIt
<1>3. Top' = Top /\ Top \in Int
  BY <1>1, TopInt DEF Top, Unwritten, WireInv
<1>4. Flushable'
  BY <1>1 DEF StreamInv, Flushable, other, Unwritten
<1>5. CASE Sent
  <2>1. /\ LineRight' /\ TailComes' /\ MidwayAlone' /\ GivenOnce'
        /\ \A sort, i : Ahead(sort, i)' => Ahead(sort, i)
    BY <1>1, <1>2, <1>5, SendingLeaves
  <2>2. HostAgrees'
    BY <1>1 DEF StreamInv, HostAgrees
  <2>3. HostBehind'
    BY <1>1, <2>1 DEF StreamInv, HostBehind, Waiting
  <2>4. FramesLinked'
    BY <1>1, <1>3 DEF StreamInv, FramesLinked, Linked, Below, other, Final
  <2>5. QED
    BY <1>4, <2>1, <2>2, <2>3, <2>4 DEF StreamInv
<1>6. CASE ~Sent
  <2>1. ~Sent' /\ sending.kind \notin {"whole", "last"}
    BY <1>1, <1>2, <1>6 DEF Sent
  <2>2. \A u \in Bulk!Kickers :
          kick'[u].at = "done" /\ kick'[u].entry.kind \in {"whole", "last"} => kick'[u] = kick[u]
    BY <1>2, <2>1
  <2>3. Top <= Top' /\ Top' \in Int
    BY <1>3
  <2>4. QED
    BY <1>1, <1>3, <1>4, <1>6, <2>1, <2>2, <2>3, QuietKeeps DEF WireInv
<1>7. QED
  BY <1>5, <1>6

\* A buffer given back is empty and free, and nothing in the line is about it.
LEMMA GiveBackKeeps ==
  ASSUME WireInv, WireInv', StreamInv, NEW t \in Bulk!Kickers, Bulk!GiveBack(t)
  PROVE  StreamInv'
<1> USE DEF Bulk!buffers, Bulk!queues, Bulk!loopAt
<1> DEFINE b == kick[t].entry.buffer
           sent == kick[t].entry.kind \in {"whole", "last"}
<1>1. /\ results' = results /\ inFlight' = inFlight /\ sending' = sending
      /\ mem' = mem /\ tail' = tail /\ cur' = cur /\ host' = host /\ mounted' = mounted
      /\ writing' = writing /\ back' = back /\ wrote' = wrote /\ written' = written
  BY DEF Bulk!GiveBack
<1>2. /\ kick'[t] = Bulk!Arm /\ Bulk!Arm.at = "arm" /\ kick[t].at = "done"
      /\ \A u \in Bulk!Kickers \ {t} : kick'[u] = kick[u]
  BY DEF Bulk!GiveBack, Bulk!Arm, WireInv, KickShape
<1>3. /\ len' = (IF sent THEN [len EXCEPT ![b] = 0] ELSE len)
      /\ busy' = (IF sent THEN [busy EXCEPT ![b] = FALSE] ELSE busy)
  BY DEF Bulk!GiveBack
<1>4. Top' = Top /\ Top \in Int /\ (Sent' <=> Sent) /\ other' = other /\ (Unwritten' <=> Unwritten)
  BY <1>1, TopInt DEF Top, Unwritten, WireInv, Sent, other
<1>5. CASE ~sent
  <2>1. Flushable'
    BY <1>1, <1>3, <1>4, <1>5 DEF StreamInv, Flushable
  <2>2. Top <= Top' /\ Top' \in Int
    BY <1>4
  <2>3. \A u \in Bulk!Kickers : kick'[u].at = "done" => kick'[u] = kick[u]
    BY <1>2
  <2>4. QED
    BY <1>1, <1>3, <1>4, <1>5, <2>1, <2>2, <2>3, QuietKeeps DEF WireInv
<1>6. CASE sent
  <2>1. /\ b \in {0, 1} /\ busy[b] /\ ~Tailing(b) /\ \A sort \in Sorts : ~Ahead(sort, b)
        /\ \A u \in Bulk!Kickers : kick[u].at = "done" /\ kick[u].entry.kind \in {"whole", "last"}
                                   /\ kick[u].entry.buffer = b => u = t
    BY <1>2, <1>6 DEF StreamInv, GivenOnce
  <2>2. /\ len' = [len EXCEPT ![b] = 0] /\ busy' = [busy EXCEPT ![b] = FALSE]
        /\ DOMAIN len = {0, 1} /\ DOMAIN busy = {0, 1} /\ cur \in {0, 1} /\ len[0] \in Nat /\ len[1] \in Nat
    BY <1>3, <1>6 DEF WireInv, BufferShape
  <2> HIDE DEF b, sent
  <2>3. /\ \A i \in {0, 1} \ {b} : len'[i] = len[i] /\ (busy'[i] <=> busy[i]) /\ Final(i)' = Final(i)
        /\ len'[b] = 0 /\ ~busy'[b]
    BY <1>1, <2>1, <2>2 DEF Final
  <2>4. (\A sort, i : Ahead(sort, i)' <=> Ahead(sort, i)) /\ \A i : Tailing(i)' <=> Tailing(i)
    BY <1>1, <1>4 DEF Ahead, Tailing
  <2>5. \A i \in {0, 1} : Midway(i)' <=> Midway(i)
    BY <2>1, <2>3, <2>4 DEF Midway, Sorts
  <2>6. ~Midway(b)
    BY <2>1 DEF Midway, Sorts
  <2>7. LineRight'
    <3>1. Sent => Right(sending) /\ sending.buffer # b
      BY <2>1 DEF StreamInv, LineRight, Right, Ahead
    <3>2. \A k \in 1 .. Len(results) : Right(results[k]) /\ results[k].buffer # b
      BY <2>1 DEF StreamInv, LineRight, Right, Ahead
    <3>3. (Sent => Right(sending))'
      BY <1>1, <1>4, <2>3, <3>1 DEF Right
    <3>4. ASSUME NEW k \in 1 .. Len(results)
          PROVE  (Right(results[k]))'
      <4>1. Right(results[k]) /\ results[k].buffer # b /\ results'[k] = results[k]
        BY <1>1, <3>2
      <4>2. QED
        BY <1>1, <2>3, <4>1 DEF Right
    <3>5. /\ (\A k \in 1 .. Len(results) : Sent => Rank(sending) < Rank(results[k]))'
          /\ (\A j, k \in 1 .. Len(results) : j < k => Rank(results[j]) < Rank(results[k]))'
      BY <1>1, <1>4 DEF StreamInv, LineRight, Rank
    <3>6. QED
      BY <1>1, <3>3, <3>4, <3>5 DEF LineRight
  <2>8. TailComes'
    <3>1. writing = "tail" => other \in {0, 1} \ {b}
      BY <2>1, <2>2 DEF Tailing, other
    <3>2. QED
      BY <1>1, <1>4, <2>3, <2>4, <3>1 DEF StreamInv, TailComes
  <2>9. MidwayAlone'
    BY <1>1, <1>4, <2>2, <2>4, <2>5 DEF StreamInv, MidwayAlone, other
  <2>10. HostAgrees'
    <3>1. \A i \in {0, 1} : Midway(i) => Final(i)' = Final(i)
      BY <2>3, <2>6
    <3>2. QED
      BY <1>1, <2>5, <3>1 DEF StreamInv, HostAgrees
  <2>11. HostBehind'
    <3>1. \A i \in {0, 1} \ {b} : Waiting(i)' => Waiting(i)
      BY <1>1, <2>3, <2>4 DEF Waiting
    <3>2. QED
      BY <1>1, <2>3, <3>1 DEF StreamInv, HostBehind
  <2>12. FramesLinked'
    <3>1. \A i \in {0, 1} : Linked(i)'
      BY <1>1, <2>3 DEF StreamInv, FramesLinked, Linked
    <3>2. \A i, j \in {0, 1} : Below(i, j) => Below(i, j)'
      BY <1>1, <2>3 DEF Below
    <3>3. \A i, j \in {0, 1} : i = b \/ j = b => Below(i, j)'
      BY <1>1, <2>3 DEF Below
    <3>4. (IF busy[cur] THEN Below(cur, other) ELSE Below(other, cur))'
      <4>1. CASE cur = b
        BY <1>1, <1>4, <2>1, <2>2, <3>3, <4>1 DEF other
      <4>2. CASE other = b
        BY <1>1, <1>4, <2>1, <2>2, <3>3, <4>2 DEF other
      <4>3. QED
        BY <2>1, <2>2, <4>1, <4>2 DEF other
    <3>5. (\A i \in {0, 1} : \A k \in 1 .. len[i] : mem[i][k].id <= Top)'
      BY <1>1, <1>4, <2>3 DEF StreamInv, FramesLinked
    <3>6. QED
      BY <1>1, <1>4, <3>1, <3>4, <3>5 DEF StreamInv, FramesLinked
  <2>13. Flushable'
    BY <1>1, <1>4, <2>1, <2>2, <2>3 DEF StreamInv, Flushable, other
  <2>14. GivenOnce'
    <3>1. \A u \in Bulk!Kickers : kick'[u].at = "done" => u # t /\ kick'[u] = kick[u]
      BY <1>2
    <3>2. \A u \in Bulk!Kickers \ {t} : kick[u].at = "done" /\ kick[u].entry.kind \in {"whole", "last"}
            => kick[u].entry.buffer \in {0, 1} \ {b}
      BY <2>1 DEF StreamInv, GivenOnce
    <3>3. QED
      BY <2>3, <2>4, <3>1, <3>2 DEF StreamInv, GivenOnce
  <2>15. QED
    BY <2>7, <2>8, <2>9, <2>10, <2>11, <2>12, <2>13, <2>14 DEF StreamInv
<1>7. QED
  BY <1>5, <1>6

\* Ranks are one to four, so a line in which one of them is free has room for one more.
LEMMA LineShort ==
  ASSUME WireInv, LineRight, NEW m \in 1 .. 4, \A k \in 1 .. Len(results) : Rank(results[k]) # m
  PROVE  Len(results) \in Nat /\ Len(results) < Queue
<1> DEFINE n == Len(results)
           r(k) == Rank(results[k])
<1>1. n \in Nat /\ \A k \in 1 .. n : r(k) \in 1 .. 4 /\ r(k) # m
  BY DEF WireInv, EntriesReal, BufferShape, LineRight, Right, Rank, Sorts
<1>2. \A j, k \in 1 .. n : j < k => r(j) < r(k)
  BY DEF LineRight
<1> HIDE DEF n, r
<1>3. n < 4
  <2> SUFFICES ASSUME n >= 4 PROVE FALSE
    BY <1>1
  <2>1. 1 \in 1 .. n /\ 2 \in 1 .. n /\ 3 \in 1 .. n /\ 4 \in 1 .. n
    BY <1>1
  <2>2. r(1) < r(2) /\ r(2) < r(3) /\ r(3) < r(4)
    BY <1>2, <2>1
  <2>3. /\ r(1) \in 1 .. 4 /\ r(2) \in 1 .. 4 /\ r(3) \in 1 .. 4 /\ r(4) \in 1 .. 4
        /\ r(1) # m /\ r(2) # m /\ r(3) # m /\ r(4) # m
    BY <1>1, <2>1
  <2>4. QED
    BY <2>2, <2>3
<1>4. Queue \in Nat /\ Queue >= 4
  BY BesideAssumption DEF Bulk!BulkAssumption
<1>5. QED
  BY <1>1, <1>3, <1>4 DEF n

\* What one more at the end of the line makes ahead.
LEMMA OneMore ==
  ASSUME WireInv, NEW e \in ResultEntry, results' = Append(results, e),
         Sent' <=> Sent, sending' = sending
  PROVE  /\ \A sort, i : Ahead(sort, i)' <=> Ahead(sort, i) \/ (sort = e.kind /\ i = e.buffer)
         /\ Len(results) \in Nat /\ Len(results') = Len(results) + 1
         /\ results'[Len(results) + 1] = e
         /\ \A k \in 1 .. Len(results) : results'[k] = results[k]
<1> DEFINE n == Len(results)
<1>1. /\ n \in Nat /\ Len(results') = n + 1 /\ results'[n + 1] = e
      /\ \A k \in 1 .. n : results'[k] = results[k]
  BY DEF WireInv, EntriesReal
<1> DEFINE In(q, sort, i) == \E k \in 1 .. Len(q) : q[k].kind = sort /\ q[k].buffer = i
<1>2. ASSUME NEW sort, NEW i
      PROVE  In(results', sort, i) <=> In(results, sort, i) \/ (sort = e.kind /\ i = e.buffer)
  <2>1. ASSUME In(results', sort, i) PROVE In(results, sort, i) \/ (sort = e.kind /\ i = e.buffer)
    <3>1. PICK k \in 1 .. n + 1 : results'[k].kind = sort /\ results'[k].buffer = i
      BY <1>1, <2>1
    <3>2. k = n + 1 \/ k \in 1 .. n
      BY <1>1, <3>1
    <3>3. QED
      BY <1>1, <3>1, <3>2
  <2>2. ASSUME In(results, sort, i) PROVE In(results', sort, i)
    <3>1. PICK k \in 1 .. n : results[k].kind = sort /\ results[k].buffer = i
      BY <2>2
    <3>2. k \in 1 .. n + 1 /\ results'[k] = results[k]
      BY <1>1, <3>1
    <3>3. QED
      BY <1>1, <3>1, <3>2
  <2>3. ASSUME sort = e.kind, i = e.buffer PROVE In(results', sort, i)
    <3>1. n + 1 \in 1 .. n + 1
      BY <1>1
    <3>2. QED
      BY <1>1, <2>3, <3>1
  <2>4. QED
    BY <2>1, <2>2, <2>3
<1>3. \A sort, i : (Ahead(sort, i) <=> (Sent /\ sending.kind = sort /\ sending.buffer = i)
                                         \/ In(results, sort, i))
  BY DEF Ahead
<1>4. \A sort, i : (Ahead(sort, i)' <=> (Sent' /\ sending'.kind = sort /\ sending'.buffer = i)
                                          \/ In(results', sort, i))
  BY DEF Ahead
<1> HIDE DEF In
<1>5. QED
  BY <1>1, <1>2, <1>3, <1>4

\* A line with one more at its end is a right line when that one is right, is
\* ranked above the rest and the rest keep their order.
LEMMA LongerRight ==
  ASSUME WireInv, NEW e \in ResultEntry, results' = Append(results, e), Sent' <=> Sent,
         sending' = sending,
         (Sent => Right(sending))', (Right(e))',
         \A k \in 1 .. Len(results) : (Right(results[k]))',
         LineRight, NEW line \in SUBSET ResultEntry,
         Sent => sending \in line, \A k \in 1 .. Len(results) : results[k] \in line,
         \A f, g \in line : Rank(f) < Rank(g) => (Rank(f) < Rank(g))',
         Sent => (Rank(sending) < Rank(e))',
         \A k \in 1 .. Len(results) : (Rank(results[k]) < Rank(e))'
  PROVE  LineRight'
<1> DEFINE n == Len(results)
<1>1. /\ n \in Nat /\ Len(results') = n + 1 /\ results'[n + 1] = e
      /\ \A k \in 1 .. n : results'[k] = results[k]
  BY OneMore
<1>2. \A k \in 1 .. n + 1 : k = n + 1 \/ k \in 1 .. n
  BY <1>1
<1>3. (Sent => sending \in line) /\ \A k \in 1 .. n : results[k] \in line
  OBVIOUS
<1>4. (\A k \in 1 .. Len(results) : Right(results[k]))'
  BY <1>1, <1>2
<1>5. ASSUME NEW k \in 1 .. n
      PROVE  (Sent => Rank(sending) < Rank(results[k]))'
  <2>1. Sent => Rank(sending) < Rank(results[k])
    BY DEF LineRight
  <2>2. Sent => (\A f, g : f = sending /\ g = results[k] => (Rank(f) < Rank(g))')
    BY <1>3, <2>1
  <2>3. results'[k] = results[k]
    BY <1>1
  <2>4. QED
    BY <2>2, <2>3 DEF Rank
<1>6. ASSUME NEW j \in 1 .. n, NEW k \in 1 .. n, j < k
      PROVE  (Rank(results[j]) < Rank(results[k]))'
  <2>1. Rank(results[j]) < Rank(results[k])
    BY <1>6 DEF LineRight
  <2>2. \A f, g : f = results[j] /\ g = results[k] => (Rank(f) < Rank(g))'
    BY <1>3, <2>1
  <2>3. results'[j] = results[j] /\ results'[k] = results[k]
    BY <1>1
  <2>4. QED
    BY <2>2, <2>3 DEF Rank
<1>7. (\A k \in 1 .. Len(results) : Sent => Rank(sending) < Rank(results[k]))'
  <2>1. ASSUME NEW k \in 1 .. n + 1 PROVE (Sent => Rank(sending) < Rank(results[k]))'
    <3>1. CASE k \in 1 .. n
      BY <1>5, <3>1
    <3>2. CASE k = n + 1
      BY <1>1, <3>2 DEF Rank
    <3>3. QED
      BY <1>2, <3>1, <3>2
  <2>2. QED
    BY <1>1, <2>1
<1>8. (\A j, k \in 1 .. Len(results) : j < k => Rank(results[j]) < Rank(results[k]))'
  <2>1. ASSUME NEW j \in 1 .. n + 1, NEW k \in 1 .. n + 1, j < k
        PROVE  (Rank(results[j]) < Rank(results[k]))'
    <3>1. j \in 1 .. n
      BY <1>1, <2>1
    <3>2. CASE k \in 1 .. n
      BY <1>6, <2>1, <3>1, <3>2
    <3>3. CASE k = n + 1
      BY <1>1, <3>1, <3>3 DEF Rank
    <3>4. QED
      BY <1>2, <3>2, <3>3
  <2>2. QED
    BY <1>1, <2>1
<1>9. QED
  BY <1>4, <1>7, <1>8 DEF LineRight

\* The last byte's entry goes to the end of the line, behind its buffer's.
LEMMA TailKeeps ==
  ASSUME WireInv, WireInv', StreamInv, Bulk!FlushTail
  PROVE  StreamInv'
<1> USE DEF Bulk!buffers, Bulk!queues, Bulk!loopAt
<1>0. PICK e \in ResultEntry : e = Bulk!Last(other)
  <2>1. Bulk!Last(other) \in ResultEntry
    BY DEF Bulk!Last, ResultEntry, Sorts, WireInv, BufferShape, other
  <2>2. QED
    BY <2>1
<1>1. /\ inFlight' = inFlight /\ sending' = sending /\ writing = "tail" /\ writing' = "kick"
      /\ mem' = mem /\ tail' = tail /\ len' = len /\ busy' = busy /\ cur' = cur
      /\ host' = host /\ mounted' = mounted
      /\ back' = back /\ wrote' = wrote /\ written' = written
  BY DEF Bulk!FlushTail
<1>2. /\ e \in ResultEntry /\ e.kind = "last" /\ e.buffer = other /\ other \in {0, 1}
      /\ cur \in {0, 1} /\ other # cur
  BY <1>0 DEF Bulk!Last, WireInv, BufferShape, other
<1>3. /\ busy[other] /\ len[other] > 0 /\ len[other] % Packet = 0
      /\ tail[other] = <<Final(other)>> /\ ~Ahead("last", other)
  BY <1>1 DEF StreamInv, TailComes
<1>4. /\ Sent => Right(sending) /\ Rank(sending) < 4
      /\ \A k \in 1 .. Len(results) : Right(results[k]) /\ Rank(results[k]) < 4
  <2>1. Sent => Right(sending) /\ ~(sending.kind = "last" /\ sending.buffer = other)
    BY <1>3 DEF StreamInv, LineRight, Ahead
  <2>2. \A k \in 1 .. Len(results) : Right(results[k])
          /\ ~(results[k].kind = "last" /\ results[k].buffer = other)
    BY <1>3 DEF StreamInv, LineRight, Ahead
  <2>3. \A f : Right(f) /\ ~(f.kind = "last" /\ f.buffer = other) => Rank(f) < 4
    BY <1>2 DEF Rank, Right, Sorts, other
  <2>4. QED
    BY <2>1, <2>2, <2>3
<1>5. results' = Append(results, e)
  <2>1. \A k \in 1 .. Len(results) : Rank(results[k]) # 4
    BY <1>4 DEF Rank
  <2>2. Len(results) < Queue
    BY <2>1, LineShort DEF StreamInv
  <2>3. QED
    BY <1>0, <2>2 DEF Bulk!FlushTail, Bulk!Queued, other
<1>6. Top' = Top /\ (Sent' <=> Sent) /\ other' = other /\ (Unwritten' <=> Unwritten)
  BY <1>1 DEF Top, Unwritten, Sent, other
<1>7. /\ \A sort, i : Ahead(sort, i)' <=> Ahead(sort, i) \/ (sort = "last" /\ i = other)
      /\ \A k \in 1 .. Len(results) : results'[k] = results[k]
  BY <1>1, <1>2, <1>5, <1>6, OneMore
<1>8. (\A i : Final(i)' = Final(i)) /\ \A i : ~Tailing(i)' /\ (Tailing(i) <=> i = other)
  BY <1>1 DEF Final, Tailing
<1>9. LineRight'
  <2>1. (Sent => Right(sending))'
    BY <1>1, <1>4, <1>6 DEF Right, Final
  <2>2. (Right(e))'
    BY <1>1, <1>2, <1>3, <1>6, <1>8 DEF Right, Sorts, Bulk!Last
  <2>3. ASSUME NEW k \in 1 .. Len(results) PROVE (Right(results[k]))'
    <3>1. Right(results[k]) /\ results'[k] = results[k]
      BY <1>4, <1>7
    <3>2. QED
      BY <1>1, <3>1 DEF Right, Final
  <2>4. \A f, g \in ResultEntry : Rank(f) < Rank(g) => (Rank(f) < Rank(g))'
    BY <1>1 DEF Rank
  <2>5. Sent => (Rank(sending) < Rank(e))'
    BY <1>1, <1>2, <1>4 DEF Rank
  <2>6. ASSUME NEW k \in 1 .. Len(results) PROVE (Rank(results[k]) < Rank(e))'
    <3>1. Rank(results[k]) < 4 /\ results'[k] = results[k]
      BY <1>4, <1>7
    <3>2. QED
      BY <1>1, <1>2, <3>1 DEF Rank
  <2>7. QED
    <3>1. /\ Sent => sending \in ResultEntry
          /\ \A k \in 1 .. Len(results) : results[k] \in ResultEntry
      BY DEF WireInv, EntriesReal, Sent, StageEntry
    <3>2. QED
      BY <1>1, <1>2, <1>5, <1>6, <2>1, <2>2, <2>3, <2>4, <2>5, <2>6, <3>1, LongerRight
         DEF StreamInv
<1>10. TailComes'
  BY <1>1, <1>2, <1>7, <1>8 DEF StreamInv, TailComes
<1>11. \A i \in {0, 1} : (Midway(i)' <=> Midway(i)) /\ (Waiting(i)' <=> Waiting(i))
  BY <1>1, <1>2, <1>7, <1>8 DEF Midway, Waiting
<1>12. MidwayAlone'
  BY <1>1, <1>2, <1>6, <1>7, <1>11 DEF StreamInv, MidwayAlone
<1>13. HostAgrees'
  BY <1>1, <1>8, <1>11 DEF StreamInv, HostAgrees
<1>14. HostBehind'
  BY <1>1, <1>11 DEF StreamInv, HostBehind
<1>15. FramesLinked'
  BY <1>1, <1>6, <1>8 DEF StreamInv, FramesLinked, Linked, Below
<1>16. Flushable'
  BY <1>1, <1>6 DEF StreamInv, Flushable
<1>17. GivenOnce'
  <2>1. \A t \in Bulk!Kickers : kick'[t].at = "done" => kick'[t] = kick[t]
    BY DEF Bulk!FlushTail, Bulk!Arm, WireInv, KickShape
  <2>2. QED
    BY <1>1, <1>7, <1>8, <2>1 DEF StreamInv, GivenOnce
<1>18. QED
  BY <1>9, <1>10, <1>12, <1>13, <1>14, <1>15, <1>16, <1>17 DEF StreamInv

\* A buffer handed over goes to the end of the line and becomes the younger one.
LEMMA FlushKeeps ==
  ASSUME WireInv, WireInv', StreamInv, Bulk!Flush
  PROVE  StreamInv'
<1> USE DEF Bulk!buffers, Bulk!queues, Bulk!loopAt
<1>1. /\ inFlight' = inFlight /\ sending' = sending /\ writing = "flush"
      /\ mem' = mem /\ len' = len /\ host' = host /\ mounted' = mounted
      /\ back' = back /\ wrote' = wrote /\ written' = written
  BY DEF Bulk!Flush
<1>2. PICK c \in {0, 1}, o \in {0, 1}, n \in Nat :
        /\ c = cur /\ o = other /\ c # o /\ n = len[c] /\ n > 0 /\ ~busy[c]
        /\ cur' = o /\ other' = c /\ busy' = [busy EXCEPT ![c] = TRUE]
  <2>1. cur \in {0, 1} /\ len[cur] \in Nat /\ len[cur] # 0 /\ cur' = 1 - cur /\ ~busy[cur]
    BY <1>1 DEF WireInv, BufferShape, Bulk!Flush, StreamInv, Flushable
  <2>2. /\ other \in {0, 1} /\ cur # other /\ cur' = other /\ other' = cur
        /\ busy' = [busy EXCEPT ![cur] = TRUE]
    BY <2>1 DEF other, Bulk!Flush
  <2> USE <2>1, <2>2
  <2>3. WITNESS cur \in {0, 1}, other \in {0, 1}, len[cur] \in Nat
  <2>4. QED
    OBVIOUS
<1>3. /\ busy'[c] /\ (busy'[o] <=> busy[o]) /\ (~busy[o] => len[o] = 0) /\ len[o] \in Nat
      /\ DOMAIN tail = {0, 1}
  BY <1>2 DEF WireInv, BufferShape, StreamInv, Flushable
<1>4. PICK e \in ResultEntry :
        /\ e = IF n % Packet = 0 THEN Bulk!Most(c, n - 1) ELSE Bulk!Whole(c, n)
        /\ results' = Bulk!Queued(results, e)
  <2>1. Bulk!Most(c, n - 1) \in ResultEntry /\ Bulk!Whole(c, n) \in ResultEntry
    BY <1>2 DEF Bulk!Most, Bulk!Whole, ResultEntry, Sorts
  <2>2. results' = IF n % Packet = 0 THEN Bulk!Queued(results, Bulk!Most(c, n - 1))
                                     ELSE Bulk!Queued(results, Bulk!Whole(c, n))
    BY <1>2 DEF Bulk!Flush
  <2>3. QED
    BY <2>1, <2>2
<1>5. /\ e.buffer = c /\ e.kind \in {"whole", "most"}
      /\ e.kind = "whole" => e.length = n /\ n % Packet # 0
      /\ e.kind = "most" => e.length = n - 1 /\ n % Packet = 0
  BY <1>4 DEF Bulk!Most, Bulk!Whole
<1>6. /\ e.kind = "most" => tail' = [tail EXCEPT ![c] = <<Final(c)>>] /\ writing' = "tail"
      /\ e.kind = "whole" => tail' = tail /\ writing' = "kick"
  BY <1>2, <1>5 DEF Bulk!Flush, Final
<1>7. tail'[o] = tail[o] /\ (e.kind = "most" => tail'[c] = <<Final(c)>>)
  BY <1>2, <1>3, <1>5, <1>6
\* what is ahead is about the other buffer
<1>8. /\ Sent => Right(sending) /\ sending.buffer = o
      /\ \A k \in 1 .. Len(results) : Right(results[k]) /\ results[k].buffer = o
      /\ \A sort : ~Ahead(sort, c)
  BY <1>2 DEF StreamInv, LineRight, Right, Ahead
<1>9. results' = Append(results, e)
  <2>1. \A k \in 1 .. Len(results) : Rank(results[k]) # 1
    BY <1>2, <1>8 DEF Rank, Right, Sorts
  <2>2. Len(results) < Queue
    BY <2>1, LineShort DEF StreamInv
  <2>3. QED
    BY <1>4, <2>2 DEF Bulk!Queued
<1>10. Sent' <=> Sent
  BY <1>1 DEF Sent
<1>11. /\ \A sort, i : Ahead(sort, i)' <=> Ahead(sort, i) \/ (sort = e.kind /\ i = c)
       /\ \A k \in 1 .. Len(results) : results'[k] = results[k]
  BY <1>1, <1>5, <1>9, <1>10, OneMore
<1>12. Top' = Top /\ (Unwritten' <=> Unwritten)
  BY <1>1, <1>5, <1>6 DEF Top, Unwritten
<1>13. /\ \A i : Final(i)' = Final(i)
       /\ \A i : ~Tailing(i) /\ (Tailing(i)' <=> e.kind = "most" /\ i = c)
  BY <1>1, <1>2, <1>5, <1>6 DEF Final, Tailing
<1>14. LineRight'
  <2>1. (Sent => Right(sending))'
    BY <1>1, <1>3, <1>7, <1>8, <1>10, <1>13 DEF Right
  <2>2. (Right(e))'
    BY <1>1, <1>2, <1>3, <1>5, <1>7, <1>13 DEF Right, Sorts
  <2>3. ASSUME NEW k \in 1 .. Len(results) PROVE (Right(results[k]))'
    <3>1. Right(results[k]) /\ results'[k] = results[k] /\ results[k].buffer = o
      BY <1>8, <1>11
    <3>2. QED
      BY <1>1, <1>3, <1>7, <1>13, <3>1 DEF Right
  <2>4. PICK line \in SUBSET ResultEntry : line = {f \in ResultEntry : f.buffer = o}
    OBVIOUS
  <2>5. \A f \in line : Rank(f) = 2 + (IF f.kind = "last" THEN 2 ELSE 1)
                     /\ Rank(f)' = IF f.kind = "last" THEN 2 ELSE 1
    BY <1>2, <2>4 DEF Rank
  <2>6. Rank(e)' = 3
    BY <1>2, <1>5 DEF Rank
  <2>7. \A f, g \in line : Rank(f) < Rank(g) => (Rank(f) < Rank(g))'
    BY <2>5
  <2>8. Sent => (Rank(sending) < Rank(e))'
    BY <1>1, <1>2, <1>5, <1>8 DEF Rank
  <2>9. ASSUME NEW k \in 1 .. Len(results) PROVE (Rank(results[k]) < Rank(e))'
    <3>1. results[k].buffer = o /\ results'[k] = results[k]
      BY <1>8, <1>11
    <3>2. QED
      BY <1>2, <1>5, <3>1 DEF Rank
  <2>10. /\ Sent => sending \in line
         /\ \A k \in 1 .. Len(results) : results[k] \in line
    BY <1>8, <2>4 DEF WireInv, EntriesReal, Sent, StageEntry
  <2>11. QED
    BY <1>1, <1>9, <1>10, <2>1, <2>2, <2>3, <2>7, <2>8, <2>9, <2>10, LongerRight DEF StreamInv
<1>15. TailComes'
  <2>1. ASSUME NEW i \in {0, 1}, Ahead("most", i)' PROVE Ahead("last", i)' \/ Tailing(i)'
    BY <2>1, <1>8, <1>11, <1>13 DEF StreamInv, TailComes
  <2>2. writing' = "tail" =>
          busy'[c] /\ len[c] > 0 /\ n % Packet = 0 /\ tail'[c] = <<Final(c)>> /\ ~Ahead("last", c)'
    BY <1>2, <1>3, <1>5, <1>6, <1>7, <1>8, <1>11
  <2>3. QED
    BY <1>1, <1>2, <1>13, <2>1, <2>2 DEF TailComes
<1>16. ~Midway(c) /\ ~Midway(c)' /\ (Midway(o)' <=> Midway(o))
  <2>1. ~Midway(c)
    BY <1>2 DEF Midway
  <2>2. ~Midway(c)'
    BY <1>5, <1>8, <1>11, <1>13 DEF Midway
  <2>3. Midway(o)' <=> Midway(o)
    BY <1>2, <1>3, <1>11, <1>13 DEF Midway
  <2>4. QED
    BY <2>1, <2>2, <2>3
<1>17. MidwayAlone'
  BY <1>2, <1>16 DEF MidwayAlone
<1>18. HostAgrees'
  BY <1>1, <1>2, <1>13, <1>16 DEF StreamInv, HostAgrees
<1>19. HostBehind'
  <2>1. ASSUME NEW i \in {0, 1}, Waiting(i)', NEW k \in 1 .. len[i]
        PROVE  Waiting(i)
    BY <1>2, <1>3, <1>5, <1>11, <2>1 DEF Waiting
  <2>2. QED
    BY <1>1, <2>1 DEF StreamInv, HostBehind
<1>20. FramesLinked'
  <2>1. (\A i : Linked(i)' <=> Linked(i)) /\ \A i, j : Below(i, j)' <=> Below(i, j)
    BY <1>1, <1>13 DEF Linked, Below
  <2>2. Below(o, c)
    BY <1>2 DEF StreamInv, FramesLinked
  <2>3. ~busy[o] => Below(c, o)
    BY <1>3 DEF Below
  <2>4. (IF busy[cur] THEN Below(cur, other) ELSE Below(other, cur))'
    BY <1>2, <1>3, <2>1, <2>2, <2>3 DEF Below
  <2>5. QED
    BY <1>1, <1>12, <2>1, <2>4 DEF StreamInv, FramesLinked
<1>21. Flushable'
  BY <1>1, <1>2, <1>3, <1>5, <1>6, <1>12 DEF StreamInv, Flushable
<1>22. GivenOnce'
  <2>1. \A t \in Bulk!Kickers : kick'[t].at = "done" => kick'[t] = kick[t]
    BY DEF Bulk!Flush, Bulk!Arm, WireInv, KickShape
  <2>2. \A t \in Bulk!Kickers : kick[t].at = "done" /\ kick[t].entry.kind \in {"whole", "last"}
          => kick[t].entry.buffer = o
    BY <1>2 DEF StreamInv, GivenOnce
  <2>3. QED
    BY <1>2, <1>3, <1>11, <1>13, <2>1, <2>2 DEF StreamInv, GivenOnce
<1>23. QED
  BY <1>14, <1>15, <1>17, <1>18, <1>19, <1>20, <1>21, <1>22 DEF StreamInv

\* A frame written into the buffer behind what is there: it goes on from there,
\* and it is newer than all of it.
LEMMA RoomKeeps ==
  ASSUME WireInv, WireInv', StreamInv, Bulk!Room
  PROVE  StreamInv'
<1> USE DEF Bulk!buffers, Bulk!queues, Bulk!loopAt
<1>1. /\ results' = results /\ inFlight' = inFlight /\ sending' = sending
      /\ tail' = tail /\ busy' = busy /\ cur' = cur /\ kick' = kick
      /\ host' = host /\ mounted' = mounted /\ wrote' = wrote /\ written' = written
      /\ ~busy[cur] /\ writing \in {"room", "again"}
  BY DEF Bulk!Room
<1>2. /\ Unwritten /\ Top = written.id - 1 /\ Top \in Int /\ written.id \in Nat
      /\ written.size \in Nat /\ written.size > 0
  BY <1>1, TopInt DEF Unwritten, StreamInv, Flushable, WireInv, BufferShape
<1>3. /\ other' = other /\ (Sent' <=> Sent) /\ (\A sort, i : Ahead(sort, i)' <=> Ahead(sort, i))
  BY <1>1 DEF other, Sent, Ahead
<1>4. CASE mem' = mem /\ len' = len /\ writing' = "flush" /\ back' = "again"
  <2>1. Top' = Top
    BY <1>1, <1>2, <1>4 DEF Top, Unwritten
  <2>2. Flushable'
    BY <1>1, <1>2, <1>3, <1>4 DEF StreamInv, Flushable, Unwritten
  <2>3. Top <= Top' /\ Top' \in Int
    BY <1>2, <2>1
  <2>4. QED
    BY <1>1, <1>2, <1>3, <1>4, <2>2, <2>3, QuietKeeps DEF WireInv
<1>5. CASE /\ mem' = [mem EXCEPT ![cur] = Bulk!Put(cur)]
           /\ len' = [len EXCEPT ![cur] = @ + written.size]
           /\ writing' = "idle" /\ back' = back
  <2>1. PICK c \in {0, 1}, o \in {0, 1}, n \in Nat, z \in Nat, w \in Nat :
          c = cur /\ o = other /\ c # o /\ n = len[c] /\ z = written.size /\ w = written.id
    <3>1. cur \in {0, 1} /\ other \in {0, 1} /\ cur # other /\ len[cur] \in Nat
      BY DEF WireInv, BufferShape, other
    <3> USE <1>2, <3>1
    <3>2. WITNESS cur \in {0, 1}, other \in {0, 1}, len[cur] \in Nat, written.size \in Nat,
                  written.id \in Nat
    <3>3. QED
      OBVIOUS
  <2>2. /\ z > 0 /\ ~busy[c] /\ Top = w - 1 /\ Top' = w /\ ~Unwritten'
    BY <1>1, <1>2, <1>5, <2>1 DEF Top, Unwritten
  <2>3. /\ len'[c] = n + z /\ len'[o] = len[o] /\ mem'[o] = mem[o]
        /\ \A k \in 1 .. n : mem'[c][k] = mem[c][k]
        /\ \A k \in 1 .. z : mem'[c][n + k] = [id |-> w, at |-> k, of |-> z]
    <3>1. /\ len'[c] = n + z /\ len'[o] = len[o] /\ mem'[o] = mem[o] /\ mem'[c] = Bulk!Put(c)
      BY <1>5, <2>1 DEF WireInv, BufferShape
    <3>2. /\ \A k \in 1 .. n : Bulk!Put(c)[k] = mem[c][k]
          /\ \A k \in 1 .. z : Bulk!Put(c)[n + k] = [id |-> w, at |-> k, of |-> z]
      BY <2>1, PutWell DEF WireInv
    <3>3. QED
      BY <3>1, <3>2
  <2>4. \A k \in 1 .. n + z : k \in 1 .. n \/ (k - n \in 1 .. z /\ k = n + (k - n))
    OBVIOUS
  <2>5. /\ \A i : Tailing(i)' <=> Tailing(i)
        /\ \A i : ~Tailing(i)
        /\ Final(o)' = Final(o)
    BY <1>1, <1>5, <2>1, <2>3 DEF Tailing, Final
  \* what is ahead is about the other buffer
  <2>6. /\ Sent => Right(sending) /\ sending.buffer = o
        /\ \A k \in 1 .. Len(results) : Right(results[k]) /\ results[k].buffer = o
        /\ \A sort : ~Ahead(sort, c)
    BY <2>1, <2>2 DEF StreamInv, LineRight, Right, Ahead
  <2>7. LineRight'
    <3>1. (Sent => Right(sending))'
      BY <1>1, <1>3, <2>3, <2>5, <2>6 DEF Right
    <3>2. ASSUME NEW k \in 1 .. Len(results) PROVE (Right(results[k]))'
      <4>1. Right(results[k]) /\ results'[k] = results[k] /\ results[k].buffer = o
        BY <1>1, <2>6
      <4>2. QED
        BY <1>1, <2>3, <2>5, <4>1 DEF Right
    <3>3. /\ (\A k \in 1 .. Len(results) : Sent => Rank(sending) < Rank(results[k]))'
          /\ (\A j, k \in 1 .. Len(results) : j < k => Rank(results[j]) < Rank(results[k]))'
      BY <1>1, <1>3 DEF StreamInv, LineRight, Rank
    <3>4. QED
      BY <1>1, <3>1, <3>2, <3>3 DEF LineRight
  <2>8. \A i \in {0, 1} : (Midway(i)' <=> Midway(i)) /\ (Midway(i) => i = o)
                          /\ (Waiting(i)' <=> Waiting(i))
    BY <1>1, <1>3, <2>1, <2>2, <2>5, <2>6 DEF Midway, Waiting
  <2>9. TailComes' /\ MidwayAlone'
    BY <1>1, <1>3, <1>5, <2>1, <2>5, <2>8 DEF StreamInv, TailComes, MidwayAlone
  <2>10. HostAgrees'
    BY <1>1, <2>5, <2>8 DEF StreamInv, HostAgrees
  <2>11. /\ host.id \in Nat /\ host.id < w
         /\ \A i \in {0, 1} : \A k \in 1 .. len[i] : mem[i][k].id \in Nat /\ mem[i][k].id < w
    <3>1. host.id <= Top /\ host.id \in Nat
      BY DEF StreamInv, FramesLinked, HostAgrees
    <3>2. \A i \in {0, 1} : \A k \in 1 .. len[i] : mem[i][k].id <= Top /\ mem[i][k].id \in Nat
      BY ByteAt DEF StreamInv, FramesLinked, WireInv
    <3>3. QED
      BY <2>2, <3>1, <3>2
  <2>12. \A k \in 1 .. n + z : \/ k \in 1 .. n /\ mem'[c][k] = mem[c][k]
                               \/ k - n \in 1 .. z /\ mem'[c][k] = [id |-> w, at |-> k - n, of |-> z]
    BY <2>3, <2>4
  <2>13. HostBehind'
    <3>1. ASSUME NEW k \in 1 .. n + z PROVE host.id < mem'[c][k].id
      <4>1. CASE k \in 1 .. n /\ mem'[c][k] = mem[c][k]
        BY <2>1, <2>2, <4>1 DEF StreamInv, HostBehind, Waiting
      <4>2. CASE mem'[c][k] = [id |-> w, at |-> k - n, of |-> z]
        BY <2>11, <4>2
      <4>3. QED
        BY <2>12, <4>1, <4>2
    <3>2. QED
      BY <1>1, <2>1, <2>3, <2>8, <3>1 DEF StreamInv, HostBehind
  <2>14. Linked(c)'
    <3>1. 1 \in 1 .. n + z /\ n + z \in 1 .. n + z /\ n + z > 0
      BY <2>2
    <3>2. mem'[c][1].at = 1
      <4>1. CASE n = 0
        <5>1. 1 \in 1 .. z
          BY <2>2
        <5>2. mem'[c][n + 1] = [id |-> w, at |-> 1, of |-> z]
          BY <2>3, <5>1
        <5>3. QED
          BY <4>1, <5>2
      <4>2. CASE n > 0
        BY <2>1, <2>3, <4>2 DEF StreamInv, FramesLinked, Linked
      <4>3. QED
        BY <4>1, <4>2
    <3>3. mem'[c][n + z] = [id |-> w, at |-> z, of |-> z]
      BY <2>2, <2>3
    <3>4. ASSUME NEW k \in 1 .. (n + z) - 1
          PROVE  Follows(Bulk!After(mem'[c][k]), mem'[c][k + 1])
      <4>1. CASE k < n
        <5>1. k \in 1 .. n - 1 /\ k \in 1 .. n /\ k + 1 \in 1 .. n
          BY <4>1
        <5>2. Follows(Bulk!After(mem[c][k]), mem[c][k + 1])
          BY <2>1, <5>1 DEF StreamInv, FramesLinked, Linked
        <5>3. QED
          BY <2>3, <5>1, <5>2
      <4>2. CASE k = n
        <5>1. mem'[c][k] = mem[c][n] /\ n > 0 /\ n \in 1 .. n
          BY <2>3, <4>2
        <5>2. mem[c][n].at = mem[c][n].of /\ mem[c][n].id < w /\ mem[c][n].id \in Nat
          BY <2>1, <2>11, <5>1 DEF StreamInv, FramesLinked, Linked, Final
        <5>3. mem'[c][k + 1] = [id |-> w, at |-> 1, of |-> z]
          BY <2>2, <2>3, <4>2
        <5>4. QED
          BY <5>1, <5>2, <5>3 DEF Follows, Bulk!Goes, Bulk!Anew, Bulk!After
      <4>3. CASE k > n
        <5>1. PICK j \in 1 .. z - 1 : k = n + j /\ j \in 1 .. z /\ j + 1 \in 1 .. z
          <6>1. k - n \in 1 .. z - 1 /\ k = n + (k - n) /\ k - n \in 1 .. z /\ (k - n) + 1 \in 1 .. z
            BY <4>3
          <6>2. QED
            BY <6>1
        <5>2. mem'[c][k] = [id |-> w, at |-> j, of |-> z]
          BY <2>3, <5>1
        <5>3. mem'[c][k + 1] = [id |-> w, at |-> j + 1, of |-> z]
          <6>1. k + 1 = n + (j + 1)
            BY <5>1
          <6>2. QED
            BY <2>3, <5>1, <6>1
        <5>4. QED
          BY <5>1, <5>2, <5>3 DEF Follows, Bulk!Goes, Bulk!Anew, Bulk!After
      <4>4. QED
        BY <4>1, <4>2, <4>3
    <3>5. Final(c)'.at = Final(c)'.of
      BY <2>3, <3>3 DEF Final
    <3>6. QED
      BY <2>3, <3>2, <3>4, <3>5 DEF Linked, Follows, Bulk!Goes, Bulk!Anew, Bulk!After
  <2>15. FramesLinked'
    <3>1. Linked(o)'
      BY <2>1, <2>3, <2>5 DEF StreamInv, FramesLinked, Linked
    <3>2. Linked(0)' /\ Linked(1)'
      BY <2>1, <2>14, <3>1
    <3>3. ASSUME NEW k \in 1 .. len[o], NEW l \in 1 .. n + z
          PROVE  mem[o][k].id < mem'[c][l].id
      <4>1. CASE l \in 1 .. n /\ mem'[c][l] = mem[c][l]
        BY <2>1, <2>2, <4>1 DEF StreamInv, FramesLinked, Below
      <4>2. CASE mem'[c][l] = [id |-> w, at |-> l - n, of |-> z]
        BY <2>11, <4>2
      <4>3. QED
        BY <2>12, <4>1, <4>2
    <3>4. (IF busy[cur] THEN Below(cur, other) ELSE Below(other, cur))'
      BY <1>1, <1>3, <2>1, <2>2, <2>3, <3>3 DEF Below
    <3>5. ASSUME NEW k \in 1 .. n + z PROVE mem'[c][k].id <= w
      <4>1. CASE k \in 1 .. n /\ mem'[c][k] = mem[c][k]
        BY <2>1, <2>11, <4>1
      <4>2. CASE mem'[c][k] = [id |-> w, at |-> k - n, of |-> z]
        BY <4>2
      <4>3. QED
        BY <2>12, <4>1, <4>2
    <3>6. \A i \in {0, 1} : \A k \in 1 .. len'[i] : mem'[i][k].id <= w
      BY <2>1, <2>3, <2>11, <3>5
    <3>7. QED
      BY <1>1, <2>2, <2>11, <3>2, <3>4, <3>6 DEF FramesLinked
  <2>16. Flushable'
    BY <1>1, <1>3, <1>5, <2>1, <2>2, <2>3 DEF StreamInv, Flushable
  <2>17. GivenOnce'
    BY <1>1, <1>3, <2>5 DEF StreamInv, GivenOnce
  <2>18. QED
    BY <2>7, <2>9, <2>10, <2>13, <2>15, <2>16, <2>17 DEF StreamInv
<1>6. QED
  BY <1>4, <1>5 DEF Bulk!Room

\* What is in flight is first in the line: the host stands in the middle of a
\* buffer only when that one's tail is in flight, and what the other buffer
\* has for the host is newer.
LEMMA SendingFirst ==
  ASSUME WireInv, StreamInv, Sent
  PROVE  /\ \A i \in {0, 1} : Midway(i) => i = sending.buffer /\ sending.kind = "last"
         /\ sending.kind = "last" => Midway(sending.buffer)
         /\ \A i \in {0, 1} : i # sending.buffer /\ Waiting(i) => Below(sending.buffer, i)
         /\ sending.kind # "last" => Waiting(sending.buffer)
<1> DEFINE b == sending.buffer
           kd == sending.kind
<1>1. /\ Right(sending) /\ b \in {0, 1} /\ kd \in Sorts /\ cur \in {0, 1} /\ busy[b]
      /\ Ahead(kd, b) /\ other \in {0, 1} /\ cur # other
      /\ \A i \in {0, 1} : i # b => (i = cur /\ b = other) \/ (i = other /\ b = cur)
  BY DEF StreamInv, LineRight, Right, WireInv, BufferShape, Ahead, other
<1>2. ASSUME NEW k \in 1 .. Len(results)
      PROVE  /\ Right(results[k])
             /\ kd = "last" => ~(results[k].kind = "most" /\ results[k].buffer = b)
             /\ b = other => results[k].buffer # cur
  <2> DEFINE e == results[k]
  <2>1. Rank(sending) < Rank(e) /\ Right(e) /\ e.kind \in Sorts /\ e.buffer \in {0, 1}
    BY DEF StreamInv, LineRight, Right
  <2> HIDE DEF e
  <2>2. QED
    BY <1>1, <2>1 DEF Rank, Sorts, other, e
<1>3. /\ kd = "last" => ~Ahead("most", b)
      /\ b = other => \A sort : ~Ahead(sort, cur)
  BY <1>1, <1>2 DEF Ahead
<1>4. kd = "whole" => ~Ahead("last", b) /\ ~Tailing(b)
  <2>1. ASSUME kd = "whole" PROVE len[b] % Packet # 0
    BY <1>1, <2>1 DEF Right
  <2>2. ASSUME Ahead("last", b) \/ Tailing(b), kd = "whole" PROVE len[b] % Packet = 0
    BY <1>2, <2>2 DEF Ahead, Right, Tailing, StreamInv, TailComes
  <2>3. QED
    BY <2>1, <2>2
<1>5. ASSUME NEW i \in {0, 1}, Midway(i) PROVE i = b /\ kd = "last"
  <2>1. i = b
    <3>1. CASE i = cur /\ b = other
      BY <1>1, <1>3, <1>5, <3>1 DEF Midway, Tailing
    <3>2. CASE i = other /\ b = cur
      BY <1>1, <1>5, <3>2 DEF StreamInv, MidwayAlone
    <3>3. QED
      BY <1>1, <3>1, <3>2
  <2>2. kd # "most" /\ kd # "whole"
    BY <1>1, <1>4, <1>5, <2>1 DEF Midway
  <2>3. QED
    BY <1>1, <2>1, <2>2 DEF Sorts
<1>6. kd = "last" => Midway(b)
  BY <1>1, <1>3 DEF Midway
<1>7. ASSUME NEW i \in {0, 1}, i # b, Waiting(i) PROVE Below(b, i)
  <2>1. CASE i = cur /\ b = other
    BY <1>3, <1>7, <2>1 DEF Waiting, StreamInv, FramesLinked
  <2>2. CASE i = other /\ b = cur
    BY <1>1, <2>2 DEF StreamInv, FramesLinked
  <2>3. QED
    BY <1>1, <1>7, <2>1, <2>2
<1>8. kd # "last" => Waiting(b)
  BY <1>1 DEF Waiting, Sorts
<1>9. QED
  BY <1>5, <1>6, <1>7, <1>8

\* The host that hears bytes which go on from where it stands, each from the
\* one before it, hears no half frame and none again, and stands after the last.
LEMMA HeardWell ==
  ASSUME NEW h, h = [id |-> h.id, at |-> h.at, half |-> h.half, again |-> h.again, split |-> h.split],
         ~h.half, ~h.again, NEW bytes \in Seq(Byte), bytes # <<>>,
         Follows(h, bytes[1]),
         \A k \in 1 .. Len(bytes) - 1 : Follows(Bulk!After(bytes[k]), bytes[k + 1])
  PROVE  /\ ~Bulk!Heard(h, bytes).half /\ ~Bulk!Heard(h, bytes).again
         /\ Bulk!Heard(h, bytes).id = bytes[Len(bytes)].id
         /\ Bulk!Heard(h, bytes).at = Bulk!After(bytes[Len(bytes)]).at
<1> DEFINE p(k) == IF k = 1 THEN h ELSE Bulk!After(bytes[k - 1])
           half == \E k \in 1 .. Len(bytes) : ~Bulk!Goes(p(k), bytes[k])
           again == \E k \in 1 .. Len(bytes) : ~Bulk!Anew(p(k), bytes[k])
<1>1. ASSUME NEW k \in 1 .. Len(bytes) PROVE Follows(p(k), bytes[k])
  <2>1. CASE k = 1
    BY <2>1
  <2>2. CASE k # 1
    <3>1. k - 1 \in 1 .. Len(bytes) - 1 /\ (k - 1) + 1 = k
      BY <2>2
    <3>2. QED
      BY <2>2, <3>1
  <2>3. QED
    BY <2>1, <2>2
<1>2. ~half /\ ~again
  BY <1>1 DEF Follows
<1>3. Bulk!Heard(h, bytes) =
        [h EXCEPT !.id = bytes[Len(bytes)].id, !.at = Bulk!After(bytes[Len(bytes)]).at,
                  !.half = @ \/ half, !.again = @ \/ again]
  BY DEF Bulk!Heard
<1> HIDE DEF half, again
<1>4. QED
  BY <1>2, <1>3

\* The transfer's bytes: the buffer's from the first, or its last alone; they
\* go on from where the host stands, and leave it before the last or after it.
LEMMA TransferHeard ==
  ASSUME WireInv, StreamInv, Sent, mounted, NEW b \in {0, 1}, b = sending.buffer,
         NEW h, h = Bulk!Heard(host, Bulk!Bytes(sending))
  PROVE  /\ ~h.half /\ ~h.again /\ h.id \in Nat /\ h.at \in Nat
         /\ h.id <= Final(b).id
         /\ sending.kind = "most" => Follows(h, Final(b)) 
         /\ sending.kind # "most" => h.at = 0
<1>1. PICK m \in Seq(Byte), n \in Nat, kd \in Sorts :
        m = mem[b] /\ n = len[b] /\ kd = sending.kind
  <2>1. mem[b] \in Seq(Byte) /\ len[b] \in Nat /\ sending.kind \in Sorts
    BY DEF WireInv, BufferShape, StreamInv, LineRight, Right
  <2>2. QED
    BY <2>1
<1>2. /\ n > 0 /\ n <= Len(m) /\ n \in 1 .. n /\ Final(b) = m[n]
      /\ kd = "whole" => sending.length = n
      /\ kd = "most" => sending.length = n - 1
      /\ kd = "last" => tail[b] = <<m[n]>>
  <2>1. Right(sending) /\ len[b] <= Len(mem[b])
    BY DEF WireInv, BufferShape, StreamInv, LineRight
  <2>2. QED
    BY <1>1, <2>1 DEF Right, Final, Sorts
<1>3. \A k \in 1 .. n : m[k] \in Byte
  BY <1>2
<1>4. /\ m[1].at = 1 /\ m[n].at = m[n].of
      /\ \A k \in 1 .. n - 1 : Follows(Bulk!After(m[k]), m[k + 1])
  BY <1>1, <1>2 DEF StreamInv, FramesLinked, Linked
<1>5. /\ host = [id |-> host.id, at |-> host.at, half |-> host.half, again |-> host.again,
                 split |-> host.split]
      /\ ~host.half /\ ~host.again /\ host.id \in Nat /\ host.at \in Nat
  BY DEF WireInv, HostShape, StreamInv, HostAgrees
<1>6. kd # "last" => host.at = 0 /\ host.id < m[1].id /\ Follows(host, m[1])
  <2>1. ASSUME kd # "last" PROVE host.at = 0
    BY <1>1, <2>1, SendingFirst DEF StreamInv, HostAgrees
  <2>2. ASSUME kd # "last" PROVE host.id < m[1].id
    <3>1. Waiting(b) /\ 1 \in 1 .. len[b]
      BY <1>1, <1>2, <2>2, SendingFirst
    <3>2. QED
      BY <1>1, <3>1 DEF StreamInv, HostBehind
  <2>3. QED
    BY <1>2, <1>3, <1>4, <1>5, <2>1, <2>2 DEF Follows, Bulk!Goes, Bulk!Anew, Byte
<1>7. kd = "last" => Follows(host, m[n])
  BY <1>1, <1>2, SendingFirst DEF StreamInv, HostAgrees
<1>8. /\ m[n] \in Byte /\ m[n].id \in Nat /\ m[n].id <= Final(b).id
       /\ Bulk!After(m[n]).at = 0
  BY <1>2, <1>3, <1>4 DEF Byte, Bulk!After
<1>9. CASE kd = "whole"
  <2>1. PICK bytes \in Seq(Byte) :
          bytes = Bulk!Bytes(sending) /\ Len(bytes) = n /\ \A k \in 1 .. n : bytes[k] = m[k]
    <3>1. Bulk!Bytes(sending) = SubSeq(m, 1, n)
      BY <1>1, <1>2, <1>9 DEF Bulk!Bytes
    <3>2. /\ SubSeq(m, 1, n) \in Seq(Byte) /\ Len(SubSeq(m, 1, n)) = n
          /\ \A k \in 1 .. n : SubSeq(m, 1, n)[k] = m[k]
      BY ONLY <1>1, <1>2
    <3>3. QED
      BY <3>1, <3>2
  <2>2. /\ bytes # <<>> /\ bytes[1] = m[1] /\ bytes[Len(bytes)] = m[n]
        /\ \A k \in 1 .. Len(bytes) - 1 : Follows(Bulk!After(bytes[k]), bytes[k + 1])
    BY <1>2, <1>4, <2>1
  <2>3. ~h.half /\ ~h.again /\ h.id = m[n].id /\ h.at = Bulk!After(m[n]).at
    BY <1>5, <1>6, <1>9, <2>1, <2>2, HeardWell
  <2>4. QED
    BY <1>1, <1>9, <1>8, <2>3
<1>10. CASE kd = "last"
  <2>1. PICK x \in Byte : x = m[n] /\ Bulk!Bytes(sending) = <<x>>
    BY <1>1, <1>2, <1>10, <1>8 DEF Bulk!Bytes
  <2>2. PICK bytes \in Seq(Byte) : bytes = <<x>> /\ bytes = Bulk!Bytes(sending)
    <3>1. <<x>> \in Seq(Byte)
      BY ONLY x \in Byte
    <3>2. QED
      BY <2>1, <3>1
  <2>3. /\ bytes # <<>> /\ Len(bytes) = 1 /\ bytes[1] = m[n] /\ bytes[Len(bytes)] = m[n]
        /\ \A k \in 1 .. Len(bytes) - 1 : Follows(Bulk!After(bytes[k]), bytes[k + 1])
    BY <2>1, <2>2
  <2>4. ~h.half /\ ~h.again /\ h.id = m[n].id /\ h.at = Bulk!After(m[n]).at
    BY <1>5, <1>7, <1>10, <2>2, <2>3, HeardWell
  <2>5. QED
    BY <1>1, <1>10, <1>8, <2>4
<1>11. CASE kd = "most" /\ n = 1
  <2>1. Bulk!Bytes(sending) = <<>>
    <3>1. Bulk!Bytes(sending) = SubSeq(m, 1, 0)
      BY <1>1, <1>2, <1>11 DEF Bulk!Bytes
    <3>2. QED
      BY <3>1
  <2>2. h = host
    BY <2>1 DEF Bulk!Heard
  <2>3. QED
    BY <1>1, <1>2, <1>3, <1>5, <1>6, <1>11, <2>2 DEF Byte
<1>12. CASE kd = "most" /\ n > 1
  <2>1. PICK bytes \in Seq(Byte), l \in 1 .. n - 1 :
          bytes = Bulk!Bytes(sending) /\ Len(bytes) = l /\ l = n - 1 /\ \A k \in 1 .. l : bytes[k] = m[k]
    <3>1. Bulk!Bytes(sending) = SubSeq(m, 1, n - 1)
      BY <1>1, <1>2, <1>12 DEF Bulk!Bytes
    <3>2. /\ SubSeq(m, 1, n - 1) \in Seq(Byte) /\ Len(SubSeq(m, 1, n - 1)) = n - 1
          /\ \A k \in 1 .. n - 1 : SubSeq(m, 1, n - 1)[k] = m[k]
      BY ONLY <1>1, <1>2, <1>12
    <3>3. n - 1 \in 1 .. n - 1
      BY <1>12
    <3>4. QED
      BY <3>1, <3>2, <3>3
  <2>2. /\ bytes # <<>> /\ bytes[1] = m[1] /\ bytes[Len(bytes)] = m[l]
        /\ \A k \in 1 .. Len(bytes) - 1 : Follows(Bulk!After(bytes[k]), bytes[k + 1])
    BY <1>2, <1>4, <2>1
  <2>3. ~h.half /\ ~h.again /\ h.id = m[l].id /\ h.at = Bulk!After(m[l]).at
    BY <1>5, <1>6, <1>12, <2>1, <2>2, HeardWell
  <2>4. Follows(Bulk!After(m[l]), m[n]) /\ m[l] \in Byte /\ m[n] \in Byte
    <3>1. l + 1 = n /\ l \in 1 .. n
      BY <2>1
    <3>2. QED
      BY <1>2, <1>3, <1>4, <3>1
  <2>5. /\ h.id \in Nat /\ h.at \in Nat /\ h.id <= m[n].id /\ Follows(h, m[n])
    <3>1. /\ h.id = Bulk!After(m[l]).id /\ h.at = Bulk!After(m[l]).at
          /\ h.id \in Nat /\ h.at \in Nat
      <4>1. m[l].id \in Nat /\ m[l].at \in Nat
        BY ONLY <2>4 DEF Byte
      <4>2. Bulk!After(m[l]).id = m[l].id /\ Bulk!After(m[l]).at \in {0, m[l].at}
        BY DEF Bulk!After
      <4>3. QED
        BY ONLY <2>3, <4>1, <4>2
    <3>2. /\ m[n].at = h.at + 1 /\ (h.at # 0 => m[n].id = h.id)
          /\ h.at = 0 => m[n].id > h.id
      BY ONLY <2>4, <3>1 DEF Follows, Bulk!Goes, Bulk!Anew
    <3>3. m[n].id \in Nat
      BY <2>4 DEF Byte
    <3>4. h.id <= m[n].id
      BY ONLY <3>1, <3>2, <3>3
    <3>5. Follows(h, m[n])
      BY ONLY <3>2 DEF Follows, Bulk!Goes, Bulk!Anew
    <3>6. QED
      BY <3>1, <3>4, <3>5
  <2>6. QED
    BY <1>1, <1>2, <1>12, <2>3, <2>5
<1>13. QED
  BY <1>2, <1>9, <1>10, <1>11, <1>12 DEF Sorts

\* The host takes what is on the bus.
LEMMA CompletedKeeps ==
  ASSUME WireInv, WireInv', StreamInv, Bulk!Completed
  PROVE  StreamInv'
<1> USE DEF Bulk!buffers, Bulk!queues, Bulk!loopAt
<1>1. /\ results' = results /\ ~inFlight' /\ sending' = sending
      /\ mem' = mem /\ tail' = tail /\ len' = len /\ busy' = busy /\ cur' = cur
      /\ mounted' = mounted
      /\ writing' = writing /\ back' = back /\ wrote' = wrote /\ written' = written
  BY DEF Bulk!Completed
<1>2. /\ kick'["usbd"].at = "done" /\ kick'["usbd"].entry = sending
      /\ inFlight /\ sending = onBus /\ "usbd" \in Bulk!Kickers
      /\ \A u \in Bulk!Kickers \ {"usbd"} : kick'[u] = kick[u]
  BY DEF Bulk!Completed, WireInv, KickShape, HoldsIt, Bulk!Kickers
<1>3. Top' = Top /\ Top \in Int /\ Top' \in Int
  BY <1>1, TopInt DEF Top, Unwritten, WireInv
<1>4. Flushable'
  BY <1>1 DEF StreamInv, Flushable, other, Unwritten
<1>5. CASE ~Sent
  <2>1. ~Sent' /\ sending.kind = "stage"
    BY <1>1, <1>2, <1>5 DEF Sent
  <2>2. \A u \in Bulk!Kickers :
          kick'[u].at = "done" /\ kick'[u].entry.kind \in {"whole", "last"} => kick'[u] = kick[u]
    BY <1>2, <2>1
  <2>3. \/ host' = host
        \/ host' = [host EXCEPT !.split = @ \/ host.at # 0]
    BY <1>2, <2>1 DEF Bulk!Completed
  <2>4. /\ host'.id = host.id /\ host'.at = host.at
        /\ (host'.half <=> host.half) /\ (host'.again <=> host.again)
    BY <2>3 DEF WireInv, HostShape
  <2>5. Top <= Top'
    BY <1>3
  <2>6. QED
    BY <1>1, <1>3, <1>4, <1>5, <2>1, <2>2, <2>4, <2>5, QuietKeeps DEF WireInv
<1>6. CASE Sent
  <2>1. PICK b \in {0, 1} : b = sending.buffer
    BY <1>6 DEF StreamInv, LineRight, Right
  <2>2. /\ LineRight' /\ TailComes' /\ MidwayAlone' /\ GivenOnce'
        /\ Right(sending)
        /\ \A sort, i : Ahead(sort, i)' => Ahead(sort, i)
    BY <1>1, <1>2, <1>6, SendingLeaves
  <2>3. /\ sending.kind # "most" => ~Ahead("last", b)' /\ ~Tailing(b) /\ \A i : Midway(i)' => Midway(i)
        /\ \A i : Midway(i)' => Midway(i) \/ (i = b /\ sending.kind = "most")
    <3>1. sending.kind # "most" => ~Ahead("last", sending.buffer)' /\ ~Tailing(sending.buffer)
                                   /\ \A i : Midway(i)' => Midway(i)
      BY <1>1, <1>2, <1>6, SendingLeaves
    <3>2. \A i : Midway(i)' => Midway(i) \/ (i = sending.buffer /\ sending.kind = "most")
      BY <1>1, <1>2, <1>6, SendingLeaves
    <3>3. sending'.buffer = b
      BY <1>1, <2>1
    <3>4. sending.kind # "most" => ~Ahead("last", b)'
      BY <3>1, <3>3 DEF Ahead
    <3>5. QED
      BY <2>1, <3>1, <3>2, <3>4
  <2>4. ASSUME NEW sort, sort = sending.kind PROVE ~Ahead(sort, b)'
    <3>1. ~Ahead(sending.kind, sending.buffer)'
      BY <1>1, <1>2, <1>6, SendingLeaves
    <3>2. sending'.kind = sort /\ sending'.buffer = b
      BY <1>1, <2>1, <2>4
    <3>3. ~Sent'
      BY <1>1 DEF Sent
    <3>4. ~\E k \in 1 .. Len(results') : results'[k].kind = sort /\ results'[k].buffer = b
      BY <3>1, <3>2, <3>3 DEF Ahead
    <3>5. QED
      BY <3>3, <3>4 DEF Ahead
  <2>5. /\ other' = other /\ (\A i : Tailing(i)' <=> Tailing(i)) /\ \A i : Final(i)' = Final(i)
    BY <1>1 DEF other, Tailing, Final
  <2>6. /\ b \in {0, 1} /\ busy[b] /\ len[b] > 0 /\ len[b] \in 1 .. len[b]
        /\ sending.kind \in Sorts
    BY <2>1, <2>2 DEF Right, WireInv, BufferShape
  \* what is left is about the other buffer, or the tail that is to come
  <2>7. \A i \in {0, 1} : Midway(i)' => i = b /\ sending.kind = "most"
    <3>1. ASSUME NEW i \in {0, 1}, Midway(i)', sending.kind # "most" PROVE FALSE
      <4>1. Midway(i) /\ i = b
        BY <1>6, <2>1, <2>3, <3>1, SendingFirst
      <4>2. QED
        BY <2>3, <2>5, <3>1, <4>1 DEF Midway
    <3>2. ASSUME NEW i \in {0, 1}, Midway(i)', sending.kind = "most" PROVE i = b
      BY <1>6, <2>1, <2>3, <3>2, SendingFirst
    <3>3. QED
      BY <3>1, <3>2
  <2>8. sending.kind = "most" => Midway(b)'
    <3>1. ASSUME sending.kind = "most" PROVE Ahead("last", b) \/ Tailing(b)
      BY <1>6, <2>1, <3>1 DEF StreamInv, TailComes, Ahead
    <3>2. ASSUME sending.kind = "most", Ahead("last", b) PROVE Ahead("last", b)'
      BY <1>1, <2>1, <3>2 DEF Ahead
    <3>3. sending.kind = "most" => ~Ahead("most", b)'
      BY <2>4
    <3>4. QED
      BY <1>1, <2>5, <2>6, <3>1, <3>2, <3>3 DEF Midway
  <2>9. ~Waiting(b)'
    <3>1. ~Ahead("whole", b)'
      <4>1. ASSUME Ahead("whole", b)', sending.kind # "whole" PROVE FALSE
        <5>1. Ahead("whole", b)
          BY <2>2, <4>1
        <5>2. len[b] % Packet # 0
          BY <5>1 DEF Ahead, StreamInv, LineRight, Right
        <5>3. len[b] % Packet = 0
          BY <2>1, <2>2, <2>6, <4>1 DEF Right, Sorts
        <5>4. QED
          BY <5>2, <5>3
      <4>2. QED
        BY <2>4, <4>1
    <3>2. ~Ahead("most", b)'
      <4>1. Ahead("most", b)' => Ahead("last", b)' \/ Tailing(b)
        BY <2>2, <2>5, <2>6 DEF TailComes
      <4>2. QED
        BY <2>3, <2>4, <4>1
    <3>3. QED
      BY <1>1, <2>6, <3>1, <3>2 DEF Waiting
  <2>10. \A i \in {0, 1} : Waiting(i)' => i # b /\ Waiting(i) /\ Below(b, i)
    BY <1>1, <1>6, <2>1, <2>2, <2>9, SendingFirst DEF Waiting
  <2>11. CASE ~mounted
    <3>1. host' = host
      BY <2>11 DEF Bulk!Completed
    <3>2. HostAgrees'
      BY <1>1, <2>11, <3>1 DEF StreamInv, HostAgrees
    <3>3. HostBehind'
      BY <1>1, <2>10, <3>1 DEF StreamInv, HostBehind
    <3>4. FramesLinked'
      BY <1>1, <1>3, <2>5, <3>1 DEF StreamInv, FramesLinked, Linked, Below
    <3>5. QED
      BY <1>4, <2>2, <3>2, <3>3, <3>4 DEF StreamInv
  <2>12. CASE mounted
    <3>1. PICK h : h = host' /\ h = Bulk!Heard(host, Bulk!Bytes(sending))
      BY <1>2, <1>6, <2>12 DEF Bulk!Completed, Sent
    <3>2. /\ ~h.half /\ ~h.again /\ h.id \in Nat /\ h.at \in Nat
          /\ h.id <= Final(b).id
          /\ sending.kind = "most" => Follows(h, Final(b))
          /\ sending.kind # "most" => h.at = 0
      BY <1>6, <2>1, <2>12, <3>1, TransferHeard
    <3>3. HostAgrees'
      <4>1. ASSUME NEW i \in {0, 1}, Midway(i)' PROVE Follows(h, Final(i)')
        BY <2>5, <2>7, <3>2, <4>1
      <4>2. h.at # 0 => Midway(b)'
        BY <2>8, <3>2
      <4>3. QED
        BY <1>1, <2>12, <3>1, <3>2, <4>1, <4>2 DEF HostAgrees
    <3>4. HostBehind'
      <4>1. ASSUME NEW i \in {0, 1}, Waiting(i)', NEW k \in 1 .. len[i]
            PROVE  h.id < mem[i][k].id
        <5>1. Final(b).id < mem[i][k].id
          BY <2>6, <2>10, <4>1 DEF Below, Final
        <5>2. Final(b).id \in Nat /\ mem[i][k].id \in Nat
          BY <2>6, ByteAt DEF WireInv, Final
        <5>3. QED
          BY <3>2, <5>1, <5>2
      <4>2. QED
        BY <1>1, <3>1, <4>1 DEF HostBehind
    <3>5. FramesLinked'
      <4>1. h.id <= Top
        <5>1. Final(b).id <= Top /\ Final(b).id \in Nat
          BY <2>6, ByteAt DEF StreamInv, FramesLinked, WireInv, Final
        <5>2. QED
          BY <1>3, <3>2, <5>1
      <4>2. /\ \A i : Linked(i)' <=> Linked(i)
            /\ \A i, j : Below(i, j)' <=> Below(i, j)
        BY <1>1, <2>5 DEF Linked, Below
      <4>3. QED
        BY <1>1, <1>3, <2>5, <3>1, <4>1, <4>2 DEF StreamInv, FramesLinked
    <3>6. QED
      BY <1>4, <2>2, <3>3, <3>4, <3>5 DEF StreamInv
  <2>13. QED
    BY <2>11, <2>12
<1>7. QED
  BY <1>5, <1>6

\* The line is right from the start and stays so until a frame is dropped.
LEMMA BulkInvariant == Bulk!BulkSpec => []BulkInv
<1>1. Bulk!BulkInit => BulkInv
  <2> SUFFICES ASSUME Bulk!BulkInit PROVE BulkInv
    OBVIOUS
  <2> USE DEF Bulk!BulkInit
  <2>1. KickShape /\ HoldsIt /\ LoopRests
    BY DEF KickShape, HoldsIt, LoopRests, Bulk!Kickers, Bulk!No, Bulk!NoEntry
  <2>2. EntriesReal /\ BufferShape /\ HostShape
    BY DEF EntriesReal, BufferShape, HostShape
  <2>3. \A sort, i : ~Ahead(sort, i) /\ ~Tailing(i) /\ ~Midway(i)
    BY DEF Ahead, Sent, Tailing, Midway
  <2>4. LineRight /\ TailComes /\ MidwayAlone /\ HostAgrees /\ HostBehind
    BY <2>3 DEF LineRight, TailComes, MidwayAlone, HostAgrees, HostBehind, Sent
  <2>5. FramesLinked /\ Flushable
    BY DEF FramesLinked, Flushable, Linked, Below, Top, Unwritten, other
  <2>6. GivenOnce
    BY DEF GivenOnce, Bulk!No, Bulk!Kickers
  <2>7. QED
    BY <2>1, <2>2, <2>4, <2>5, <2>6 DEF BulkInv, WireInv, StreamInv
<1>2. BulkInv /\ [Bulk!BulkNext]_(Bulk!bulkVars) => BulkInv'
  <2> SUFFICES ASSUME BulkInv, [Bulk!BulkNext]_(Bulk!bulkVars) PROVE BulkInv'
    OBVIOUS
  <2>1. CASE Bulk!BulkNext
    <3>1. WireInv /\ WireInv'
      BY <2>1, WireKeeps DEF BulkInv
    <3>2. ASSUME dropped' = 0 PROVE StreamInv'
      <4>1. ~Bulk!DropFrame
        BY <3>2 DEF Bulk!DropFrame
      <4>2. dropped = 0
        BY <2>1, <3>2, <4>1
           DEF Bulk!BulkNext, Bulk!Write, Bulk!Room, Bulk!FlushAsked, Bulk!FlushNothing,
               Bulk!Flush, Bulk!FlushTail, Bulk!Kicked, Bulk!QueueData, Bulk!KickNothing,
               Bulk!KickArm, Bulk!KickWrite, Bulk!GiveBack, Bulk!Completed, Bulk!Unplug, Bulk!Plug
      <4>3. StreamInv
        BY <4>2 DEF BulkInv
      <4>4. CASE Bulk!Write \/ Bulk!FlushAsked \/ Bulk!FlushNothing \/ Bulk!Kicked
        BY <3>1, <4>3, <4>4, LoopMoves
      <4>5. CASE Bulk!Room
        BY <3>1, <4>3, <4>5, RoomKeeps
      <4>6. CASE Bulk!Flush
        BY <3>1, <4>3, <4>6, FlushKeeps
      <4>7. CASE Bulk!FlushTail
        BY <3>1, <4>3, <4>7, TailKeeps
      <4>8. CASE \/ \E s \in Stages : Bulk!QueueData(s)
                 \/ \E t \in Bulk!Kickers : Bulk!KickNothing(t) \/ (mounted /\ Bulk!KickWrite(t))
        BY <3>1, <4>3, <4>8, OthersMove
      <4>9. CASE \E t \in Bulk!Kickers : Bulk!KickArm(t)
        BY <3>1, <4>3, <4>9, ArmKeeps
      <4>10. CASE \E t \in Bulk!Kickers : ~mounted /\ Bulk!KickWrite(t)
        BY <3>1, <4>3, <4>10, RefusedKeeps
      <4>11. CASE \E t \in Bulk!Kickers : Bulk!GiveBack(t)
        BY <3>1, <4>3, <4>11, GiveBackKeeps
      <4>12. CASE Bulk!Completed
        BY <3>1, <4>3, <4>12, CompletedKeeps
      <4>13. CASE Bulk!Unplug \/ Bulk!Plug
        BY <3>1, <4>3, <4>13, CableKeeps
      <4>14. QED
        BY <2>1, <4>1, <4>4, <4>5, <4>6, <4>7, <4>8, <4>9, <4>10, <4>11, <4>12, <4>13
           DEF Bulk!BulkNext
    <3>3. QED
      BY <3>1, <3>2 DEF BulkInv
  <2>2. CASE UNCHANGED Bulk!bulkVars
    <3>1. WireInv'
      BY <2>2 DEF BulkInv, WireInv, KickShape, EntriesReal, BufferShape, HostShape, HoldsIt,
                  LoopRests, Bulk!bulkVars, Bulk!buffers, Bulk!queues, Bulk!loopAt
    <3>2. ASSUME StreamInv PROVE StreamInv'
      <4> USE <2>2 DEF Bulk!bulkVars, Bulk!buffers, Bulk!queues, Bulk!loopAt
      <4>1. Top' = Top /\ Top \in Int /\ Top <= Top' /\ Top' \in Int
        BY TopInt DEF Top, Unwritten, BulkInv, WireInv
      <4>2. Flushable'
        BY <3>2 DEF StreamInv, Flushable, other, Unwritten
      <4>3. QED
        BY <3>2, <4>1, <4>2, QuietKeeps DEF BulkInv, WireInv, Sent
    <3>3. QED
      BY <2>2, <3>1, <3>2 DEF BulkInv, Bulk!bulkVars
  <2>3. QED
    BY <2>1, <2>2
<1>3. QED
  BY <1>1, <1>2, PTL DEF Bulk!BulkSpec

\* One transfer is in flight at a time and it is the one that is given back;
\* and as long as no frame was dropped, whatever the tasks, the cable and the
\* sizes do, the host gets whole frames in the order loop() wrote them, each
\* once (write, room, flush, kick, completed, resultSent).
THEOREM FramesComeWhole == Bulk!BulkSpec => []FramesGoOnce
<1>1. BulkInv => FramesGoOnce
  <2> SUFFICES ASSUME BulkInv PROVE FramesGoOnce
    OBVIOUS
  <2>1. Bulk!OneInFlight
    BY DEF BulkInv, WireInv, HoldsIt, Bulk!OneInFlight, Bulk!Holders
  <2>2. Bulk!WholeInOrder
    BY DEF BulkInv, StreamInv, HostAgrees, Bulk!WholeInOrder
  <2>3. QED
    BY <2>1, <2>2 DEF FramesGoOnce, Bulk!FramesGoOnce
<1>2. QED
  BY <1>1, BulkInvariant, PTL
=============================================================================
