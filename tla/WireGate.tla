------------------------------- MODULE WireGate -------------------------------
(***************************************************************************)
(* The gate between the sampler, which reads GPIO.in with interrupts off   *)
(* on one core, and the SWIO wire's frames on loop()'s core                *)
(* (src/src/OepWireGate.h, its callers in OepSamplerRun.h and OepSwioPhy). *)
(*                                                                         *)
(* Every load and store of a shared word is a step of its own where the    *)
(* order matters; the words are std::atomic, so a step acts on one memory. *)
(* "lpc" is where loop()'s core is, "spc" where the sampler is.  How many  *)
(* samples a block, a turn or a burst has is left open.                    *)
(***************************************************************************)
EXTENDS Integers

CONSTANT MaxFrame   \* bound of the frame counter in the runs

ASSUME MaxFrameAssumption == MaxFrame \in Nat

VARIABLES
  window, held, wanted, needed, turn_done, reading, frame, ack,   \* the shared words
  lpc, need,                    \* loop(): where it is, and whether a request needs the wire
  abort,                        \* control_ & kControlAbort
  spc, mode, turned, inTurn,    \* sampler: where it is, what it runs, this burst's turns
  after, seen                   \* where openTurn returns to; the frame yieldFrame loaded

loopVars    == <<lpc, need>>
samplerVars == <<spc, mode, turned, inTurn, after, seen>>
words       == <<window, held, wanted, needed, turn_done, reading, frame, ack>>
vars == <<words, loopVars, abort, samplerVars>>

LoopPcs == {"idle", "try", "take", "look", "giveup", "note", "spin", "spin2",
            "holding", "ending", "announced", "announced2", "frame", "drain"}
Holding == {"holding", "ending", "announced", "announced2", "frame"}
OnLine  == {"announced", "announced2", "frame"}

SamplerPcs == {"off", "starting", "entering", "burst", "look", "open", "begin", "yield",
               "acking", "stopped", "paced", "read", "between", "block", "end", "gap"}
\* from beginReading to endReading, with an "open" inside a burst
Reading == {"yield", "acking", "stopped", "paced", "read", "between", "block", "end"}

Odd(n) == n % 2 = 1

Init ==
  /\ window = "none" /\ held = 0 /\ wanted = 0 /\ needed = 0 /\ turn_done = 0
  /\ reading = 0 /\ frame = 0 /\ ack = 0
  /\ lpc = "idle" /\ need = FALSE /\ abort = FALSE
  /\ spc = "off" /\ mode = "immediate" /\ turned = FALSE /\ inTurn = FALSE
  /\ after = "begin" /\ seen = 0

L(from, to) == lpc = from /\ lpc' = to
S(from, to) == spc = from /\ spc' = to
-----------------------------------------------------------------------------
(* loop()'s core.                                                           *)

\* A request takes the wire (hold), or the probe's own polls do (tryHold).
Call == /\ lpc \in {"idle", "holding"} /\ lpc' = "try"
        /\ need' \in BOOLEAN
        /\ UNCHANGED <<words, abort, samplerVars>>

\* tryHold: true at once when this core holds it
TryHeld == /\ lpc = "try" /\ lpc' = (IF held = 1 THEN "holding" ELSE "take")
           /\ UNCHANGED <<words, need, abort, samplerVars>>

TakeHeld == /\ L("take", "look") /\ held' = 1
            /\ UNCHANGED <<window, wanted, needed, turn_done, reading, frame, ack,
                           need, abort, samplerVars>>

Look == /\ lpc = "look" /\ lpc' = (IF window # "exclusive" THEN "holding" ELSE "giveup")
        /\ UNCHANGED <<words, need, abort, samplerVars>>

GiveUp == /\ L("giveup", "note") /\ held' = 0
          /\ UNCHANGED <<window, wanted, needed, turn_done, reading, frame, ack,
                         need, abort, samplerVars>>

\* a refusal is noted for the sampler; a request waits, a poll is done
Note == /\ lpc = "note" /\ lpc' = (IF need THEN "spin" ELSE "idle")
        /\ needed' = (IF need THEN 1 ELSE needed)
        /\ wanted' = (IF need THEN wanted ELSE 1)
        /\ UNCHANGED <<window, held, turn_done, reading, frame, ack,
                       need, abort, samplerVars>>

\* hold: while the window is exclusive and the need is not served
Spin == /\ \/ lpc = "spin" /\ lpc' = (IF window = "exclusive" THEN "spin2" ELSE "try")
           \/ lpc = "spin2" /\ lpc' = (IF needed = 1 THEN "spin" ELSE "try")
        /\ UNCHANGED <<words, need, abort, samplerVars>>

\* frameBegin: the announcement, then the wait for the sampler
FrameBegin == /\ L("holding", "announced") /\ frame' = frame + 1
              /\ frame < MaxFrame
              /\ UNCHANGED <<window, held, wanted, needed, turn_done, reading, ack,
                             need, abort, samplerVars>>

FrameWait ==
  /\ \/ lpc = "announced" /\ lpc' = (IF reading = 0 THEN "frame" ELSE "announced2")
     \/ lpc = "announced2" /\ lpc' = (IF ack = frame THEN "frame" ELSE "announced")
  /\ UNCHANGED <<words, need, abort, samplerVars>>

FrameEnd == /\ L("frame", "holding") /\ frame' = frame + 1
            /\ UNCHANGED <<window, held, wanted, needed, turn_done, reading, ack,
                           need, abort, samplerVars>>

\* endTurn: a load of the window, then the store
EndTurn == \/ /\ lpc = "holding" /\ window = "shared" /\ lpc' = "ending"
              /\ UNCHANGED <<words, need, abort, samplerVars>>
           \/ /\ L("ending", "holding") /\ turn_done' = 1
              /\ UNCHANGED <<window, held, wanted, needed, reading, frame, ack,
                             need, abort, samplerVars>>

\* loop() came round (SamplerCapture::poll)
Release == /\ lpc \in {"idle", "holding"} /\ held = 1 /\ held' = 0 /\ lpc' = "idle"
           /\ UNCHANGED <<window, wanted, needed, turn_done, reading, frame, ack,
                          need, abort, samplerVars>>

\* SamplerCapture::waitIdle: the wire let go of, then the sampler waited for
WaitIdle ==
  \/ /\ lpc \in {"idle", "holding"} /\ lpc' = "drain" /\ held' = 0
     /\ abort' = (abort \/ spc # "off")
     /\ UNCHANGED <<window, wanted, needed, turn_done, reading, frame, ack, need, samplerVars>>
  \/ /\ L("drain", "idle") /\ spc = "off"
     /\ UNCHANGED <<words, need, abort, samplerVars>>

\* startRun: a task for one window or one search
Start == /\ lpc \in {"idle", "holding"} /\ spc = "off"
         /\ spc' = "starting" /\ mode' \in {"immediate", "search"} /\ abort' = FALSE
         /\ UNCHANGED <<words, loopVars, turned, inTurn, after, seen>>
-----------------------------------------------------------------------------
(* The sampler's core.                                                      *)

\* An immediate window (the clocked one is as it): exclusive, then the holder
\* waited out.  A search goes to its first burst.
BeginWindow ==
  \/ /\ S("starting", "entering") /\ mode = "immediate" /\ window' = "exclusive"
     /\ UNCHANGED <<held, wanted, needed, turn_done, reading, frame, ack,
                    loopVars, abort, mode, turned, inTurn, after, seen>>
  \/ /\ S("starting", "burst") /\ mode = "search"
     /\ UNCHANGED <<words, loopVars, abort, mode, turned, inTurn, after, seen>>

\* Mutant: the holder is not waited out.
EnterAtOnce == S("entering", "begin") /\ UNCHANGED <<words, loopVars, abort, mode, turned, inTurn, after, seen>>

Enter == /\ S("entering", "begin") /\ held = 0
         /\ UNCHANGED <<words, loopVars, abort, mode, turned, inTurn, after, seen>>

\* a search's next burst, unless it was aborted
BeginBurst ==
  \/ /\ S("burst", "off") /\ abort /\ window' = "none"
     /\ UNCHANGED <<held, wanted, needed, turn_done, reading, frame, ack,
                    loopVars, abort, mode, turned, inTurn, after, seen>>
  \/ /\ S("burst", "look") /\ ~abort /\ window' = "exclusive"
     /\ UNCHANGED <<held, wanted, needed, turn_done, reading, frame, ack,
                    loopVars, abort, mode, turned, inTurn, after, seen>>

\* beginBurst, beginArmingBurst (a poll's turn waits until it is armed): at
\* once a turn when the wire is held or asked for
LookForTurn == \E arming \in BOOLEAN :
  /\ spc = "look"
  /\ IF held = 1 \/ needed = 1 \/ (~arming /\ wanted = 1)
     THEN spc' = "open" /\ after' = "begin" /\ turned' = TRUE
     ELSE spc' = "begin" /\ turned' = FALSE /\ UNCHANGED after
  /\ inTurn' = FALSE
  /\ UNCHANGED <<words, loopVars, abort, mode, seen>>

\* openTurn: the asks cleared, then the window shared
OpenTurn ==
  \/ /\ S("open", "open") /\ ~inTurn
     /\ wanted' = 0 /\ needed' = 0 /\ turn_done' = 0 /\ inTurn' = TRUE
     /\ UNCHANGED <<window, held, reading, frame, ack, loopVars, abort, mode, turned, after, seen>>
  \/ /\ spc = "open" /\ inTurn /\ spc' = after /\ window' = "shared"
     /\ UNCHANGED <<held, wanted, needed, turn_done, reading, frame, ack,
                    loopVars, abort, mode, turned, inTurn, after, seen>>

BeginReading == /\ S("begin", "yield") /\ reading' = 1
                /\ UNCHANGED <<window, held, wanted, needed, turn_done, frame, ack,
                               loopVars, abort, mode, turned, inTurn, after, seen>>

\* Mutant: the frame is acknowledged and not waited out.
YieldNoWait ==
  \/ /\ spc = "yield" /\ spc' = (IF Odd(frame) THEN "acking" ELSE "paced") /\ seen' = frame
     /\ UNCHANGED <<words, loopVars, abort, mode, turned, inTurn, after>>
  \/ /\ S("acking", "paced") /\ ack' = seen
     /\ UNCHANGED <<window, held, wanted, needed, turn_done, reading, frame,
                    loopVars, abort, mode, turned, inTurn, after, seen>>

\* Mutant: the frame is waited out and not acknowledged.
YieldNoAck ==
  \/ /\ spc = "yield" /\ spc' = (IF Odd(frame) THEN "stopped" ELSE "paced") /\ seen' = frame
     /\ UNCHANGED <<words, loopVars, abort, mode, turned, inTurn, after>>
  \/ /\ S("stopped", "paced") /\ frame # seen
     /\ UNCHANGED <<words, loopVars, abort, mode, turned, inTurn, after, seen>>

\* yieldFrame: a frame announced is acknowledged and has the bus until it ends
YieldFrame ==
  \/ /\ spc = "yield" /\ spc' = (IF Odd(frame) THEN "acking" ELSE "paced") /\ seen' = frame
     /\ UNCHANGED <<words, loopVars, abort, mode, turned, inTurn, after>>
  \/ /\ S("acking", "stopped") /\ ack' = seen
     /\ UNCHANGED <<window, held, wanted, needed, turn_done, reading, frame,
                    loopVars, abort, mode, turned, inTurn, after, seen>>
  \/ /\ S("stopped", "paced") /\ frame # seen
     /\ UNCHANGED <<words, loopVars, abort, mode, turned, inTurn, after, seen>>

\* the GPIO.in read of a sample, once its time has come
Read == /\ (S("paced", "read") \/ S("read", "between"))
        /\ UNCHANGED <<words, loopVars, abort, mode, turned, inTurn, after, seen>>

\* the next sample, or a search's next block of samples
Again == /\ \/ S("between", "yield")
            \/ S("between", "block") /\ mode = "search"
         /\ UNCHANGED <<words, loopVars, abort, mode, turned, inTurn, after, seen>>

\* before a block of a search: its turn ends, or one asked for begins (a poll's
\* only one a burst and not while arming, which is left open)
Block ==
  \/ /\ S("block", "yield") /\ inTurn
     /\ window' = "exclusive" /\ inTurn' = FALSE
     /\ UNCHANGED <<held, wanted, needed, turn_done, reading, frame, ack,
                    loopVars, abort, mode, turned, after, seen>>
  \/ /\ S("block", "yield") /\ (IF inTurn THEN turn_done = 0 ELSE needed = 0)
     /\ UNCHANGED <<words, loopVars, abort, mode, turned, inTurn, after, seen>>
  \/ /\ S("block", "open") /\ ~inTurn
     /\ needed = 1 \/ (wanted = 1 /\ ~turned)
     /\ after' = "yield" /\ turned' = TRUE
     /\ UNCHANGED <<words, loopVars, abort, mode, inTurn, seen>>

\* the trigger, or force: the segment's rest (there may be none) is exclusive
Hit == /\ spc = "between" /\ spc' \in {"yield", "between"} /\ mode = "search"
       /\ mode' = "rest" /\ window' = "exclusive" /\ inTurn' = FALSE
       /\ UNCHANGED <<held, wanted, needed, turn_done, reading, frame, ack,
                      loopVars, abort, turned, after, seen>>

\* the window's, the burst's or the rest's last sample (or abort)
EndReading == /\ S("between", "end")
              /\ UNCHANGED <<words, loopVars, abort, mode, turned, inTurn, after, seen>>

\* Mutant: an aborted search leaves its window exclusive.
EndWindowNotAtAbort ==
  \/ /\ S("end", "gap") /\ reading' = 0
     /\ UNCHANGED <<window, held, wanted, needed, turn_done, frame, ack,
                    loopVars, abort, mode, turned, inTurn, after, seen>>
  \/ /\ S("gap", "off") /\ (mode # "search" \/ abort)
     /\ window' = (IF mode = "search" THEN window ELSE "none")
     /\ UNCHANGED <<held, wanted, needed, turn_done, reading, frame, ack,
                    loopVars, abort, mode, turned, inTurn, after, seen>>
  \/ /\ S("gap", "burst") /\ mode = "search"
     /\ UNCHANGED <<words, loopVars, abort, mode, turned, inTurn, after, seen>>

\* the task ends, but a search nobody aborted goes on after a gap
EndWindow ==
  \/ /\ S("end", "gap") /\ reading' = 0
     /\ UNCHANGED <<window, held, wanted, needed, turn_done, frame, ack,
                    loopVars, abort, mode, turned, inTurn, after, seen>>
  \/ /\ S("gap", "off") /\ (mode # "search" \/ abort) /\ window' = "none"
     /\ UNCHANGED <<held, wanted, needed, turn_done, reading, frame, ack,
                    loopVars, abort, mode, turned, inTurn, after, seen>>
  \/ /\ S("gap", "burst") /\ mode = "search"
     /\ UNCHANGED <<words, loopVars, abort, mode, turned, inTurn, after, seen>>
-----------------------------------------------------------------------------
Loop == \/ Call \/ TryHeld \/ TakeHeld \/ Look \/ GiveUp \/ Note \/ Spin \/ FrameBegin
        \/ FrameWait \/ FrameEnd \/ EndTurn \/ Release \/ WaitIdle \/ Start

Sampler == \/ BeginWindow \/ Enter \/ BeginBurst \/ LookForTurn \/ OpenTurn
           \/ BeginReading \/ YieldFrame \/ Read \/ Again \/ Block \/ Hit
           \/ EndReading \/ EndWindow

Next == Loop \/ Sampler

\* The cores run: what a call has begun goes on, the sampler goes on, loop()
\* comes round, a window or a burst has so many samples, and a block so many of
\* a burst's.
LoopGoesOn == lpc \notin {"idle", "holding"} /\ Loop

Fairness == /\ WF_vars(LoopGoesOn) /\ SF_vars(Release)
            /\ WF_vars(Sampler) /\ SF_vars(Enter) /\ SF_vars(EndReading)
            /\ SF_vars(spc = "between" /\ spc' = "block" /\ Again)

Spec == Init /\ [][Next]_vars /\ Fairness

\* A search's turn lasts kWireTurnMs (5 ms) or into the gap after its burst
\* (1 ms): a core that is taking the wire gets through its take in that time.
Taking == {"try", "take", "look", "giveup", "note", "spin", "spin2"}
Paced  == window = "shared" /\ window' # "shared" /\ mode' = "search" => lpc \notin Taking

-----------------------------------------------------------------------------
\* The words' values; frame_ is odd while a frame is on the line.
WordsOK ==
  /\ window \in {"none", "exclusive", "shared"} /\ mode \in {"immediate", "search", "rest"}
  /\ held \in {0, 1} /\ wanted \in {0, 1} /\ needed \in {0, 1}
  /\ turn_done \in {0, 1} /\ reading \in {0, 1}
  /\ frame \in Nat /\ ack \in 0..frame /\ seen \in 0..frame
  /\ lpc \in LoopPcs /\ spc \in SamplerPcs /\ after \in {"begin", "yield"}
  /\ Odd(frame) <=> lpc \in OnLine
FlagsOK == need \in BOOLEAN /\ abort \in BOOLEAN /\ turned \in BOOLEAN /\ inTurn \in BOOLEAN

TypeOK == WordsOK /\ FlagsOK

\* No GPIO.in read meets a frame, whatever the window: frameBegin and yieldFrame
\* look at each other's words in Dekker's order (OepWireGate.h).
NoReadMeetsFrame == ~(lpc = "frame" /\ spc = "read")

\* While an immediate window samples no frame can begin or wait: its holder was
\* waited out and a take in the middle of it is undone (beginWindow, tryHold).
ImmediateWindowHasNoFrame ==
  mode = "immediate" /\ spc \in Reading \cup {"begin", "gap"}
    => window = "exclusive" /\ lpc \notin Holding

\* A take that meets a window is undone before anything else is done: whoever
\* waits or is idle holds nothing, or a window would wait for it for ever.
WaiterHoldsNothing == lpc \in {"idle", "note", "spin", "spin2", "drain"} => held = 0

\* No way out of a run leaves its window open behind it: it would refuse the
\* wire until the next run (endWindow at each exit of run and runClocked).
NoWindowIsLeft == spc \in {"off", "starting"} => window = "none"

\* A frame announced always goes: the sampler stops reading for it.
FrameGoes == lpc \in {"announced", "announced2"} ~> lpc = "frame"

\* A request waiting for the wire gets it, through windows and searches (hold),
\* unless turns end again and again in the middle of its takes.
RequestGetsTheWire ==
  <>[][Paced]_vars => (lpc \in {"spin", "spin2"} ~> lpc = "holding")

=============================================================================
