--------------------------- MODULE MCWireGate ---------------------------
(* What runs beside loop() and has to come to an end: the gate between the *)
(* sampler and the wire, the sampler's tasks, the bulk stream's kick() and *)
(* completed(), and the boot guard.  They share no state here; `moves`     *)
(* picks the one a behaviour is about, the others rest in an initial state *)
(* of theirs.                                                              *)
EXTENDS WireGate, SamplerCapture

CONSTANTS
  Moving,
  Stages, Sizes, Space, Packet, Queue, MaxFrames,       \* BulkStream
  Chips, SafeAfter, CountMax, Stable, UsbSettle, Grace  \* BootGuard

VARIABLES
  moves,
  mem, tail, len, busy, cur, results, dataQ, inFlight, sending, kick, onBus, mounted,
  writing, written, back, wrote, stalled, dropped, lent, host,                   \* BulkStream
  chip, cause, kept, up, crashes, settled, usbSeen, usbSince, attachOpen, configured,
  attach, crashed, repeated                                                    \* BootGuard

(* In the run: three frames, two of which fill a buffer and a packet, so   *)
(* that the third waits for the buffer in flight; one stage, queued again  *)
(* and again.                                                              *)
Bulk == INSTANCE BulkStream WITH lpc <- writing, frame <- written

(* In the run: three crashes to a safe boot, as on the probe; the grace is *)
(* longer than USB's settling, and a stable run longer than both.          *)
Guard == INSTANCE BootGuard

ASSUME BesideAssumption == Bulk!BulkAssumption /\ Guard!BootAssumption

bulkVars == <<mem, tail, len, busy, cur, results, dataQ, inFlight, sending, kick, onBus, mounted,
              writing, written, back, wrote, stalled, dropped, lent, host>>
bootVars == <<chip, cause, kept, up, crashes, settled, usbSeen, usbSince, attachOpen, configured,
              attach, crashed, repeated>>
allVars == <<moves, vars, captureVars, bulkVars, bootVars>>

AllInit ==
  /\ moves \in Moving
  /\ Init /\ CaptureInit /\ Bulk!BulkInit /\ Guard!BootInit
  /\ moves # "guard" => chip = "esp"

AllNext ==
  /\ UNCHANGED moves
  /\ \/ moves = "gate" /\ Next /\ UNCHANGED <<captureVars, bulkVars, bootVars>>
     \/ moves = "tasks" /\ CaptureNext /\ UNCHANGED <<vars, bulkVars, bootVars>>
     \/ moves = "bulk" /\ Bulk!BulkNext /\ UNCHANGED <<vars, captureVars, bootVars>>
     \/ moves = "guard" /\ Guard!BootNext /\ UNCHANGED <<vars, captureVars, bulkVars>>

(* Each one's own fairness (Fairness, CaptureFairness, BulkFairness,       *)
(* BootFairness), for the behaviours that are about it.                    *)
AllFairness ==
  /\ WF_vars(moves = "gate" /\ LoopGoesOn) /\ SF_vars(moves = "gate" /\ Release)
  /\ WF_vars(moves = "gate" /\ Sampler) /\ SF_vars(moves = "gate" /\ Enter)
  /\ SF_vars(moves = "gate" /\ EndReading)
  /\ SF_vars(moves = "gate" /\ spc = "between" /\ spc' = "block" /\ Again)
  /\ \A t \in Tasks : /\ WF_captureVars(moves = "tasks" /\ control = "force" /\ Trigger(t))
                      /\ WF_captureVars(moves = "tasks" /\ (Abort(t) \/ LastSample(t) \/ Leave(t)))
  /\ WF_captureVars(moves = "tasks" /\ serving # "idle" /\ Requests)
  /\ WF_bulkVars(moves = "bulk" /\ (Bulk!Flush \/ Bulk!FlushNothing \/ Bulk!FlushTail \/ Bulk!Kicked))
  /\ \A t \in Bulk!Kickers :
       WF_bulkVars(moves = "bulk" /\ (\/ Bulk!KickNothing(t) \/ Bulk!KickArm(t)
                                      \/ Bulk!KickWrite(t) \/ Bulk!GiveBack(t)))
  /\ WF_bulkVars(moves = "bulk" /\ Bulk!Completed)
  /\ WF_bootVars(moves = "guard" /\ Guard!round)
  /\ WF_bootVars(moves = "guard" /\ Guard!tick)
  /\ WF_bootVars(moves = "guard" /\ Guard!begin)

AllSpec == AllInit /\ [][AllNext]_allVars /\ AllFairness

FramesGoOnce == Bulk!FramesGoOnce
GivenBack == Bulk!GivenBack
SafeBoots == Guard!SafeBoots
AttachComes == Guard!AttachComes
=============================================================================
