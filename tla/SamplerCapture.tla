---------------------------- MODULE SamplerCapture ----------------------------
(***************************************************************************)
(* The classic ESP32's capture (src/src/OepSampler.cpp): loop()'s core     *)
(* configures, starts, polls and stops; a task made for each window or     *)
(* trigger search samples on the other core and tells by volatile words    *)
(* (done_, trig_seen_, aborted_) and by clearing its own handle sampler_.  *)
(*                                                                         *)
(* What the task does on the bus is WireGate's.  A request's form, the     *)
(* data and the segments' numbers are left out; a segment is counted.      *)
(***************************************************************************)
EXTENDS Naturals, FiniteSets

CONSTANTS
  Tasks,         \* tasks there may be at a time (a bound)
  NoTask,        \* sampler_ is null
  Kinds,         \* configured: of "immediate", "clocked" (an external clock), "search"
  Repeats,       \* whether a search may be configured to repeat
  Segments,      \* seg_count_: a repeat's slots
  MaxCompleted   \* triggers the target gives a run (a bound)

ASSUME CaptureAssumption ==
  /\ Segments \in Nat \ {0} /\ NoTask \notin Tasks /\ Repeats \subseteq BOOLEAN
  /\ Kinds \subseteq {"immediate", "clocked", "search"}

VARIABLES
  state,
  kind,         \* of the setup ("none": there has been none, nor a buffer)
  repeat, rep_wait, completed, released,
  sampler, done, trig_seen, aborted, control,   \* shared with the task
  task,                                         \* where each task is
  serving,                                          \* the request loop() is in
  overtaken                                     \* the run was begun while an earlier task had
                                                \* yet to clear the handle (for the properties)

setup == <<kind, repeat>>
fixed == <<setup, overtaken>>
flags == <<done, trig_seen, aborted, control>>
sampling == <<sampler, flags, task, overtaken>>
count == <<completed, released>>
captureVars  == <<state, fixed, rep_wait, count, sampler, flags, task, serving>>

Sampling == {t \in Tasks : task[t] \in {"run", "rest"}}

CaptureInit ==
  /\ state = "unconfigured" /\ kind = "none" /\ repeat = FALSE /\ rep_wait = FALSE
  /\ completed = 0 /\ released = 0
  /\ sampler = NoTask /\ task = [t \in Tasks |-> "gone"]
  /\ done = FALSE /\ trig_seen = FALSE /\ aborted = FALSE /\ control = "none"
  /\ serving = "idle" /\ overtaken = FALSE
-----------------------------------------------------------------------------
(* The task (samplerTask, run).                                             *)

Steps(t, from, to) == task[t] = from /\ task' = [task EXCEPT ![t] = to]

\* the trigger, or force: poll may tell of it while the rest comes in
Trigger(t) ==
  /\ Steps(t, "run", "rest") /\ kind = "search"
  /\ completed < MaxCompleted
  /\ trig_seen' = TRUE
  /\ UNCHANGED <<state, fixed, rep_wait, count, sampler, done, aborted, control, serving>>

\* Mutant: the search notes the abort and goes on.
AbortGoesOn(t) ==
  /\ task[t] = "run" /\ kind # "immediate" /\ control = "abort"
  /\ aborted' = TRUE
  /\ UNCHANGED <<state, fixed, rep_wait, count, sampler, done, trig_seen, control, task, serving>>

\* The abort is seen by a search with no trigger yet, and by a window of an
\* external clock (runClocked); an immediate window does not look at it, nor
\* does the rest of a segment whose trigger came.
Abort(t) ==
  /\ Steps(t, "run", "ran") /\ kind # "immediate" /\ control = "abort"
  /\ aborted' = TRUE
  /\ UNCHANGED <<state, fixed, rep_wait, count, sampler, done, trig_seen, control, serving>>

\* the window's, or the rest's, last sample
LastSample(t) ==
  /\ \/ Steps(t, "rest", "ran")
     \/ Steps(t, "run", "ran") /\ kind # "search"
  /\ UNCHANGED <<state, fixed, rep_wait, count, sampler, flags, serving>>

\* done_, then sampler_ = nullptr
Leave(t) ==
  \/ /\ Steps(t, "ran", "told") /\ done' = TRUE
     /\ UNCHANGED <<state, fixed, rep_wait, count, sampler, trig_seen, aborted, control, serving>>
  \/ /\ Steps(t, "told", "gone") /\ sampler' = NoTask
     /\ UNCHANGED <<state, fixed, rep_wait, count, flags, serving>>

Task(t) == Trigger(t) \/ Abort(t) \/ LastSample(t) \/ Leave(t)
-----------------------------------------------------------------------------
(* loop().                                                                  *)

\* startRun: the words cleared, then the task made; or it cannot be made
Started ==
  /\ done' = FALSE /\ trig_seen' = FALSE /\ aborted' = FALSE /\ control' = "none"
  /\ \E t \in Tasks : Steps(t, "gone", "run") /\ sampler' = t
  /\ overtaken' = (\E t \in Tasks : task[t] # "gone")
StartFailed ==
  /\ done' = FALSE /\ trig_seen' = FALSE /\ aborted' = FALSE /\ control' = "none"
  /\ sampler' = NoTask /\ UNCHANGED <<task, overtaken>>

SlotFree(n) == n - released < Segments

\* Mutant: a repeat goes on with every slot kept.
segmentDoneNoSlot ==
  /\ completed' = completed + 1
  /\ \/ ~repeat /\ state' = "done" /\ rep_wait' = FALSE /\ UNCHANGED sampling
     \/ repeat /\ Started /\ state' = "capturing" /\ rep_wait' = TRUE
     \/ repeat /\ StartFailed /\ state' = "paused" /\ rep_wait' = FALSE

\* segmentDone: the segment kept; a repeat goes on when a slot is free
segmentDone ==
  /\ completed' = completed + 1
  /\ \/ ~repeat /\ state' = "done" /\ rep_wait' = FALSE /\ UNCHANGED sampling
     \/ repeat /\ SlotFree(completed') /\ Started /\ state' = "capturing" /\ rep_wait' = TRUE
     \/ repeat /\ SlotFree(completed') /\ StartFailed /\ state' = "paused" /\ rep_wait' = FALSE
     \/ repeat /\ ~SlotFree(completed') /\ state' = "paused" /\ rep_wait' = FALSE
        /\ UNCHANGED sampling

\* Before the first trigger or, in a repeat, between segments
Searching == state = "waiting" \/ (state = "capturing" /\ rep_wait)
Announces == Searching /\ trig_seen
Resumes   == state = "paused" /\ SlotFree(completed)
\* the segment is in, and its trigger has been (or is now) announced
Finished  == done /\ ~aborted /\ (Announces \/ (state = "capturing" /\ ~rep_wait))

\* poll: a paused repeat starts again when a slot is free; a trigger is
\* announced; a finished segment is kept
poll ==
  /\ UNCHANGED <<setup, released>>
  /\ \/ /\ Resumes /\ UNCHANGED completed
        /\ \/ Started /\ state' = "capturing" /\ rep_wait' = TRUE
           \/ StartFailed /\ UNCHANGED <<state, rep_wait>>
     \/ ~Resumes /\ Finished /\ segmentDone
     \/ /\ ~Resumes /\ ~Finished
        /\ IF Announces THEN state' = "capturing" /\ rep_wait' = FALSE
                        ELSE UNCHANGED <<state, rep_wait>>
        /\ UNCHANGED <<completed, sampling>>

\* loop() comes round, or a status, read, segments or triggers request; release's too
Poll == serving \in {"idle", "poll"} /\ serving' = "idle" /\ poll

\* release: the segments up to one are let go of, then poll
release ==
  /\ serving = "idle" /\ serving' = "poll" /\ repeat
  /\ released' \in released..completed
  /\ UNCHANGED <<state, fixed, rep_wait, completed, sampler, flags, task>>

\* the control byte stays as it is when there is no trigger to force
ForceTrigger ==
  /\ serving = "idle" /\ Searching /\ completed < MaxCompleted /\ control' = "force"
  /\ UNCHANGED <<state, fixed, rep_wait, count, sampler, done, trig_seen, aborted, task, serving>>

\* waitIdle: the task told to stop, then waited for until its handle is clear
WaitFor(request) ==
  /\ serving' = request
  /\ control' = (IF sampler # NoTask THEN "abort" ELSE control)
  /\ UNCHANGED <<sampler, done, trig_seen, aborted, task>>
\* Mutant: the task is not waited for.
WaitedNot(request) == serving = request /\ serving' = "idle"

Waited(request) == serving = request /\ sampler = NoTask /\ serving' = "idle"

\* configure, unless refused: waiting or capturing
Configure ==
  \/ /\ serving = "idle" /\ state \notin {"unconfigured", "waiting", "capturing"}
     /\ WaitFor("configure")
     /\ UNCHANGED <<state, fixed, rep_wait, count>>
  \/ /\ Waited("configure") /\ state' = "configured"
     /\ kind' \in Kinds /\ repeat' \in {r \in Repeats : r => kind' = "search"}
     /\ UNCHANGED <<rep_wait, count, sampling>>
  \/ /\ Waited("configure") /\ kind = "none"   \* the first buffer is not to be had
     /\ UNCHANGED <<state, fixed, rep_wait, count, sampler, flags, task>>

\* planApply, unless refused (planCheck); planRelease, at any time
Plan ==
  \/ /\ serving = "idle" /\ state \notin {"waiting", "capturing", "paused"} /\ WaitFor("plan")
     /\ UNCHANGED <<state, fixed, rep_wait, count>>
  \/ /\ serving = "idle" /\ WaitFor("unplan")
     /\ UNCHANGED <<state, fixed, rep_wait, count>>
  \/ /\ Waited("plan") \/ Waited("unplan")
     /\ state' = (IF serving = "plan" THEN "planned" ELSE "unconfigured")
     /\ UNCHANGED <<fixed, rep_wait, count, sampler, flags, task>>

\* start: a new generation counts from 0
start ==
  \/ /\ serving = "idle" /\ state \in {"configured", "done", "error"} /\ WaitFor("start")
     /\ UNCHANGED <<state, fixed, rep_wait, count>>
  \/ /\ Waited("start")
     /\ completed' = 0 /\ released' = 0 /\ rep_wait' = FALSE
     /\ \/ Started /\ state' = (IF kind = "search" THEN "waiting" ELSE "capturing")
        \/ StartFailed /\ state' = "error"
     /\ UNCHANGED setup

Stop ==
  \/ /\ serving = "idle" /\ serving' = "stop" /\ poll
  \/ /\ serving = "stop" /\ state \in {"waiting", "capturing"} /\ WaitFor("stopping")
     /\ UNCHANGED <<state, fixed, rep_wait, count>>
  \/ /\ serving = "stop" /\ state \notin {"waiting", "capturing"} /\ serving' = "idle"
     /\ IF state = "paused" THEN state' = "configured" /\ rep_wait' = FALSE
                            ELSE UNCHANGED <<state, rep_wait>>
     /\ UNCHANGED <<fixed, count, sampler, flags, task>>
  \/ /\ Waited("stopping")
     /\ LET kept == done /\ ~aborted /\ (trig_seen \/ kind # "search") IN
          /\ completed' = completed + (IF kept THEN 1 ELSE 0)
          /\ IF kept /\ ~repeat THEN state' = "done" /\ UNCHANGED rep_wait
                                ELSE state' = "configured" /\ rep_wait' = FALSE
     /\ UNCHANGED <<fixed, released, sampler, flags, task>>
-----------------------------------------------------------------------------
Requests == Poll \/ release \/ ForceTrigger \/ Configure \/ Plan \/ start \/ Stop

CaptureNext == Requests \/ \E t \in Tasks : Task(t)

\* The tasks run (a trigger comes or not, but a forced one does), and loop()
\* goes on with a request it has begun.
CaptureFairness ==
  /\ \A t \in Tasks : /\ WF_captureVars(control = "force" /\ Trigger(t))
                      /\ WF_captureVars(Abort(t) \/ LastSample(t) \/ Leave(t))
  /\ WF_captureVars(serving # "idle" /\ Requests)

CaptureSpec == CaptureInit /\ [][CaptureNext]_captureVars /\ CaptureFairness
-----------------------------------------------------------------------------
States == {"unconfigured", "planned", "configured", "waiting", "capturing", "done", "paused", "error"}

CaptureTypeOK ==
  /\ state \in States /\ kind \in Kinds \cup {"none"} /\ repeat \in BOOLEAN
  /\ rep_wait \in BOOLEAN /\ completed \in Nat /\ released \in 0..completed
  /\ sampler \in Tasks \cup {NoTask} /\ done \in BOOLEAN /\ trig_seen \in BOOLEAN
  /\ aborted \in BOOLEAN /\ control \in {"none", "force", "abort"}
  /\ task \in [Tasks -> {"run", "rest", "ran", "told", "gone"}]
  /\ serving \in {"idle", "poll", "configure", "plan", "unplan", "start", "stop", "stopping"}
  /\ overtaken \in BOOLEAN

Idle == serving = "idle" /\ state \notin {"waiting", "capturing"}

\* Outside a run nothing samples: the channels, the buffer and the setup may be
\* changed (configure, planApply, planRelease and start wait for the task).
NoRunIsLeft == Idle => Sampling = {}

\* A repeat's next run begun before the last one's task has cleared the handle
\* is the only way to leave one; till then one window samples at a time.
OnlyOvertakenIsLeft ==
  ~overtaken => (Idle => Sampling = {}) /\ Cardinality(Sampling) <= 1

\* A repeat looks for its next segment only when the slot that segment goes
\* into holds none the host has yet to release (segmentDone, poll, release).
SlotsKept == repeat /\ Searching => completed - released < Segments

StopEnds == serving = "stopping" /\ serving' = "idle" /\ ~overtaken
Kept == completed' = completed + 1

\* A stop keeps the segment it waits for: an immediate window, and a search
\* whose trigger has come, always; any other that ended by itself. What it cuts
\* short and loses is a search with no trigger yet, or a clocked window.
StopKeeps == StopEnds => Kept \/ (aborted /\ kind # "immediate" /\ ~trig_seen)

\* What stop's comment says: a window, searched for nothing, is not cut short.
\* One of an external clock is (runClocked), and its samples go.
WindowsAreKept == [][StopEnds /\ kind # "search" => Kept]_captureVars

\* A segment sampled is there till the host releases it: no later one is
\* written over it, and a stop drops only what it cut short (StopKeeps).
SegmentsKept == [][SlotsKept' /\ StopKeeps]_captureVars

\* A request that waits for the sampler always ends.
RequestsEnd == serving # "idle" ~> serving = "idle"

=============================================================================
