------------------------- MODULE SamplerCaptureProofs -------------------------
(***************************************************************************)
(* The classic ESP32's capture, for every set of tasks, every setup and    *)
(* every number of slots: a run that was not begun over an earlier task's  *)
(* exit is alone on the channels, and is over when the state says so.      *)
(***************************************************************************)
EXTENDS SamplerCapture, FiniteSetTheorems, TLAPS

Live == {t \in Tasks : task[t] \in {"run", "rest", "ran"}}
Running == state \in {"waiting", "capturing"}

OneTask    == \A t, u \in Tasks : task[t] # "gone" /\ task[u] # "gone" => t = u
HandleHeld == \A t \in Live : sampler = t
DoneIsLast == done => Live = {}
RestIsDone == ~Running => Live = {}
RunIsKept  == Running => done \/ Live # {}
TriggerSeen ==
  Running /\ kind = "search" =>
    /\ \A t \in Tasks : task[t] \in {"rest", "ran"} => trig_seen \/ aborted
    /\ done => trig_seen \/ aborted

(* Only what looks at the abort, while it looks, is cut short.             *)
CutIsEarly ==
  /\ \A t \in Tasks : task[t] = "run" => ~trig_seen /\ ~aborted
  /\ \A t \in Tasks : task[t] = "rest" => ~aborted
  /\ Running /\ aborted => kind # "immediate" /\ ~trig_seen

(* What the words between the two cores say of a run that was begun with   *)
(* no earlier task still there.                                            *)
Alone == OneTask /\ HandleHeld /\ DoneIsLast /\ RestIsDone /\ RunIsKept /\ TriggerSeen
         /\ CutIsEarly

StopsARun == serving = "stopping" => Running

IInv == CaptureTypeOK /\ SlotsKept /\ StopsARun /\ (~overtaken => Alone)

-----------------------------------------------------------------------------
(* The types                                                               *)

(* The words startRun sets, whichever way it goes.                         *)
LEMMA StartTyped ==
  ASSUME CaptureTypeOK, Started \/ StartFailed
  PROVE  /\ sampler' \in Tasks \cup {NoTask} /\ done' \in BOOLEAN /\ trig_seen' \in BOOLEAN
         /\ aborted' \in BOOLEAN /\ control' \in {"none", "force", "abort"}
         /\ task' \in [Tasks -> {"run", "rest", "ran", "told", "gone"}]
         /\ overtaken' \in BOOLEAN
BY DEF CaptureTypeOK, Started, StartFailed, Steps

(* segmentDone and poll, wherever loop() goes on.                          *)
LEMMA PollTyped ==
  ASSUME CaptureTypeOK, poll, serving' \in {"idle", "stop"}
  PROVE  CaptureTypeOK'
<1>1. kind' = kind /\ repeat' = repeat /\ released' = released
  BY DEF poll, setup
<1>2. CASE Started \/ StartFailed
  <2>1. state' \in States /\ rep_wait' \in BOOLEAN
        /\ (completed' = completed \/ completed' = completed + 1)
    BY DEF poll, segmentDone, States, CaptureTypeOK
  <2> QED
    <3>1. completed' \in Nat /\ released' \in 0..completed'
      BY <1>1, <2>1 DEF CaptureTypeOK
    <3>2. kind' \in Kinds \cup {"none"} /\ repeat' \in BOOLEAN
      BY <1>1 DEF CaptureTypeOK
    <3> QED
      BY <1>2, <2>1, <3>1, <3>2, StartTyped DEF CaptureTypeOK
<1>3. CASE UNCHANGED sampling
  <2>1. state' \in States /\ rep_wait' \in BOOLEAN
        /\ (completed' = completed \/ completed' = completed + 1)
    BY DEF poll, segmentDone, States, CaptureTypeOK
  <2> QED
    <3>1. completed' \in Nat /\ released' \in 0..completed'
      BY <1>1, <2>1 DEF CaptureTypeOK
    <3> QED
      BY <1>1, <1>3, <2>1, <3>1 DEF CaptureTypeOK, sampling, flags
<1> QED
  BY <1>2, <1>3 DEF poll, segmentDone

(* A step of a task keeps the types.                                       *)
LEMMA TaskTyped ==
  ASSUME CaptureTypeOK, NEW t \in Tasks, Task(t)
  PROVE  CaptureTypeOK'
<1>1. CASE Trigger(t)
  BY <1>1 DEF CaptureTypeOK, Trigger, Steps, fixed, setup, count
<1>2. CASE Abort(t)
  BY <1>2 DEF CaptureTypeOK, Abort, Steps, fixed, setup, count
<1>3. CASE LastSample(t)
  BY <1>3 DEF CaptureTypeOK, LastSample, Steps, fixed, setup, count, flags
<1>4. CASE Leave(t)
  <2>1. CASE Steps(t, "ran", "told") /\ done' = TRUE
             /\ UNCHANGED <<state, fixed, rep_wait, count, sampler, trig_seen, aborted, control, serving>>
    <3>1. done' \in BOOLEAN
      BY <2>1
    <3> QED
      BY <2>1, <3>1 DEF CaptureTypeOK, Steps, fixed, setup, count
  <2>2. CASE Steps(t, "told", "gone") /\ sampler' = NoTask
             /\ UNCHANGED <<state, fixed, rep_wait, count, flags, serving>>
    BY <2>2 DEF CaptureTypeOK, Steps, fixed, setup, count, flags
  <2> QED
    BY <1>4, <2>1, <2>2 DEF Leave
<1> QED
  BY <1>1, <1>2, <1>3, <1>4 DEF Task

(* A step of loop() keeps the types.                                       *)
LEMMA RequestTyped ==
  ASSUME CaptureTypeOK, Requests
  PROVE  CaptureTypeOK'
<1>1. CASE Poll
  BY <1>1, PollTyped DEF Poll
<1>2. CASE release
  BY <1>2 DEF CaptureTypeOK, release, fixed, setup, flags
<1>3. CASE ForceTrigger
  BY <1>3 DEF CaptureTypeOK, ForceTrigger, fixed, setup, count
<1>4. CASE Configure
  <2>1. CASE WaitFor("configure") /\ UNCHANGED <<state, fixed, rep_wait, count>>
    BY <2>1 DEF CaptureTypeOK, WaitFor, fixed, setup, count
  <2>2. CASE Waited("configure")
    <3>1. CASE /\ state' = "configured" /\ kind' \in Kinds /\ repeat' \in Repeats
               /\ UNCHANGED <<rep_wait, count, sampling>>
      BY <2>2, <3>1, CaptureAssumption DEF CaptureTypeOK, Waited, States, sampling, flags, count
    <3>2. CASE UNCHANGED <<state, fixed, rep_wait, count, sampler, flags, task>>
      BY <2>2, <3>2 DEF CaptureTypeOK, Waited, fixed, setup, flags, count
    <3> QED
      BY <1>4, <2>2, <3>1, <3>2 DEF Configure, Waited, WaitFor
  <2> QED
    BY <1>4, <2>1, <2>2 DEF Configure
<1>5. CASE Plan
  <2>1. CASE (WaitFor("plan") \/ WaitFor("unplan")) /\ UNCHANGED <<state, fixed, rep_wait, count>>
    BY <2>1 DEF CaptureTypeOK, WaitFor, fixed, setup, count
  <2>2. CASE Waited("plan") \/ Waited("unplan")
    BY <1>5, <2>2 DEF CaptureTypeOK, Plan, Waited, WaitFor, fixed, setup, flags, count, States
  <2> QED
    BY <1>5, <2>1, <2>2 DEF Plan
<1>6. CASE start
  <2>1. CASE WaitFor("start") /\ UNCHANGED <<state, fixed, rep_wait, count>>
    BY <2>1 DEF CaptureTypeOK, WaitFor, fixed, setup, count
  <2>2. CASE Waited("start") /\ ~WaitFor("start")
    <3>1. completed' = 0 /\ released' = 0 /\ rep_wait' = FALSE /\ serving' = "idle"
          /\ kind' = kind /\ repeat' = repeat /\ state' \in States
          /\ (Started \/ StartFailed)
      <4>1. /\ completed' = 0 /\ released' = 0 /\ rep_wait' = FALSE
            /\ \/ Started /\ state' = (IF kind = "search" THEN "waiting" ELSE "capturing")
               \/ StartFailed /\ state' = "error"
            /\ UNCHANGED setup
        BY <1>6, <2>2 DEF start
      <4>2. serving' = "idle"
        BY <2>2 DEF Waited
      <4>3. kind' = kind /\ repeat' = repeat
        BY <4>1 DEF setup
      <4>4. state' \in States /\ (Started \/ StartFailed)
        BY <4>1 DEF States
      <4> QED
        BY <4>1, <4>2, <4>3, <4>4
    <3> QED
      <4>1. completed' \in Nat /\ released' \in 0..completed'
        BY <3>1
      <4>2. /\ kind' \in Kinds \cup {"none"} /\ repeat' \in BOOLEAN /\ rep_wait' \in BOOLEAN
            /\ serving' \in {"idle", "poll"} /\ state' \in States
        BY <3>1 DEF CaptureTypeOK
      <4> QED
        BY <3>1, <4>1, <4>2, StartTyped DEF CaptureTypeOK
  <2> QED
    BY <1>6, <2>1, <2>2 DEF start, Waited, WaitFor
<1>7. CASE Stop
  <2>1. CASE poll /\ serving' = "stop"
    BY <2>1, PollTyped
  <2>2. CASE WaitFor("stopping") /\ UNCHANGED <<state, fixed, rep_wait, count>>
    BY <2>2 DEF CaptureTypeOK, WaitFor, fixed, setup, count
  <2>3. CASE /\ serving' = "idle" /\ UNCHANGED <<fixed, count, sampler, flags, task>>
             /\ ((state' = "configured" /\ rep_wait' = FALSE) \/ UNCHANGED <<state, rep_wait>>)
    <3>1. state' \in States /\ rep_wait' \in BOOLEAN
      BY <2>3 DEF CaptureTypeOK, States
    <3> QED
      BY <2>3, <3>1 DEF CaptureTypeOK, fixed, setup, flags, count
  <2>4. CASE /\ serving' = "idle" /\ UNCHANGED <<fixed, released, sampler, flags, task>>
             /\ (completed' = completed + 1 \/ completed' = completed)
             /\ ((state' = "done" /\ UNCHANGED rep_wait) \/ (state' = "configured" /\ rep_wait' = FALSE))
    <3>1. completed' \in Nat /\ released' \in 0..completed'
      BY <2>4 DEF CaptureTypeOK
    <3>2. state' \in States /\ rep_wait' \in BOOLEAN
      BY <2>4 DEF CaptureTypeOK, States
    <3> QED
      BY <2>4, <3>1, <3>2 DEF CaptureTypeOK, fixed, setup, flags
  <2>5. completed \in Nat
    BY DEF CaptureTypeOK
  <2> QED
    <3>1. CASE serving = "stop"
      BY <1>7, <2>2, <2>3, <3>1 DEF Stop, Waited
    <3>2. CASE serving = "stopping"
      <4>1. /\ serving' = "idle" /\ UNCHANGED <<fixed, released, sampler, flags, task>>
            /\ ((state' = "done" /\ UNCHANGED rep_wait) \/ (state' = "configured" /\ rep_wait' = FALSE))
        BY <1>7, <3>2 DEF Stop, Waited
      <4>2. \E n \in {0, 1} : completed' = completed + n
        BY <1>7, <3>2 DEF Stop, Waited
      <4>3. completed' = completed + 1 \/ completed' = completed
        BY <2>5, <4>2
      <4> QED
        BY <2>4, <4>1, <4>3
    <3> QED
      BY <1>7, <2>1, <3>1, <3>2 DEF Stop, Waited
<1> QED
  BY <1>1, <1>2, <1>3, <1>4, <1>5, <1>6, <1>7 DEF Requests

(* Every step keeps the types.                                             *)
LEMMA StepTyped == CaptureTypeOK /\ [CaptureNext]_captureVars => CaptureTypeOK'
<1> SUFFICES ASSUME CaptureTypeOK, [CaptureNext]_captureVars
             PROVE  CaptureTypeOK'
  OBVIOUS
<1>1. CASE UNCHANGED captureVars
  BY <1>1 DEF CaptureTypeOK, captureVars, fixed, setup, count, flags
<1> QED
  BY <1>1, TaskTyped, RequestTyped DEF CaptureNext

-----------------------------------------------------------------------------
(* The slots                                                               *)

(* A segment kept, a repeat resumed: the next search has a slot.           *)
LEMMA PollSlots ==
  ASSUME CaptureTypeOK, SlotsKept, poll
  PROVE  SlotsKept'
<1>1. completed' \in Nat /\ completed \in Nat /\ released' = released /\ repeat' = repeat
      /\ released \in Nat
  <2>1. completed' = completed \/ completed' = completed + 1
    BY DEF poll, segmentDone
  <2> QED
    BY <2>1 DEF CaptureTypeOK, poll, setup
<1>2. CASE Resumes
  BY <1>1, <1>2 DEF poll, SlotsKept, Searching, Resumes, SlotFree
<1>3. CASE ~Resumes /\ Finished /\ segmentDone
  <2>1. \/ state' \in {"done", "paused"}
        \/ completed' - released < Segments
    BY <1>1, <1>3 DEF segmentDone, SlotFree
  <2> QED
    BY <1>1, <2>1 DEF SlotsKept, Searching
<1>4. CASE ~Resumes /\ ~Finished /\ UNCHANGED <<completed, sampling>>
  <2>1. (Searching' => Searching)
    BY <1>4 DEF poll, Searching, Announces
  <2> QED
    BY <1>1, <1>4, <2>1 DEF SlotsKept
<1> QED
  BY <1>2, <1>3, <1>4 DEF poll

(* Every step keeps it.                                                    *)
LEMMA StepSlots == CaptureTypeOK /\ SlotsKept /\ [CaptureNext]_captureVars => SlotsKept'
<1> SUFFICES ASSUME CaptureTypeOK, SlotsKept, [CaptureNext]_captureVars
             PROVE  SlotsKept'
  OBVIOUS
<1>1. CASE UNCHANGED <<state, repeat, rep_wait, completed, released>>
  BY <1>1 DEF SlotsKept, Searching
<1>2. CASE poll
  BY <1>2, PollSlots
<1>3. CASE release
  <2>1. released' >= released /\ released' \in Nat
    BY <1>3 DEF release, CaptureTypeOK
  <2>2. (Searching' <=> Searching) /\ repeat' = repeat /\ completed' = completed
    BY <1>3 DEF release, Searching, fixed, setup
  <2>3. ASSUME repeat, Searching
        PROVE  completed - released' < Segments
    <3>1. completed - released < Segments
      BY <2>3 DEF SlotsKept
    <3>2. completed \in Nat /\ released \in Nat /\ Segments \in Nat
      BY CaptureAssumption DEF CaptureTypeOK
    <3>3. \A c, r, q, n \in Nat : c - r < n /\ q >= r => c - q < n
      OBVIOUS
    <3> QED
      BY <2>1, <3>1, <3>2, <3>3
  <2> QED
    BY <2>2, <2>3 DEF SlotsKept
<1>4. CASE state' \in {"unconfigured", "planned", "configured", "done", "error"}
  BY <1>4 DEF SlotsKept, Searching
<1>5. CASE Waited("start") /\ completed' = 0 /\ released' = 0
  BY <1>5, CaptureAssumption DEF SlotsKept
<1>6. ASSUME NEW t \in Tasks, Task(t)
      PROVE  SlotsKept'
  BY <1>1, <1>6 DEF Task, Trigger, Abort, LastSample, Leave, fixed, setup, count
<1>7. CASE Stop
  <2>1. CASE serving = "stop"
    BY <1>1, <1>2, <1>4, <1>7, <2>1 DEF Stop, Waited, fixed, setup, count
  <2>2. CASE serving = "stopping"
    <3>1. state' \in {"done", "configured"}
      BY <1>7, <2>2 DEF Stop, Waited
    <3> QED
      BY <1>4, <3>1
  <2> QED
    BY <1>2, <1>7, <2>1, <2>2 DEF Stop, Waited
<1>8. CASE ForceTrigger \/ Configure \/ Plan
  BY <1>1, <1>4, <1>8 DEF ForceTrigger, Configure, Plan, fixed, setup, count
<1>9. CASE start
  BY <1>1, <1>5, <1>9 DEF start, fixed, setup, count
<1> QED
  BY <1>1, <1>2, <1>3, <1>6, <1>7, <1>8, <1>9
  DEF CaptureNext, Requests, Poll, captureVars, fixed, setup, count

-----------------------------------------------------------------------------
(* The run begun alone                                                     *)

(* A task made when every other was gone.                                  *)
LEMMA StartedAlone ==
  ASSUME CaptureTypeOK, Started, Running', ~overtaken'
  PROVE  Alone'
<1>1. PICK t \in Tasks : /\ task' = [task EXCEPT ![t] = "run"] /\ sampler' = t
  BY DEF Started, Steps
<1>2. \A u \in Tasks : task[u] = "gone"
  BY DEF Started
<1>3. \A u \in Tasks : task'[u] = IF u = t THEN "run" ELSE "gone"
  BY <1>1, <1>2 DEF CaptureTypeOK
<1>4. Live' = {t}
  BY <1>3 DEF Live
<1>5. done' = FALSE
  BY DEF Started
<1>6. OneTask' /\ HandleHeld'
  BY <1>1, <1>3, <1>4 DEF OneTask, HandleHeld
<1>7. DoneIsLast' /\ RunIsKept' /\ RestIsDone'
  BY <1>4, <1>5 DEF DoneIsLast, RunIsKept, RestIsDone
<1>8. TriggerSeen'
  BY <1>3, <1>5 DEF TriggerSeen
<1>9. CutIsEarly'
  BY <1>3 DEF Started, CutIsEarly
<1> QED
  BY <1>6, <1>7, <1>8, <1>9 DEF Alone

(* Nothing samples, and the state says so.                                 *)
LEMMA RestAlone ==
  ASSUME OneTask, Live = {}, task' = task, ~Running'
  PROVE  Alone'
<1>1. Live' = {}
  BY DEF Live
<1>2. OneTask'
  BY DEF OneTask
<1> QED
  BY <1>1, <1>2 DEF Alone, HandleHeld, DoneIsLast, RestIsDone, RunIsKept, TriggerSeen,
                    CutIsEarly, Live

(* A step that does not touch what the task and loop() share.              *)
LEMMA SameAlone ==
  ASSUME Alone, Running' <=> Running,
         UNCHANGED <<kind, task, sampler, done, trig_seen, aborted>>
  PROVE  Alone'
<1>1. Live' = Live
  BY DEF Live
<1>2. OneTask' /\ HandleHeld'
  BY <1>1 DEF Alone, OneTask, HandleHeld
<1>3. DoneIsLast' /\ RestIsDone' /\ RunIsKept'
  BY <1>1 DEF Alone, DoneIsLast, RestIsDone, RunIsKept
<1>4. TriggerSeen' /\ CutIsEarly'
  BY DEF Alone, TriggerSeen, CutIsEarly
<1> QED
  BY <1>2, <1>3, <1>4 DEF Alone

(* A segment kept, a repeat resumed, a trigger announced.                  *)
LEMMA PollAlone ==
  ASSUME CaptureTypeOK, ~overtaken => Alone, poll, ~overtaken'
  PROVE  Alone'
<1>1. CASE Started
  <2>1. sampler' \in Tasks /\ task' # task
    BY <1>1 DEF Started, Steps, CaptureTypeOK
  <2>2. ~StartFailed /\ ~UNCHANGED sampling
    BY <2>1, CaptureAssumption DEF StartFailed, sampling
  <2>3. state' = "capturing"
    BY <2>2 DEF poll, segmentDone
  <2> QED
    BY <1>1, <2>3, StartedAlone DEF Running
<1>2. CASE UNCHANGED <<task, overtaken>>
  <2>1. Alone
    BY <1>2
  <2>2. CASE Resumes /\ state' = state
    BY <1>2, <2>1, <2>2, RestAlone DEF Alone, RestIsDone, Resumes, Running
  <2>3. CASE Finished /\ state' \in {"done", "paused"}
    BY <1>2, <2>1, <2>3, RestAlone DEF Alone, DoneIsLast, Finished, Running
  <2>4. CASE ~Resumes /\ ~Finished /\ UNCHANGED sampling
    <3>1. Running' <=> Running
      BY <2>4 DEF poll, Announces, Searching, Running
    <3> QED
      BY <2>1, <2>4, <3>1, SameAlone DEF poll, sampling, flags, setup
  <2> QED
    BY <1>1, <1>2, <2>2, <2>3, <2>4 DEF poll, segmentDone
<1> QED
  BY <1>1, <1>2 DEF poll, segmentDone, StartFailed, sampling

(* What the task does on the other core.                                   *)
LEMMA TaskAlone ==
  ASSUME CaptureTypeOK, Alone, NEW t \in Tasks, Task(t)
  PROVE  Alone'
<1>1. /\ state' = state /\ kind' = kind /\ (Running' <=> Running)
      /\ OneTask /\ HandleHeld /\ DoneIsLast /\ RestIsDone /\ RunIsKept /\ TriggerSeen
      /\ CutIsEarly
  BY DEF Task, Trigger, Abort, LastSample, Leave, fixed, setup, Alone, Running
<1>2. PICK to : task[t] # "gone" /\ task' = [task EXCEPT ![t] = to]
  BY DEF Task, Trigger, Abort, LastSample, Leave, Steps
<1>3. OneTask'
  BY <1>1, <1>2 DEF OneTask, CaptureTypeOK
<1>4. \A u \in Tasks \ {t} : task[u] = "gone" /\ task'[u] = "gone"
  BY <1>1, <1>2 DEF OneTask, CaptureTypeOK
<1>5. task'[t] = to
  BY <1>2 DEF CaptureTypeOK
<1>6. CASE Trigger(t) \/ Abort(t) \/ LastSample(t)
  <2>1. /\ to \in {"rest", "ran"} /\ t \in Live /\ UNCHANGED <<sampler, done>>
    BY <1>2, <1>5, <1>6 DEF Trigger, Abort, LastSample, Steps, Live, flags, CaptureTypeOK
  <2>2. Live' = {t}
    BY <1>4, <1>5, <2>1 DEF Live
  <2>3. ~done /\ Running /\ sampler = t
    BY <1>1, <2>1 DEF DoneIsLast, RestIsDone, HandleHeld
  <2>4. kind = "search" => trig_seen' \/ aborted'
    <3>1. CASE Trigger(t)
      BY <3>1 DEF Trigger
    <3>2. CASE Abort(t)
      BY <3>2 DEF Abort
    <3>3. CASE LastSample(t)
      BY <1>1, <2>3, <3>3 DEF LastSample, TriggerSeen, Steps, flags
    <3> QED
      BY <1>6, <3>1, <3>2, <3>3
  <2>5. TriggerSeen'
    BY <1>1, <2>1, <2>3, <2>4 DEF TriggerSeen
  <2>6. CutIsEarly'
    <3>1. CASE Trigger(t)
      <4>1. to = "rest" /\ ~aborted' /\ task[t] = "run"
        BY <1>1, <1>2, <1>5, <3>1 DEF Trigger, Steps, CutIsEarly, CaptureTypeOK
      <4> QED
        BY <1>4, <1>5, <4>1 DEF CutIsEarly
    <3>2. CASE Abort(t)
      <4>1. to = "ran" /\ kind' # "immediate" /\ ~trig_seen'
        BY <1>1, <1>5, <3>2 DEF Abort, Steps, CutIsEarly, CaptureTypeOK
      <4> QED
        BY <1>4, <1>5, <4>1 DEF CutIsEarly
    <3>3. CASE LastSample(t)
      <4>1. to = "ran" /\ ~aborted'
        BY <1>1, <1>5, <3>3 DEF LastSample, Steps, flags, CutIsEarly, CaptureTypeOK
      <4> QED
        BY <1>4, <1>5, <4>1 DEF CutIsEarly
    <3> QED
      BY <1>6, <3>1, <3>2, <3>3
  <2> QED
    BY <1>1, <1>3, <2>1, <2>2, <2>3, <2>5, <2>6
    DEF Alone, HandleHeld, DoneIsLast, RestIsDone, RunIsKept
<1>7. CASE Leave(t)
  <2>1. to \in {"told", "gone"} /\ UNCHANGED <<trig_seen, aborted>> /\ (done => done')
    BY <1>5, <1>7 DEF Leave, Steps, flags, CaptureTypeOK
  <2>2. Live' = {}
    BY <1>4, <1>5, <2>1 DEF Live
  <2>3. Running => done'
    <3>1. CASE Steps(t, "ran", "told")
      BY <1>7, <3>1 DEF Leave, Steps
    <3>2. CASE Steps(t, "told", "gone")
      <4>1. Live = {}
        BY <1>4, <3>2 DEF Live, Steps
      <4> QED
        BY <1>1, <2>1, <4>1 DEF RunIsKept
    <3> QED
      BY <1>7, <3>1, <3>2 DEF Leave
  <2>4. TriggerSeen'
    <3>1. SUFFICES ASSUME Running, kind = "search"
                   PROVE  trig_seen \/ aborted
      BY <1>1, <2>1 DEF TriggerSeen
    <3>2. task[t] = "ran" \/ done
      <4>1. CASE Steps(t, "ran", "told")
        BY <4>1 DEF Steps
      <4>2. CASE Steps(t, "told", "gone")
        <5>1. Live = {}
          BY <1>4, <4>2 DEF Live, Steps
        <5> QED
          BY <1>1, <3>1, <5>1 DEF RunIsKept
      <4> QED
        BY <1>7, <4>1, <4>2 DEF Leave
    <3> QED
      BY <1>1, <3>1, <3>2 DEF TriggerSeen
  <2>5. CutIsEarly'
    BY <1>1, <1>4, <1>5, <2>1 DEF CutIsEarly
  <2> QED
    BY <1>1, <1>3, <2>2, <2>3, <2>4, <2>5
    DEF Alone, HandleHeld, DoneIsLast, RestIsDone, RunIsKept
<1> QED
  BY <1>6, <1>7 DEF Task

(* What a request of loop() does.                                          *)
LEMMA RequestAlone ==
  ASSUME IInv, Requests, ~overtaken'
  PROVE  Alone'
<1>1. CaptureTypeOK /\ StopsARun /\ (~overtaken => Alone)
  BY DEF IInv
<1>2. CASE poll
  BY <1>1, <1>2, PollAlone
<1>3. CASE UNCHANGED <<state, kind, overtaken, task, sampler, done, trig_seen, aborted>>
  BY <1>1, <1>3, SameAlone DEF Running
<1>4. ASSUME NEW r, WaitFor(r), UNCHANGED <<state, fixed>>
      PROVE  Alone'
  BY <1>3, <1>4 DEF WaitFor, fixed, setup
<1>5. CASE sampler = NoTask /\ UNCHANGED <<task, overtaken>> /\ ~Running'
  <2>1. OneTask /\ Live = {}
    BY <1>1, <1>5, CaptureAssumption DEF Alone, HandleHeld, Live
  <2> QED
    BY <1>5, <2>1, RestAlone
<1>6. CASE release \/ ForceTrigger
  BY <1>3, <1>6 DEF release, ForceTrigger, fixed, setup, flags
<1>7. CASE Configure
  <2>1. CASE Waited("configure") /\ state' = "configured" /\ UNCHANGED sampling
    BY <1>5, <2>1 DEF Waited, sampling, Running
  <2>2. CASE UNCHANGED <<state, fixed, rep_wait, count, sampler, flags, task>>
    BY <1>3, <2>2 DEF fixed, setup, flags
  <2> QED
    BY <1>4, <1>7, <2>1, <2>2 DEF Configure
<1>8. CASE Plan
  <2>1. CASE sampler = NoTask /\ state' \in {"planned", "unconfigured"} /\ UNCHANGED <<fixed, task>>
    BY <1>5, <2>1 DEF fixed, Running
  <2> QED
    BY <1>4, <1>8, <2>1 DEF Plan, Waited
<1>9. CASE start
  <2>1. CASE Waited("start") /\ Started /\ state' \in {"waiting", "capturing"}
    BY <1>1, <2>1, StartedAlone DEF Running
  <2>2. CASE Waited("start") /\ StartFailed /\ state' = "error"
    BY <1>5, <2>2 DEF Waited, StartFailed, Running
  <2> QED
    BY <1>4, <1>9, <2>1, <2>2 DEF start
<1>10. CASE Stop
  <2>1. CASE serving = "stop"
    <3>1. CASE UNCHANGED <<state, rep_wait>> /\ UNCHANGED <<fixed, count, sampler, flags, task>>
      BY <1>3, <3>1 DEF fixed, setup, flags
    <3>2. CASE /\ state = "paused" /\ state' = "configured"
               /\ UNCHANGED <<fixed, count, sampler, flags, task>>
      <4>1. OneTask /\ Live = {}
        BY <1>1, <3>2 DEF Alone, RestIsDone, Running, fixed
      <4> QED
        BY <3>2, <4>1, RestAlone DEF Running
    <3> QED
      BY <1>4, <1>10, <2>1, <3>1, <3>2 DEF Stop, Waited
  <2>2. CASE serving = "stopping"
    <3>1. /\ sampler = NoTask /\ UNCHANGED <<fixed, task>>
          /\ state' \in {"done", "configured"}
      BY <1>10, <2>2 DEF Stop, Waited
    <3> QED
      BY <1>5, <3>1 DEF fixed, Running
  <2> QED
    BY <1>2, <1>10, <2>1, <2>2 DEF Stop, Waited
<1> QED
  BY <1>2, <1>6, <1>7, <1>8, <1>9, <1>10 DEF Requests, Poll

(* loop() waits in stopping only for a run it has found waiting or         *)
(* capturing, and nothing else runs till it goes on.                       *)
LEMMA StepStops == StopsARun /\ [CaptureNext]_captureVars => StopsARun'
<1> SUFFICES ASSUME StopsARun, [CaptureNext]_captureVars, serving' = "stopping"
             PROVE  Running'
  BY DEF StopsARun
<1>1. CASE serving = "stopping" /\ state' = state
  BY <1>1 DEF StopsARun, Running
<1>2. ASSUME NEW t \in Tasks, Task(t)
      PROVE  Running'
  BY <1>1, <1>2 DEF Task, Trigger, Abort, LastSample, Leave
<1>3. CASE Requests
  <2>1. ~(Poll \/ release \/ ForceTrigger \/ Configure \/ Plan \/ start)
    BY DEF Poll, release, ForceTrigger, Configure, Plan, start, WaitFor, Waited
  <2> QED
    BY <1>3, <2>1 DEF Requests, Stop, WaitFor, Waited, Running
<1> QED
  BY <1>1, <1>2, <1>3 DEF CaptureNext, captureVars

(* Nothing runs at first.                                                  *)
LEMMA InitHolds == CaptureInit => IInv
<1> SUFFICES ASSUME CaptureInit
             PROVE  IInv
  OBVIOUS
<1>1. CaptureTypeOK
  <2>1. completed \in Nat /\ released \in 0..completed
    BY DEF CaptureInit
  <2>2. task \in [Tasks -> {"run", "rest", "ran", "told", "gone"}]
    BY DEF CaptureInit
  <2>3. /\ state \in States /\ kind \in Kinds \cup {"none"}
        /\ sampler \in Tasks \cup {NoTask} /\ control \in {"none", "force", "abort"}
        /\ serving \in {"idle", "poll", "configure", "plan", "unplan", "start", "stop", "stopping"}
    BY DEF CaptureInit, States
  <2>4. /\ repeat \in BOOLEAN /\ rep_wait \in BOOLEAN /\ done \in BOOLEAN
        /\ trig_seen \in BOOLEAN /\ aborted \in BOOLEAN /\ overtaken \in BOOLEAN
    BY DEF CaptureInit
  <2> QED
    BY <2>1, <2>2, <2>3, <2>4 DEF CaptureTypeOK
<1>2. SlotsKept /\ StopsARun /\ ~Running
  BY DEF CaptureInit, SlotsKept, Searching, StopsARun, Running
<1>3. Live = {} /\ OneTask
  BY DEF CaptureInit, Live, OneTask
<1> QED
  BY <1>1, <1>2, <1>3 DEF IInv, Alone, HandleHeld, DoneIsLast, RestIsDone, RunIsKept,
                          TriggerSeen, CutIsEarly, CaptureInit

(* Every step keeps the invariant.                                         *)
LEMMA StepHolds == IInv /\ [CaptureNext]_captureVars => IInv'
<1> SUFFICES ASSUME IInv, [CaptureNext]_captureVars
             PROVE  IInv'
  OBVIOUS
<1>1. CaptureTypeOK' /\ SlotsKept' /\ StopsARun'
  BY StepTyped, StepSlots, StepStops DEF IInv
<1>2. ASSUME ~overtaken'
      PROVE  Alone'
  <2>1. CASE Requests
    BY <1>2, <2>1, RequestAlone
  <2>2. ASSUME NEW t \in Tasks, Task(t)
        PROVE  Alone'
    <3>1. overtaken' = overtaken
      BY <2>2 DEF Task, Trigger, Abort, LastSample, Leave, fixed
    <3> QED
      BY <1>2, <2>2, <3>1, TaskAlone DEF IInv
  <2>3. CASE UNCHANGED captureVars
    BY <1>2, <2>3, SameAlone DEF IInv, captureVars, fixed, setup, flags, Running
  <2> QED
    BY <2>1, <2>2, <2>3 DEF CaptureNext
<1> QED
  BY <1>1, <1>2 DEF IInv

(* So it always holds.                                                     *)
LEMMA AlwaysHolds == CaptureSpec => []IInv
<1> QED
  BY InitHolds, StepHolds, PTL DEF CaptureSpec

-----------------------------------------------------------------------------
(* Two tasks at most in a set whose members are all one.                   *)
LEMMA OneAtMost ==
  ASSUME NEW S, NEW x, S \subseteq {x}
  PROVE  Cardinality(S) <= 1
<1>1. CASE S = {}
  <2>1. Cardinality(S) = 0
    BY <1>1, FS_EmptySet
  <2> QED
    BY <2>1
<1>2. CASE S = {x}
  <2>1. Cardinality(S) = 1
    BY <1>2, FS_Singleton
  <2> QED
    BY <2>1
<1> QED
  BY <1>1, <1>2

(* Outside a run no task samples, and in one no two do, unless the run was *)
(* begun while an earlier task had yet to clear its handle (startRun,      *)
(* waitIdle, samplerTask).                                                 *)
THEOREM OnlyTheOvertakenIsLeft == CaptureSpec => []OnlyOvertakenIsLeft
<1>1. IInv => OnlyOvertakenIsLeft
  <2> SUFFICES ASSUME IInv, ~overtaken
               PROVE  (Idle => Sampling = {}) /\ Cardinality(Sampling) <= 1
    BY DEF OnlyOvertakenIsLeft
  <2>1. Sampling \subseteq Live
    BY DEF Sampling, Live
  <2>2. Live \subseteq {sampler}
    BY DEF IInv, Alone, HandleHeld
  <2>3. Idle => Live = {}
    BY DEF Idle, IInv, Alone, RestIsDone, Running
  <2> QED
    BY <2>1, <2>2, <2>3, OneAtMost
<1> QED
  BY <1>1, AlwaysHolds, PTL

(* No segment is written over one the host has yet to release, and a stop  *)
(* keeps the segment it waits for (segmentDone, release, stop): what it    *)
(* loses it has cut short, a search with no trigger yet or a clocked       *)
(* window, never an immediate one nor one whose trigger had come (run,     *)
(* runClocked).                                                            *)
THEOREM SegmentsAreKept == CaptureSpec => SegmentsKept
<1>1. ASSUME IInv, IInv', [CaptureNext]_captureVars
      PROVE  SlotsKept' /\ StopKeeps
  <2>1. SlotsKept'
    BY <1>1 DEF IInv
  <2>2. ASSUME serving = "stopping", serving' = "idle", ~overtaken
        PROVE  completed' = completed + 1 \/ (aborted /\ kind # "immediate" /\ ~trig_seen)
    <3>1. Stop
      <4>1. ASSUME NEW t \in Tasks, Task(t)
            PROVE  FALSE
        BY <2>2, <4>1 DEF Task, Trigger, Abort, LastSample, Leave
      <4>2. ~(Poll \/ release \/ ForceTrigger \/ Configure \/ Plan \/ start)
        BY <2>2 DEF Poll, release, ForceTrigger, Configure, Plan, start, WaitFor, Waited
      <4> QED
        BY <1>1, <2>2, <4>1, <4>2 DEF CaptureNext, Requests, captureVars
    <3>2. sampler = NoTask /\ Running /\ Alone
      BY <1>1, <2>2, <3>1 DEF Stop, Waited, IInv, StopsARun
    <3>3. Live = {}
      BY <3>2, CaptureAssumption DEF Alone, HandleHeld, Live
    <3>4. CASE aborted
      BY <3>2, <3>4 DEF Alone, CutIsEarly
    <3>5. CASE ~aborted
      <4>1. done /\ (kind = "search" => trig_seen)
        BY <3>2, <3>3, <3>5 DEF Alone, RunIsKept, TriggerSeen
      <4> QED
        BY <2>2, <3>1, <3>5, <4>1 DEF Stop, Waited
    <3> QED
      BY <3>4, <3>5
  <2> QED
    BY <2>1, <2>2 DEF StopKeeps, StopEnds, Kept
<1>2. CaptureSpec => [][CaptureNext]_captureVars
  BY DEF CaptureSpec
<1>3. ASSUME IInv, IInv', [CaptureNext]_captureVars
      PROVE  [SlotsKept' /\ StopKeeps]_captureVars
  BY <1>1, <1>3
<1> QED
  BY <1>2, <1>3, AlwaysHolds, PTL DEF SegmentsKept

=============================================================================
