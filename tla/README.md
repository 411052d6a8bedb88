# Verification of the OEP probe library

TLA+ models of the parts of `oep-probe-arduino` where an order of steps decides
whether the probe is right: the session lock and its resend record, the plans
and the pin table, the notifications, a port's speed, the gate between the two
cores, the sampled capture, the settings' save, the debug wire and what rides on
it, and the small machines that carry bytes, marks and frames. Every module is
read from the C++ under `src/src/`; `PROJECT.json` maps each definition to its
lines.

- [The system](#the-system)
- [The modules](#the-modules)
- [What the runs check](#what-the-runs-check)
- [Fairness](#fairness)
- [What is proved](#what-is-proved)
- [What is only model-checked](#what-is-only-model-checked)
- [Where the code and its comments disagree](#where-the-code-and-its-comments-disagree)
- [What is abstracted](#what-is-abstracted)
- [Not modelled](#not-modelled)
- [Plan](#plan)

## The system

One task, `loop()`, calls `Endpoint::poll()`: it reads every transport in turn,
runs each request to its end, then the timers, then `push()`. Besides it run the
sampler's task on the other core, the captures' tasks and DMA interrupts, the
USB and UART drivers, and Wi-Fi. What a session makes hangs on one lock.

| part | state | operations | talks to | hard |
|---|---|---|---|---|
| Endpoint: session | `locked_`, `holder_`, `last_`, `expires_ms_`, the resend ring, `newest_corr_` | open, force, end_session, keepalive, lapse, restart, resend | every interface's `sessionOver`, the hosts | resends, losses, wraps of `corr` and `millis()`, takeover, restart |
| Endpoint: plans; PinTable | `plan_roles_`, `planned`, `persistent`; `owner_`, `pending_`, `disabled_`, idles | plan_apply, plan_release, replacePlan, claim, release, deferIdle, settleIdle | every interface's planCheck, planApply, planRelease | one of several steps failing, undo, a pad that must not blink |
| Endpoint: notifications | `subscribed`, `push_seq`, the event ring, `draining`, `waiting`, `push_` | subscribe, unsubscribe, event, eventsLost, push | captures' `pull`, the transports, TCP slots | order of answers, events and data; a connection that changes; batching |
| Endpoint: port_speed | `speed_state_`, `speed_port_`, `speed_pending_`, `speed_fallback_`, two limits | try, commit, revert, speedPoll, sessionEnded | the UARTs, the serial readers | a rate changed under a frame or an answer, a host that is gone |
| Framing | a reader's part of a frame, its gap | feed, idle, spill, write | transports, binds | frames among raw bytes, frames cut short |
| WireGate | eight words between two cores | tryHold, hold, release, frameBegin/End; beginWindow, beginBurst, yieldFrame, endWindow | the SWIO and RVSWD wires, the sampler | every interleaving of loads and stores |
| SamplerCapture | `state_`, `done_`, `sampler_`, `control_`, slots | configure, plan, start, stop, force, release, poll; the task | WireGate, notifications | two tasks and two flags |
| Settings | values, generation, the save and its state | set, unset, get, save, load, applySaved | PinTable, flash, Wi-Fi, binds | power loss, contradicting saves |
| Target, wires, consoles | a connection, its hold, its loss clock, a stream, a pass-through | attach, detach, scan, open, close, read, poll | the pin table, PHYs, settings | who ends what, in which order |
| Console mailbox | the queue, what was seen, the sequence bits | poll, write, halt, resume | the debug module's two data registers | missed accesses, operands in the registers |
| Position streams | a ring, marks with serials | put, mark, clear, erase, read, marks | consoles, fixture UARTs, hosts | overwritten while read, serials that wrap |
| UART receive ledger | counts, a held loss, a ring of places | the driver's events, publish, poll, stop | the driver's interrupt, a task, `loop()` | losses at the right place, three parties |
| Direct bulk stream | two queues, one transfer in flight | write, flush, queueData, completion | USB driver | the USB task against `loop()` |
| Boot guard | crash count, state | boot, beat, settle | reset causes, the at-boot attach | crash loops |
| Memo | objects in files, a staging file | write in parts, delete | flash | power loss, names with one CRC |
| Logic and analog capture, groups | DMA rings, stages, segments, positions | configure, start, stop, pull, read, bind | drivers' tasks, direct push | data produced while it is read or sent |
| TCP, Wi-Fi | slots, connection numbers, station entries | accept, close, drain; connect, retry | Endpoint | a slot's connection replaced |

What makes each right: *session* - one holder, nothing outlives it, a request
runs once and its answer is its own, the lease ends what is silent and nothing
else; *plans* - all or nothing, a pin has one owner, a pad that stays planned
does not blink, a disabled channel is left alone; *notifications* - the host can
count what it lost, nothing goes to another's connection, due data goes out;
*port_speed* - the endpoint knows what its UARTs run at, a raised port goes back
when its session or its host is gone; *WireGate* - no read meets a frame and
nobody waits for ever; *capture* - one sampler, kept segments stay; *settings* -
a boot finds a save that was whole, pads follow the values; *wires* - pins and
numbers are given back, a stream hears its own connection, a connection is lost
only to silence; *streams, ledger, mailbox, framing, memo* - each gives what was
put in, once, whole and in order, or says what is missing; *boot guard* - a safe
boot comes after crashes, and only then.

## The modules

| module | models | state and steps |
|---|---|---|
| `SessionLock` | what a host may rely on (abstract) | who holds the lock and who made what; Take, Pass, End, Make, Release |
| `OepSession` | `OepEndpoint.cpp` 420-617, 930-980 and the lock | one action per way out of `handleMessage`, its lapse first, `Poll`, `Tick`, `PowerLoss`, `replacePlan`, hosts that number, send, resend and lose |
| `PinPlan` | `OepEndpoint.cpp` 986-1240, `OepPinTable.h` | one action per request, `replaceFns` whole with its undo; the plan table is a bag of roles |
| `Notify` | `OepEndpoint.cpp` 265-418, `OepTcp.h` | requests, events, `push()` one fn at a time (`PushFn`), the host's reads, connections |
| `PortSpeed` | `OepEndpoint.cpp` 261-265, 420-478, 816-929 | a pass of `poll()` port by port, the timers, the push; a frame on a line begins, is whole or stops |
| `WireGate` | `OepWireGate.h`, the run loop of `OepSamplerRun.h` | one action per load or store of a word; `lpc` and `spc` are where each core is |
| `SamplerCapture` | `OepSampler.cpp` | requests with their wait as steps of `loop()`, the task's start, trigger, end, and its two last stores |
| `Settings` | `OepSettings.cpp` | set, unset, get (a page), save in its three steps, boot in two, `PowerLoss` between any |
| `TargetWire` | `OepTarget.cpp`, `OepConsole.cpp`, `OepSettings::runPassthroughs` | the wire's record and the console's; requests, the console's poll and the settings' poll take turns in one `loop()` |
| `Mailbox` | `OepDmConsole.cpp` | one action per access to a data register in a poll, its miss included; the target's steps between any two; the three protocols |
| `SerialFrames` | `SerialReader`, COBS in `OepFrame.cpp` | the reader byte by byte, its 200 ms, a host that frames, cuts short and sends raw |
| `LengthFrames` | `FrameReader` in `OepFrame.cpp` | the reader byte by byte on a line and on TCP, its resync, an overlong length |
| `PositionStream` | `OepStream.h` | put, mark, clear, erase, restart, a read and a page of marks; a host that goes on from its own place |
| `UartRx` | `OepUartRx.h`, `FixtureUart` in `OepFixture.cpp` | the interrupt, the task's ledger, and `loop()`'s poll in its steps |
| `BulkStream` | `OepDirectBulkStream.h` | write, flush, queueData; `kick` and `completed` step by step for each task |
| `BootGuard` | `OepBootGuard.cpp`, the at-boot slots of `OepSettings.cpp` | a boot, its rounds, the ways it ends |
| `Memo` | `OepMemo.cpp` | each step on the file system, `PowerLoss` before any |

`PinPlan`, `Notify`, `PortSpeed` and `TargetWire` see the session only as "its
lock ends now", which is what `releaseLock` tells them, and `OepSession` keeps of
them who holds a subscription or a plan. `SessionLock` is implemented by
`OepSession` with `lock` the holder and `made` the subscriptions and plans of
sessions: `LockSteps` is its initial state and its steps,
`NoSessionHoldsForEver` its liveness under `OepSession`'s own fairness. `Memo`,
`BulkStream`, `PositionStream`, `Mailbox`, `UartRx` and the two readers keep in
history variables what was put in, and their properties say what may come out.

`MC*` modules give TLC its values. Two of them are benches: `MCPinPlan` holds,
beside `PinPlan`, the stream, the ledger, the memo, the two readers and the
mailbox; `MCWireGate`, beside the gate, the sampler's runs, the bulk stream and the
boot guard. These
parts share no state, so a bench composes nothing: its variable `moves`, chosen
among the constant `Moving` at the start, says which part a behaviour is about,
and the others rest in an initial state. The bench says `INSTANCE` for each, and
the theorems about those parts are of the instance's own specification
(`Stream!StreamSpec`, `Objects!MemoSpec`, `Bulk!BulkSpec`, `Guard!BootSpec`) with
the instance's constants arbitrary. `MCNotify` has `Notify` in two sizes in the
same way: events over two connections, and data over one.

`*Proofs` modules hold the theorems about the module they are named after;
`PinPlanProofs` also those of the memo and of the stream, `WireGateProofs` those
of the boot guard and of the bulk stream.

## What the runs check

Each run ends in under five minutes with two workers.

| run | bounds | shows |
|---|---|---|
| `session_one` | one host, numbers 1, 2, 3, 5, 7 with `corr` modulo 6, 3 entries, 2 in flight, a message a queue, lease 2, clock modulo 7, requests up to a tick long | over a turn of `corr` each answer is its request's own and the record has what may be asked again (`RecordServes`); the lease lapses only after a whole quiet lease, only requests that run renew it (`LeaseIsKept`), no session holds for ever |
| `session_two` | two hosts that wait for their opens, 2 requests each, forced opens, plans of theirs and of the sketch, a restart or a power loss, lease 1, clock modulo 5 | nothing outlives its session, no request runs twice, every step is one of `SessionLock`'s |
| `plan` | two drivers, a logic and an analog capture, 2 channels, 3 roles, 2 named in a request; beside it the six small parts | table, interfaces and pads agree, all or nothing, no blink; see below for the six |
| `gate` | one frame, no bound on windows; beside it the sampler with 2 tasks (one run's may still be leaving while the next begins), 2 slots and 2 segments, 3 bulk frames, and boots up to 3 crashes | no read meets a frame, an immediate window has no holder, a frame goes, a request gets the wire; a run is left sampling only where the next search overtook its task, a stop loses only what the sampler cut short, requests end; bulk frames whole and once, buffers given back once results stop coming; safe boots when due, an attach comes |
| `settings` | 2 channels (one input only), labels that differ in case, one idle mode, one UART's pass-through, an initial disable, saves of 2 with doubled labels and contradictions | a boot gives a save that was answered or cut short; "applied" means it; pages fit together; pads rest where the values say |
| `wire` | 2 channels, 2 pairs, one output idle, one pass-through, loss after 1 tick, 3 numbers | pins and numbers are given back (`NothingLeaks`), a stream hears its connection only, a lost line was silent |
| `notify` | events: USB and a TCP slot, 2 connections, 2 sessions, 2 subscriptions each, `seq` modulo 2; data: one fn batched by bytes or by time, a transport of 5 with `push_queue_` 4 | seqs count what is lost, the ring is the session's, nothing goes where the session did not speak; due data goes out |
| `speed` | 2 ports, the second a bridge, one raised rate, limits and gap 1, two sessions, each ended by request, by lease or, the first, by the other's open with force | ports run at what the endpoint says; a raised one is its session's or its revert is asked for, and no later than that poll's timers it is back; answers leave at their rate, a try ends though the other port is busy |
| `sampler_race`, `window_cut`, `plan_twice`, `wire_pads` | as above: 3 tasks and 2 segments, one clocked window, 4 roles, the wire's | violations, see below |

The six small parts of `plan`: a stream of 2 bytes and 2 marks whose serials wrap
at 4, with 3 bytes and 5 marks put into it and a page of one
(`HostKnowsTheStream`); a UART of 3 bytes and a loss, whose ledger holds one place
(`LossMarked`); a memo of 3 names, two of which share a CRC, 2 files a CRC and 2
objects (`ObjectsKept`); messages with a zero at each place among raw bytes, COBS
blocks of 2 (`LineIsRead`); lengths in base 3 with a limit of 4 and stray bytes
(`FrameIsGot`); four frames, three with one head and rests that differ, and four
bytes of input through each of the three mailbox protocols, one access of a poll
missed (`MailboxKept`).

Small bounds are enough where a violation needs few actors: the lock, a plan's
undo and a save are decided by two parties and one failure; the record by one
wrap of `corr` (an entry half a turn old is still in the ring when its number
comes again); the gate by one frame on each side of a window; a ring by more puts
than it holds, and its serials by one wrap. Most safety properties are also
proved for every value. The bounds that end a host's behaviour (`Numbers`,
`MaxTerms`, `MaxConns`, `MaxBytes`, `MaxFrames`) stop the hosts, never the probe's
own steps; the session's runs, whose hosts may all be gone while the lock is free,
say `CHECK_DEADLOCK FALSE`.

Each property has a mutant: a change of a mapped definition such as a mistake in
that code would be (a dropped guard, a missing reset, an order swapped), under
which TLC finds the property violated. They stand before the definition they
change, marked `Mutant`.

## Fairness

- `loop()` polls again and again: `WF(Poll)`, `WF(Push)`. The sketch calls
  `poll()` from `loop()`, and `poll()` returns: `PortSpeed` has to assume it
  (`PollsReturn`), since a port is read until nothing waits there.
- Time passes: `WF(Tick)`. `millis()` is a hardware timer.
- A host reads its end (`WF(Drain)`), a UART sends (`WF(Leave)`). Without the
  first nothing more than a full transport is claimed.
- Both cores run (`WireGate`): weak fairness of each core's next step, and
  strong fairness of what a window's length decides (a window has so many
  samples). `RequestGetsTheWire` has one premise more, `Paced`, which the code's
  times give: a search's turn (5 ms) or gap (1 ms) is longer than a take of a few
  loads and stores. Safety does not need it.
- A forced search triggers, a task runs to its end (`SamplerCapture`). That
  `waitIdle` lets go of the wire before it waits is seen by `WireGate`, where
  without it TLC meets a deadlock, and by `NeitherWaitsHolding`.
- A task that is in `kick()` or `completed()` goes on, `flush()` is called again,
  and USB completes a transfer it was given (`BulkStream`). `GivenBack` has the
  premise `ResultsEnd`: `kick()` takes results first, and results without end keep
  a queued stage waiting for ever. In the run `MaxFrames` ends them.
- A boot that does not crash goes round `loop()` (`BootGuard`).
- The hosts are never fair: they may stop at any moment.

## What is proved

`tlapm` checks these for every value of the constants, from the assumptions the
modules name (`SessionAssumption`, `NumberAssumption`, `FnsAssumption`,
`NotifyAssumption`, `SpeedAssumption`, `MaxFrameAssumption`, `CaptureAssumption`,
`SettingsAssumption`, `WireAssumption` and `BesideAssumption`, which is
`MemoAssumption`, `StreamAssumption`, `UartAssumption`, `MailAssumption`,
`BulkAssumption` and `BootAssumption`).
Where a theorem assumes more it says so in its statement: `MailboxIsKept` that a poll
misses one access at most (`OneMiss`). That is what `confirm()` says it covers
(`OepDmConsole.cpp` 32-36), not what a wire does, and no more would hold: TLC breaks
`sdi` with two accesses missed, and all three protocols with three.
Each is an invariant
strengthened until it is inductive: that the initial states have it, one lemma
for each action (or group of actions that change the same state), and that it
gives the property.

| theorem | property | along |
|---|---|---|
| `NothingOutlives` | `NothingOutlivesItsSession` | inductive once the types of the three functions are added (`HeldInv`): a request either releases the lock, and `Dropped` clears all a session made, or runs only as the holder's |
| `ImplementsTheLock` | `LockSteps` | the refinement of `SessionLock`: `Init` maps to its `Init`, and each action, taken as a lapse and then a request, to one of its steps or a stutter |
| `NothingRunsTwice` (`OpenAlone`) | `AtMostOnce` | `OnceInv`: a host's numbers in flight are within half a turn (`HostOrder`), what waits in its queue is no newer than the last it sent (`QueueOrder`), and `newest` is at or past every number that ran (`NewestKnown`); so a number that ran is out of order or in the record |
| `SessionsLiveByRequests` (`OpenAlone`) | `LeaseIsKept` | `LeaseLeft`: what is left of the lease and how long it was quiet add up, as a difference modulo the clock's turn (`WholeTurns`) |
| `RecordServesResends` (`OpenAlone`, `MaxInflight <= Entries`, and while `RecordSpans`) | `RecordServes` | `RecordInv`: all a host has on its way lies within a turn (`Pipe`: its unanswered requests are few, the answers on their way are their requests' own), and with the newest number recorded N each entry is of a number up to N with as many newer numbers after it as entries were written since (`TableFits`); so the entry written over is no waiting request's, and one less than a turn behind with the `corr` of a resend is the resend's |
| `TablesAgree`, `PlansChangeWhole` (no `Resubmits`, no `OverDisabled`) | `PlanAgrees`, `PlansKept` | `PlanInv` adds that a disabled channel is free; what `replaceFns` leaves is a function of the request, refused, undone or done, and the undo is the state before |
| `NoBlink` | `NeverBlinks` | every operation ends in `settleIdle`, which idles only marked channels without an owner; no invariant is needed |
| `ObjectsStay` | `ObjectsKept` | `MemoInv`: a name's file is in a slot of its CRC, once (`FilesShape`), no more than the limit (`FilesFew`), the staging file is the start of what the write is to be (`WriteFits`), and each file is what was last kept (`FilesAsKept`), at each step between the staging and the rename |
| `HostKnowsStreams` | `HostKnowsTheStream` | every byte from the oldest kept on lies at its position's remainder, each mark back from the newest lies in a slot of its own with its serial, and the serial the host goes on from is that of its last mark; two positions less than a ring apart have different remainders (`RestsApart`) |
| `LossesAreMarked` | `LossMarked` | `UartInv`: the events queued are of bytes one after the other, from what the task has counted to what was received (`EventsInOrder`), a drop not placed is past those ahead of its mark (`AheadOf`), and a loss not marked is on its way: in the queue, held, in the ledger's ring or waiting in `loop()`, at a place not past it that no limit handed on has passed (`Placed`, `Kept`) |
| `MailboxIsKept` (`OneMiss`) | `MailboxKept` | `MailInv`: two looks at the hart that agree are true (`Looks`, `Hart`); what lies in the mailbox is the target's frame, an answer or nothing (`Lies`), and how many frames went to the sink and where the input is follow from it and from `dmseq`'s bits (`Counts`, `TypedIn`, `SeqBits`); a head the console has seen goes with the rest that lies in DATA1 until it is answered (`Seen`), so whichever access is missed, a word that is confirmed is the one in DATA0 and its rest is its own, or without sequence numbers that of a frame said before under its head (`Reads`, `Confirms`, `RestsOf`) |
| `OnlyWhereItSpoke`, `NoEventOutlives` | `SpokenTo`, `RingIsTheSessions` | the route a subscription chose is one its session spoke on, and a connection's number is never given twice |
| `HostsCanCount` | `SeqsTell` | `SeqInv`: for each fn the events of its subscription in the ring, in order, end just before its next seq, modulo the seq's turn |
| `OnlyASessionRaises`, `AnswersLeaveAtTheirSpeed` | `RaisedBySession`, `LeavesAtItsSpeed` | the two together with "the raised port is a port": the revert must put the right UART back and flush the right answers; a step that ends a session on any port asks for the revert, and nothing after the timers leaves it asked for |
| `FrameAlone`, `WindowUndisturbed`, `NeitherWaitsHolding`, `WindowCloses`, `WordsTyped` | `NoReadMeetsFrame`, `ImmediateWindowHasNoFrame` and three of the module | what each core may conclude from the words it has read: `AckMeansStopped` (an acknowledge equal to the frame means the sampler waits in `yieldFrame`), `FrameStops` (with a frame out the sampler has not passed its look), `HeldAgrees`, and where the window stands at each point of a run |
| `SafeBootsComeWhenDue` | `SafeBoots` | `GuardInv`: how the record a reset leaves, the count in the boot and the crashes in a row go together, in a run and between two; the RP2's slack of one is what a lockup leaves no mark of |
| `FramesComeWhole` | `FramesGoOnce` | `WireInv` says which entries of the two queues are real and whose turn the kick is; while nothing was dropped `StreamInv` says that in flight, queued and being written follow one another (`FramesLinked`), and where in them the host stands (`HostAgrees`) |
| `OnlyTheOvertakenIsLeft`, `SegmentsAreKept` | `OnlyOvertakenIsLeft`, `SegmentsKept` | while no run was begun over an earlier task's exit (`~overtaken`) there is one task, its handle is held, and `done_` is the last thing but one it says (`Alone`). A stop that loses a run's samples met an abort: a search with no trigger yet, or a clocked window (`StopKeeps`) |
| `TableFollows`, `PadsRest`, `DisabledAreLeft`, `GenerationTells` | `FreeRests` and three of the module | the table's functions are those of the values, and a disabled channel has no owner; what a boot reads stays opaque, as `adopt` brings the table to any values |
| `PagesReadWell`, `AppliedIsKept` | `ValuesReadWell`, `AppliedMeansKept` | `KInv`: the values are well formed and within the limits whatever save was read, the file's value by value reading is what was written, "saved" is said only of a generation that is on flash, and a reader's pages are of the values of its generation |
| `BootRecovers` | `BootGivesASave` | `Recovers`: what a boot would find now is the save answered last or one that power cut short |
| `NothingIsLeaked`, `StreamHearsItsOwn`, `LossIsSilence` | `NothingLeaks`, `StreamIsItsConnections`, `LostMeansSilent` | `Well`: a pin is the wire's exactly while it is connected and of its pair, numbers are below the next, the console's number is live while it is open, and one of the two ages of the loss clock is covered by time without an answer |

The assumptions, and why the code has them:

- `OpenAlone`: a host waits for the answer to its `open` before it sends more.
  `AtMostOnce` is false without it (see the list below).
- `MaxInflight <= Entries`: the endpoint tells the hosts no more than its record's
  entries (`bounded`, `OepEndpoint.h` 154); a probe with no record at all is outside.
- `RecordSpans`: the record's numbers span less than a turn of `corr`. It is about
  the numbers the hosts leave out, not the code, and `RecordServes` is false
  without it (the first of the session's list below).
- no `Resubmits`: no request names a fn with the set it has (`plan_twice` is what
  happens then); no `OverDisabled`: the sketch plans no disabled channel, which
  `replacePlan` does not refuse.
- `SettingsAssumption`: the initial values fit and no two are for one slot:
  `initialValue` puts them in through `insert`, which refuses both.
- `StreamAssumption`: fewer marks are kept than there are serials (16 of 2^32).
- `BulkAssumption`: the result queue has two entries for each of the two buffers.
- `MemoAssumption`: the model's "none" is nobody's name; the memo refuses an
  empty name.

Induction over data is out of the prover's reach, so what a definition computes by
recursion is proved only where it can be brought back to the naturals: a save read
value by value is counted up with a lemma proved from well-foundedness (`UpTo` in
`SettingsProofs`). What a frame takes of a transport's room (`Notify`) is a sum and
stays opaque; no theorem depends on its value.

Proved with no run of their own: `WaiterHoldsNothing`, `NoWindowIsLeft`,
`PinsFollow`, `LeftFromBoot`, `GenerationCounts` (TLC agreed with each before its
proof).

## What is only model-checked

- Liveness and all that rests on fairness: `NoSessionHoldsForEver`, `TryEnds`,
  `WaitingGoesOut`, `FrameGoes`, `RequestGetsTheWire`, `GivenBack`, `AttachComes`,
  `RequestsEnd`.
- `LineIsRead`, `FrameIsGot`: COBS and its inverse are defined by recursion over
  the bytes.

## Where the code and its comments disagree

Four are runs that TLC ends with a trace; PROJECT.json quotes the comment.

1. `sampler_race` (`OepSampler.cpp` 126): the task says it is done before it clears
   its handle; a repeat's next search started in between loses its handle, and
   `stop` does not find it. `gate` shows that nothing else leaves a run.
2. `window_cut` (`OepSamplerRun.h` 308): `OepSampler.cpp` 132 and 493 say that a
   window cannot be cut short and its segment is kept. A window of an external
   clock looks at the abort flag: a stop ends it and its samples go. An immediate
   window is as they say, and what else a stop may lose is a search with no trigger
   yet (`SegmentsKept`).
3. `plan_twice` (`OepEndpoint.cpp` 1184): a fn named again with the set it has gets
   its roles into the table a second time, and a later plan completes with another
   set.
4. `wire_pads` (`OepTarget.cpp` 316): a wire that moves to another pair lets go of
   the pads of the pair it was on, a plan's too; and what it drove of a pair a plan
   took one channel of stays driven with nobody recorded (`OepPinTable.h` 5 says
   two interfaces never drive one channel).

Seen while modelling, each with a trace of TLC's at the time, and not kept as a
run; the models still have the behaviour unless it says otherwise.

*Session.*

- `OepEndpoint.cpp` 554: an entry half a turn old is dropped only when its own
  `corr` comes again; more than a turn old it looks young. With a turn of 8, 4
  entries and 2 in flight: 1, 4 and 7 run, 9 is lost, 10 runs, 9 sent again is
  answered from 1's entry. A host reaches it by leaving numbers out (requests that
  are no session's) until the record spans over a turn.
- `OepEndpoint.cpp` 544 ("never run twice"): a host that sends a request behind a
  new `open` of its own, both of which run, and then loses the power or the lock,
  may have its `open` sent again open anew and the request run again.
- `OepEndpoint.cpp` 943, `OepEndpoint.h` 544 (an `open` drops the record) and the
  comment before `open()` (932-936, the subscriptions follow a resent open's
  transport): the code, and the comment inside it, keep both for the holder.

*Plans, pads and wires.*

- `OepEndpoint.cpp` 1151: `undo()` ignores what `applyAll` answers; an old plan
  whose roles are in the table twice (3 above) cannot be put back.
- `OepEndpoint.cpp` 1155: the refusals for too many roles and for an unshared
  channel come after the release, so a capture's data is lost (1071 says a refusal
  changes nothing).
- `OepAnalog.cpp` 166: the analog capture's check does not ask whether a channel is
  disabled (`OepPinTable.h` 11).
- `OepTarget.cpp` 673: a refused attach or scan ends the hold with its lines still
  driven; a hold stays recorded though a pass-through or a plan that came and went
  has freed its lines; an attach makes the pass-through yield (526) before it may
  be refused, a scan does not make it yield; the pass-through claims no pins.
- `OepConsole.cpp` 137: a console opened right after a detach and an attach is
  refused as wrongState by the stream of the old connection.

*Notifications and ports.*

- `OepEndpoint.cpp` 386: a batch is counted in data and lowered in payload, so it
  ends before its data has gone, and the rest waits for `min_bytes` again
  (`BatchGoesWhole`).
- `OepEndpoint.cpp` 404: events of an old subscription survive its unsubscribe.
- `OepEndpoint.cpp` 361: `push_queue_` holds only once the transport was seen idle.
- `OepEndpoint.cpp` 343: a first fn with data all the time starves the others.
- `OepEndpoint.cpp` 584: an answer on any port keeps a committed port raised.
- `OepEndpoint.cpp` 906: a frame whose first bytes wait in the driver is cut by a
  limit's revert.
- `OepDirectBulkStream.h` 102-116: after a dropped frame the endpoint's `flush()`
  queues the buffer in flight again, and half a frame goes out (`NeverHalfAFrame`);
  71-74 say an in-flight buffer is left alone.
- `SerialReader::badCandidates()` is read nowhere, though `OepFrame.h` 116 says the
  endpoint watches it on a raised port.

*The gate, settings, consoles, UART.*

- `OepSamplerRun.h` 242: a turn open at a burst's end leaves the gap shared, though
  the comment at 245 calls it exclusive.
- `OepSettings.cpp` 1194: the first copy of a key saved twice is applied (1224 says
  neither is).
- `OepDmConsole.cpp` 36 (`confirm()`): "One missed read cannot make them agree on
  anything but what the mailbox holds". In `sdi` and `dmdata` it can: the poll's read
  of DATA0 is missed and gives the head read before; DATA1, read twice, is still that
  frame's; the target posts its next frame, of the same head, before DATA0 is read
  again; and the sink gets the old rest under the new head. `RestsFor` allows this
  and no more: held to a frame's own rest, `MailboxKept` fails in the run.
- `OepFixture.cpp` 313, `OepFixture.h` 168: with no room left in `pending_`, a poll
  passes losses that are still in the ledger's ring, unmarked (`OepUartRx.h` says
  every loss before the limit is handed over by then). It takes more than 32 losses
  between two polls.
- `UartRx` has that (as "piled") and more as `blind`, which `LossMarked` leaves out:
  a drop not yet taken when the driver's queue fills again, `stopEvents()`'s drain,
  which does not look for a full queue, a loss held at the stop, a bad byte whose
  event was dropped, and a batch of 16 published in two parts.

## What is abstracted

- *OepSession*: one transport per host; `corr` 0 is never used; a long request is
  a jump of the clock; a request's payload is its op. An `open` sent again may run
  again after another session's, and `AtMostOnce` leaves opens out.
- *WireGate*: the relaxed loads are taken in the order of the stores around them
  (`seq_cst`); the frame counter does not wrap.
- *SamplerCapture*: samples, times and records are left out; a task's handle is its
  name.
- *PinPlan*: a role is its channel; the drivers stand for the gpio fixture, the
  listeners for the logic capture, the analogs for the analog capture; the second
  `planCheck` after the release is folded into the first; `Resubmits` and
  `OverDisabled` choose what the hosts and the sketch ask for.
- *Settings*: a value takes one unit of room; a CRC matches exactly what was
  written; a save of another firmware is a set of values.
- *Notify*: a header, an event and a meta take one unit; `seq` wraps at a small
  number; the last session of `MaxTerms` stays. With data there is one fn, so a fn
  before another in `push()`'s walk is not exercised there.
- *PortSpeed*: a lease runs out at any `lapse()`; the rates asked for are ones the
  UART makes; ports that are no bridges receive whole frames; an open past
  `MaxTerms` is refused. Between a session's end and the timers of that poll a
  request can be answered at the raised rate: the path of a resend or a refused
  header does not switch, an open's answer goes before it does.
- *TargetWire*: what a block operation does to a target is whether it cleaned up;
  a pair is a set of channels; the pass-through's data is left out. The reset
  line's own channel is not modelled: an attach or a reset with it may be refused
  or go on.
- *Mailbox*: a word is what its reader can make of it; a lost write is left out for
  `sdi` and `dmdata`, as the code says of itself; the restart of the sequenced
  protocol after a target's reset, the clock of a lost wire, the background turns
  and the take-over mark are left out.
- *SerialFrames*, *LengthFrames*: COBS's 254, a length's base of 256 and the CRC's
  two bytes are small; the CRC tells any two contents of the run apart.
- *PositionStream*: a byte is a value, a mark its ordinal; a read gives all there is
  from a position, a page of marks at most `Page`.
- *UartRx*: bytes are counted, not told apart; the driver's ring never overruns.
- *BulkStream*: sizes in units of a packet's parts; a critical section is one step.
- *BootGuard*: time in units of the gate's settling; the count saturates.
- *Memo*: a CRC tells any two contents apart; names may share the CRC of their path;
  the file system keeps a finished rename, as the code takes it.

## Not modelled

Encoders and parsers (what they refuse is a refused request), logging, the
platform layer, generated constants, the peripherals' registers, and the timing of
bits on a wire have no state a model checker could tell right from wrong. The
examples, host tests and tools use the library. I2C and SPI targets and the chips'
logic samplers are registers and interrupts of one chip each. The captures with DMA
rings and the PARLIO, their direct pushes and groups, the binds and the raw ring,
SWD and the debug module's operations, and the Wi-Fi station have state of their
own and are in the plan.

## Plan

1. *LogicCapture, AnalogCapture, CaptureGroup*: one run's segments and positions,
   repeat and harvest, the members' common start and stop; the direct push of their
   data (`OepCapture` 600-650), on the bulk stream.
2. *Binds and the raw ring*: what a pass-through or a bridge carries, on the stream.
3. *The debug module's groups*: what a group of operations leaves when one fails.
4. *Wi-Fi and the TCP slots' write wait*.

Theorems after these: that a segment read is the segment captured.
