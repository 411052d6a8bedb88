------------------------------ MODULE OepSession ------------------------------
(***************************************************************************)
(* The endpoint's session lock, its lease and its resend record            *)
(* (src/src/OepEndpoint.cpp: handleMessage, open, checkSession, lapse,     *)
(* releaseLock, restartNow), with the hosts that use them.                 *)
(*                                                                         *)
(* Every session id has a host of its own and a transport of its own: two  *)
(* queues, in order, from whose heads messages are lost (a CRC error, a    *)
(* dropped connection).  A host numbers its requests in order, leaving     *)
(* numbers out as it likes (it uses them for requests without a session),  *)
(* keeps at most MaxInflight of them unanswered, and sends an unanswered   *)
(* one again, byte for byte, at any moment.  On the wire a request carries *)
(* corr, its number modulo Turn (65536 in the code); the number itself     *)
(* ("n") never reaches the probe and only serves the properties.           *)
(*                                                                         *)
(* millis() is a counter modulo ClockTurn (2^32 in the code).  handle-     *)
(* Message runs to its end before the next message (one task calls poll),  *)
(* so it is one action; the clock may advance while it runs.               *)
(***************************************************************************)
EXTENDS Integers, Sequences, FiniteSets

CONSTANTS Sessions,      \* session ids
          NoSession,     \* last_ before the first open; nobody
          Settings,      \* holder of a plan that outlives sessions (replacePlan)
          Fns,           \* the fns with notifications and a plan
          SketchFns,     \* the fns the sketch itself plans (replacePlan)
          Ops,           \* the requests the hosts send
          Big,           \* ops whose answer is over resend_bytes, and that run long
          Turn,          \* corr is a number modulo Turn
          Entries,       \* resend_entries
          MaxInflight,   \* what confirm tells the hosts
          OpenAlone,     \* hosts have nothing else unanswered while an open is
          Lease,         \* the lease granted, in ticks
          ClockTurn,     \* millis() wraps here
          MaxGap,        \* ticks between two passes of poll()
          MaxOp,         \* ticks a long request runs (max_op_ms)
          Numbers,       \* bound: the numbers a host gives its requests
          MaxQueue,      \* bound: messages waiting on one queue
          MaxRestarts    \* bound: restarts and power losses

Half == Turn \div 2

ASSUME SessionAssumption ==
  /\ NoSession \notin Sessions /\ Settings \notin Sessions /\ Settings # NoSession
  /\ Ops \subseteq {"open", "force", "subscribe", "unsubscribe", "plan_apply",
                    "plan_release", "keepalive", "read", "end", "restart"}
  /\ Big \subseteq Ops /\ SketchFns \subseteq Fns

ASSUME NumberAssumption ==
  /\ Turn \in Nat /\ Turn > 3 /\ Turn = 2 * Half
  /\ Entries \in Nat /\ MaxInflight \in Nat \ {0} /\ OpenAlone \in BOOLEAN
  /\ Lease \in Nat \ {0} /\ MaxGap \in Nat /\ MaxOp \in Nat
  /\ ClockTurn \in Nat /\ ClockTurn > 2 * (Lease + MaxGap)
  /\ Numbers \subseteq {n \in Nat : n % Turn # 0}   \* corr 0 is malformed: no host uses it
  /\ MaxQueue \in Nat /\ MaxRestarts \in Nat

VARIABLES
  locked, holder, last,   \* locked_, holder_; last_ (NoSession: not have_last_)
  expires,                \* expires_ms_
  newest,                 \* newest_corr_ (0: not have_newest_; no request has corr 0)
  dedup, dedup_next,      \* the resend ring and the entry written next
  subscribed, planned,    \* per fn: who holds it (the code keeps a flag; who is for the properties)
  now,                    \* millis()
  gap,                    \* ticks since poll() last looked at the lease
  quiet,                  \* ticks since the holder was last answered (for the properties)
  phase, sent, waiting,   \* per host: what it does, the numbers it used, its unanswered requests
  reqQ, ansQ,             \* per host: its transport
  ran,                    \* per host and number: how often it was run, 2 for more (for the properties)
  restarts                \* restarts so far

lockVars  == <<locked, holder, last, expires>>
tableVars == <<newest, dedup, dedup_next>>
fnVars    == <<subscribed, planned>>
timeVars  == <<now, gap, quiet>>
hostVars  == <<phase, sent, waiting>>
vars == <<lockVars, tableVars, fnVars, timeVars, hostVars, reqQ, ansQ, ran, restarts>>

Requests == [n : Numbers, op : Ops, fn : Fns]
Results  == {"success", "unavailable", "locked", "no_session", "result_lost", "malformed"}
Answers  == [n : Numbers, by : Numbers, res : Results]
Unused   == [used |-> FALSE]
Slots    == 0..(Entries - 1)
QuietCap == Lease + MaxGap

corr(n) == n % Turn

Init ==
  /\ locked = FALSE /\ holder = NoSession /\ last = NoSession /\ expires = 0
  /\ newest = 0 /\ dedup = [k \in Slots |-> Unused] /\ dedup_next = 0
  /\ subscribed = [f \in Fns |-> NoSession] /\ planned = [f \in Fns |-> NoSession]
  /\ now = 0 /\ gap = 0 /\ quiet = 0
  /\ phase = [s \in Sessions |-> "closed"]
  /\ sent = [s \in Sessions |-> {}]
  /\ waiting = [s \in Sessions |-> {}]
  /\ reqQ = [s \in Sessions |-> <<>>] /\ ansQ = [s \in Sessions |-> <<>>]
  /\ ran = [s \in Sessions |-> [n \in Numbers |-> 0]]
  /\ restarts = 0
-----------------------------------------------------------------------------
(* The lease.  poll() looks at it in every pass (push), handleMessage before *)
(* anything else.                                                           *)

\* static_cast<int32_t>(millis() - expires_ms_) >= 0
Expired == (now - expires) % ClockTurn < ClockTurn \div 2

Lapsing == locked /\ Expired
Live    == locked /\ ~Expired    \* locked_ once lapse() has looked

\* Mutant: what the session made stays.
DroppedNothing(t) == t

\* releaseLock, loseSession: subscriptions and the session's plans go, the
\* settings' plans stay.
Dropped(t) == [f \in Fns |-> IF t[f] = Settings THEN Settings ELSE NoSession]

SubscribedNow == IF Lapsing THEN Dropped(subscribed) ELSE subscribed
PlannedNow    == IF Lapsing THEN Dropped(planned) ELSE planned

lapse == /\ locked' = Live
         /\ subscribed' = SubscribedNow
         /\ planned' = PlannedNow
         /\ UNCHANGED <<holder, last, expires>>

releaseLock == /\ locked' = FALSE
               /\ subscribed' = Dropped(SubscribedNow)
               /\ planned' = Dropped(PlannedNow)

\* The lease runs from when the holder's request completed; a long request
\* takes up to MaxOp ticks.
Completed(d) == /\ now' = (now + d) % ClockTurn
                /\ expires' = (now + d + Lease) % ClockTurn
                /\ gap' = 0
                /\ quiet' = 0

NoTime == gap' = 0 /\ UNCHANGED <<now, quiet>>
-----------------------------------------------------------------------------
(* The resend record.                                                       *)

mine(s) == last = s

OfCorr(m) == {k \in Slots : dedup[k].used /\ dedup[k].corr = corr(m.n)}

\* Mutant: an old entry is never dropped.
OldNever(k) == FALSE

\* half a turn old: dropped
Old(k) == newest # 0 /\ (newest - dedup[k].corr) % Turn >= Half

\* the recorded entry the request is a resend of (one at most)
Recorded(m) == {k \in OfCorr(m) : ~Old(k)}

DropOld(m) == [k \in Slots |-> IF k \in OfCorr(m) /\ Old(k) THEN Unused ELSE dedup[k]]

\* not 1 to Half-1 past the newest request
OutOfOrder(m) == newest # 0 /\ (corr(m.n) - newest - 1) % Turn >= Half - 1

\* Mutant: the session is judged before the record.
FreshAlways(s, m) == TRUE

\* judged by its session, not by the record
Fresh(s, m) == mine(s) => Recorded(m) = {} /\ ~OutOfOrder(m)

Entry(m, res) == [used |-> TRUE, corr |-> corr(m.n), kept |-> m.op \notin Big,
                  op |-> m.op, fn |-> m.fn, n |-> m.n, res |-> res]

record(t, m, res) ==
  /\ newest' = corr(m.n)
  /\ IF Entries = 0 THEN UNCHANGED <<dedup, dedup_next>>
     ELSE /\ dedup' = [t EXCEPT ![dedup_next] = Entry(m, res)]
          /\ dedup_next' = (dedup_next + 1) % Entries

\* every answer to a request of the last session is recorded, refusals too
recordMine(s, m, res) == IF mine(s) THEN record(DropOld(m), m, res)
                         ELSE UNCHANGED tableVars
-----------------------------------------------------------------------------
(* handleMessage, one action per way out.  Each takes the head of a queue,  *)
(* lets the lease lapse first, and sends one answer.                        *)

Take(s, m) == reqQ[s] # <<>> /\ m = Head(reqQ[s]) /\ Len(ansQ[s]) < MaxQueue

send(s, m, by, res) ==
  /\ reqQ' = [reqQ EXCEPT ![s] = Tail(@)]
  /\ ansQ' = [ansQ EXCEPT ![s] = Append(@, [n |-> m.n, by |-> by, res |-> res])]
  /\ UNCHANGED <<hostVars, restarts>>

Ran(s, m) == ran' = [ran EXCEPT ![s][m.n] = IF @ = 0 THEN 1 ELSE 2]

ResentAnswer(s, m) ==
  /\ Take(s, m) /\ mine(s) /\ Recorded(m) # {}
  /\ LET d == dedup[CHOOSE k \in Recorded(m) : TRUE]
         res == IF ~d.kept THEN "result_lost"
                ELSE IF d.op # m.op \/ d.fn # m.fn THEN "malformed" ELSE d.res
     IN  send(s, m, d.n, res)
  /\ dedup' = DropOld(m)
  /\ UNCHANGED <<newest, dedup_next, ran>>

\* Mutant: a resend of the holder's restarts the lease.
ResentRenews(s, m) ==
  /\ ResentAnswer(s, m)
  /\ IF Live /\ holder = s THEN Completed(0) /\ UNCHANGED <<locked, holder, last, fnVars>>
     ELSE lapse /\ NoTime

\* Answered from the record, never run again; the lease does not restart.
Resent(s, m) == ResentAnswer(s, m) /\ lapse /\ NoTime

\* A number not recorded that is not a new one: never run.
ResultLost(s, m) ==
  /\ Take(s, m) /\ mine(s) /\ Recorded(m) = {} /\ OutOfOrder(m)
  /\ send(s, m, m.n, "result_lost")
  /\ dedup' = DropOld(m)
  /\ lapse /\ NoTime
  /\ UNCHANGED <<newest, dedup_next, ran>>

\* checkSession, and open's own refusals
Refused(s, m) ==
  /\ Take(s, m) /\ Fresh(s, m)
  /\ \E res \in {"locked", "no_session"} :
       /\ \/ ~Live /\ res = "no_session" /\ (m.op \in {"open", "force"} => mine(s))
          \/ Live /\ holder # s /\ res = "locked" /\ m.op # "force"
       /\ recordMine(s, m, res)
       /\ send(s, m, m.n, res)
  /\ lapse /\ NoTime
  /\ UNCHANGED ran

\* the holder's new open: only the lease starts again
OpenAgain(s, m) ==
  /\ Take(s, m) /\ Fresh(s, m) /\ m.op \in {"open", "force"}
  /\ Live /\ holder = s
  /\ Completed(0)
  /\ recordMine(s, m, "success") /\ send(s, m, m.n, "success") /\ Ran(s, m)
  /\ UNCHANGED <<locked, holder, last, fnVars>>

\* a new session: on the free lock, or over another holder by force, whose
\* session is released first; the record starts again from this open
OpenNew(s, m) ==
  /\ Take(s, m) /\ Fresh(s, m) /\ m.op \in {"open", "force"}
  /\ \/ ~Live /\ ~mine(s) /\ subscribed' = SubscribedNow /\ planned' = PlannedNow
     \/ Live /\ holder # s /\ m.op = "force"
        /\ subscribed' = Dropped(SubscribedNow) /\ planned' = Dropped(PlannedNow)
  /\ locked' = TRUE /\ holder' = s /\ last' = s
  /\ Completed(0)
  /\ record([k \in Slots |-> Unused], m, "success")
  /\ send(s, m, m.n, "success")
  /\ UNCHANGED ran   \* an open sent again may open anew: AtMostOnce is about what runs under a session

\* what the holder's requests do
subscription(s, m) == /\ subscribed' = [subscribed EXCEPT ![m.fn] =
                                          IF m.op = "subscribe" THEN s ELSE NoSession]
                      /\ UNCHANGED planned

\* a fn whose plan the settings put in is the settings' to change
planApply(s, m) == /\ planned[m.fn] # Settings
                   /\ planned' = [planned EXCEPT ![m.fn] = s]
                   /\ UNCHANGED subscribed

planReleaseRequest(m) == /\ planned' = IF planned[m.fn] = Settings THEN planned
                                       ELSE [planned EXCEPT ![m.fn] = NoSession]
                         /\ UNCHANGED subscribed

Does(s, m, res) ==
  \/ res = "success" /\ m.op \in {"subscribe", "unsubscribe"} /\ subscription(s, m)
  \/ res = "success" /\ m.op = "plan_apply" /\ planApply(s, m)
  \/ res = "unavailable" /\ m.op = "plan_apply" /\ planned[m.fn] = Settings /\ UNCHANGED fnVars
  \/ res = "success" /\ m.op = "plan_release" /\ planReleaseRequest(m)
  \/ res = "success" /\ m.op \in {"keepalive", "read"} /\ UNCHANGED fnVars

Run(s, m) ==
  /\ Take(s, m) /\ Fresh(s, m) /\ Live /\ holder = s
  /\ \E res \in {"success", "unavailable"} :
       Does(s, m, res) /\ recordMine(s, m, res) /\ send(s, m, m.n, res)
  /\ \E d \in 0..(IF m.op \in Big THEN MaxOp ELSE 0) : Completed(d)
  /\ Ran(s, m)
  /\ UNCHANGED <<locked, holder, last>>

End(s, m) ==
  /\ Take(s, m) /\ Fresh(s, m) /\ Live /\ holder = s /\ m.op = "end"
  /\ releaseLock
  /\ recordMine(s, m, "success") /\ send(s, m, m.n, "success") /\ Ran(s, m)
  /\ NoTime
  /\ UNCHANGED <<holder, last, expires>>

\* Everything the probe keeps in memory starts anew.
PowerOn ==
  /\ locked' = FALSE /\ holder' = NoSession /\ last' = NoSession /\ expires' = 0
  /\ newest' = 0 /\ dedup' = [k \in Slots |-> Unused] /\ dedup_next' = 0
  /\ subscribed' = [f \in Fns |-> NoSession]
  /\ planned' = [f \in Fns |-> NoSession]
  /\ now' = 0 /\ gap' = 0 /\ quiet' = 0
  /\ restarts' = restarts + 1

\* oep.probe.restart: the answer first, then as from power-on
Restart(s, m) ==
  /\ Take(s, m) /\ Fresh(s, m) /\ Live /\ holder = s /\ m.op = "restart"
  /\ restarts < MaxRestarts
  /\ PowerOn
  /\ reqQ' = [reqQ EXCEPT ![s] = Tail(@)]
  /\ ansQ' = [ansQ EXCEPT ![s] = Append(@, [n |-> m.n, by |-> m.n, res |-> "success"])]
  /\ Ran(s, m)
  /\ UNCHANGED hostVars

handleMessage(s) ==
  \E m \in Requests :
    \/ Resent(s, m) \/ ResultLost(s, m) \/ Refused(s, m)
    \/ OpenAgain(s, m) \/ OpenNew(s, m)
    \/ Run(s, m) \/ End(s, m) \/ Restart(s, m)

\* Mutant: only a request lets the lease lapse.
PollNoLapse == /\ gap > 0 /\ NoTime
               /\ UNCHANGED <<lockVars, fnVars, tableVars, hostVars, reqQ, ansQ, ran, restarts>>

\* a pass of poll() with nothing to read (push looks at the lease)
Poll == /\ gap > 0
        /\ lapse /\ NoTime
        /\ UNCHANGED <<tableVars, hostVars, reqQ, ansQ, ran, restarts>>

\* the sketch puts a plan in that outlives sessions, or takes it out
replacePlan == /\ \E f \in SketchFns, who \in {Settings, NoSession} :
                    planned' = [planned EXCEPT ![f] = who]
               /\ UNCHANGED <<lockVars, tableVars, subscribed, timeVars, hostVars, reqQ, ansQ, ran, restarts>>

PowerLoss == /\ restarts < MaxRestarts
             /\ PowerOn
             /\ UNCHANGED <<hostVars, reqQ, ansQ, ran>>

Tick == /\ gap < MaxGap
        /\ now' = (now + 1) % ClockTurn
        /\ gap' = gap + 1
        /\ quiet' = IF quiet < QuietCap THEN quiet + 1 ELSE quiet
        /\ UNCHANGED <<lockVars, tableVars, fnVars, hostVars, reqQ, ansQ, ran, restarts>>
-----------------------------------------------------------------------------
(* The hosts and their transports.                                          *)

probeVars == <<lockVars, tableVars, fnVars, timeVars, restarts, ran>>

\* A new number is counted from the oldest unanswered one and from the newest
\* answered one, whichever is lower.
Base(s) == LET unanswered == {r.n : r \in waiting[s]}
               answered   == sent[s] \ unanswered
           IN  unanswered \cup {n \in answered : \A i \in answered : i <= n}

\* A host's numbers: its least, then in order, less than half a turn past Base; at
\* most MaxInflight of them from the oldest unanswered one on.
NextNumbers(s) ==
  IF sent[s] = {} THEN {n \in Numbers : \A i \in Numbers : n <= i}
  ELSE IF \E r \in waiting[s] : Cardinality({n \in sent[s] : n >= r.n}) >= MaxInflight THEN {}
  ELSE {n \in Numbers : /\ \A b \in Base(s) : n < b + Half
                        /\ \A i \in sent[s] : i < n}

Submit(s, op, f) ==
  /\ Len(reqQ[s]) < MaxQueue
  /\ \E n \in NextNumbers(s) :
       /\ LET r == [n |-> n, op |-> op, fn |-> f]
          IN  /\ waiting' = [waiting EXCEPT ![s] = @ \cup {r}]
              /\ reqQ' = [reqQ EXCEPT ![s] = Append(@, r)]
       /\ sent' = [sent EXCEPT ![s] = @ \cup {n}]
  /\ UNCHANGED <<probeVars, ansQ>>

Opens == {"open", "force"}

\* What a host that waits for its opens sends next.
Waits(s, op) == OpenAlone => /\ op \in Opens => waiting[s] = {}
                             /\ \A r \in waiting[s] : r.op \notin Opens

HostOpen(s) == /\ phase[s] = "closed" /\ waiting[s] = {}
               /\ \E op \in Ops \cap {"open", "force"}, f \in Fns : Submit(s, op, f)
               /\ UNCHANGED phase

\* an open of its own session again too, as after a reconnect: no force for that
HostRequest(s) ==
  /\ phase[s] = "open"
  /\ \E op \in Ops \ {"force"}, f \in Fns :
       /\ Waits(s, op) /\ Submit(s, op, f)
       /\ phase' = IF op \in {"end", "restart"} THEN [phase EXCEPT ![s] = "gone"] ELSE phase

HostResend(s) == /\ \E r \in waiting[s] :
                      /\ Len(reqQ[s]) < MaxQueue
                      /\ reqQ' = [reqQ EXCEPT ![s] = Append(@, r)]
                 /\ UNCHANGED <<probeVars, hostVars, ansQ>>

\* the unanswered requests the answer's corr names
Asked(s, a) == {r \in waiting[s] : corr(r.n) = corr(a.n)}

HostReceive(s) ==
  /\ ansQ[s] # <<>>
  /\ LET a == Head(ansQ[s])
     IN  /\ waiting' = [waiting EXCEPT ![s] = @ \ Asked(s, a)]
         /\ phase' = IF Asked(s, a) = {} THEN phase
                     ELSE IF a.res = "no_session" \/ (a.res = "locked" /\ phase[s] = "open")
                          THEN [phase EXCEPT ![s] = "gone"]
                     ELSE IF a.res = "success" /\ phase[s] = "closed"
                          THEN [phase EXCEPT ![s] = "open"] ELSE phase
  /\ ansQ' = [ansQ EXCEPT ![s] = Tail(@)]
  /\ UNCHANGED <<probeVars, sent, reqQ>>

Lose(s) == /\ \/ reqQ[s] # <<>> /\ reqQ' = [reqQ EXCEPT ![s] = Tail(@)] /\ UNCHANGED ansQ
              \/ ansQ[s] # <<>> /\ ansQ' = [ansQ EXCEPT ![s] = Tail(@)] /\ UNCHANGED reqQ
           /\ UNCHANGED <<probeVars, hostVars>>
-----------------------------------------------------------------------------
Next == \/ \E s \in Sessions :
             \/ handleMessage(s)
             \/ HostOpen(s) \/ HostRequest(s) \/ HostResend(s) \/ HostReceive(s)
             \/ Lose(s)
        \/ Poll \/ Tick \/ replacePlan \/ PowerLoss

\* The clock runs and the sketch's loop calls poll(); nothing is assumed of
\* the hosts and the transports.
Spec == Init /\ [][Next]_vars /\ WF_vars(Poll) /\ WF_vars(Tick)
-----------------------------------------------------------------------------
(* Correctness.                                                             *)

TypeOK ==
  /\ locked \in BOOLEAN
  /\ holder \in Sessions \cup {NoSession} /\ last \in Sessions \cup {NoSession}
  /\ expires \in 0..(ClockTurn - 1) /\ now \in 0..(ClockTurn - 1)
  /\ gap \in 0..MaxGap /\ quiet \in 0..QuietCap
  /\ newest \in 0..(Turn - 1) /\ dedup_next \in Slots \cup {0}
  /\ dedup \in [Slots -> {Unused} \cup
        [used : {TRUE}, corr : 1..(Turn - 1), kept : BOOLEAN, op : Ops, fn : Fns,
         n : Numbers, res : Results]]
  /\ subscribed \in [Fns -> Sessions \cup {NoSession}]
  /\ planned \in [Fns -> Sessions \cup {NoSession, Settings}]
  /\ phase \in [Sessions -> {"closed", "open", "gone"}]
  /\ sent \in [Sessions -> SUBSET Numbers]
  /\ waiting \in [Sessions -> SUBSET Requests]
  /\ reqQ \in [Sessions -> Seq(Requests)] /\ ansQ \in [Sessions -> Seq(Answers)]
  /\ ran \in [Sessions -> [Numbers -> 0..2]]
  /\ restarts \in 0..MaxRestarts

\* What a session made exists only while that session holds the lock: nothing
\* passes to the next one, however the session ended (releaseLock: "No
\* resume"), and the lock's holder is always the last session opened.
NothingOutlivesItsSession ==
  /\ locked => (holder = last /\ holder \in Sessions)
  /\ \A f \in Fns :
       /\ subscribed[f] # NoSession => (locked /\ subscribed[f] = holder)
       /\ planned[f] \in Sessions => (locked /\ planned[f] = holder)

\* No request of a session is run twice, whatever is sent again, lost, or
\* taken from the session meanwhile, and over restarts of the probe - when its
\* host waits for its opens (OpenAlone): a new session's record starts at the
\* open, so an older open run anew lets newer requests run anew after it.
AtMostOnce == \A s \in Sessions, n \in Numbers : ran[s][n] < 2

\* The answer a host takes for a request is that request's own: never the
\* recorded answer of another request whose number is a turn away.
OwnAnswer ==
  \A s \in Sessions : ansQ[s] # <<>> =>
    LET a == Head(ansQ[s])
    IN  \A r \in Asked(s, a) : r.n = a.n /\ a.by = a.n /\ a.res # "malformed"

\* The record keeps what max_inflight promises: a request that was run, whose
\* answer fits an entry and whose session still holds its record, is answered
\* with its result when it is sent again.
RecordCoversInflight ==
  \A s \in Sessions : \A r \in waiting[s] :
    /\ last = s /\ ran[s][r.n] > 0 /\ r.op \notin Big /\ r.op \notin {"open", "force"}
    => \E k \in Slots : dedup[k].used /\ dedup[k].n = r.n /\ ~Old(k)

\* The record serves a resend: its answer is its own, and it is found - while it
\* spans less than a turn (RecordSpans).  An entry is judged old only as its corr
\* comes again, so one more than a turn behind looks new: a host that leaves many
\* numbers out can have it answer another request.
RecordServes == OwnAnswer /\ RecordCoversInflight

RecordSpans ==
  \A k, l \in Slots : dedup[k].used /\ dedup[l].used => dedup[k].n < dedup[l].n + Turn

\* The lock is taken from a session that does not end it only by force, by a
\* restart, or when its holder had no answer for a whole lease - long requests
\* and the clock's wrap included.
EndedOrForced == \E s \in Sessions :
  /\ reqQ[s] # <<>> /\ reqQ'[s] = Tail(reqQ[s])
  /\ \/ Head(reqQ[s]).op = "force"
     \/ Head(reqQ[s]).op = "end" /\ s = holder

LapseOnlyWhenQuiet ==
  [][ locked /\ ~(locked' /\ holder' = holder) =>
        quiet >= Lease \/ restarts' # restarts \/ EndedOrForced ]_vars

\* Answers from the record never keep a session alive: the lease starts again
\* only with a request that was run.
OnlyNewRequestsRenew ==
  [][ locked /\ locked' /\ holder' = holder /\ expires' # expires =>
        ran' # ran ]_vars

\* A session lives by its own new requests: while they come it stays, and
\* nothing else keeps it.
LeaseIsKept == LapseOnlyWhenQuiet /\ OnlyNewRequestsRenew

\* No session holds the probe for ever: it ends, it is taken over, or its lease
\* lapses - a host that only sends old requests again included.
NoSessionHoldsForEver ==
  \A s \in Sessions : (locked /\ holder = s) ~> ~(locked /\ holder = s)

\* The lock as the hosts see it.
Lock == INSTANCE SessionLock WITH
          lock <- IF locked THEN holder ELSE NoSession,
          made <- [f \in Fns |-> ({subscribed[f]} \cup {planned[f]}) \ {NoSession, Settings}]

\* Requests, resends, leases and restarts add up to SessionLock's steps: nothing
\* is made but by the holder, and no step hands a session what another made.
LockSteps == Lock!Init /\ [][Lock!Next]_Lock!vars
=============================================================================
