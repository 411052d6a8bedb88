----------------------------- MODULE PortSpeed -----------------------------
(***************************************************************************)
(* port_speed: a session raises the baud of a UART bridge, tries it,       *)
(* commits it, and the probe goes back by itself (Endpoint::portSpeed,     *)
(* speedApply, speedRevert, speedFall, speedPoll, sessionEnded).           *)
(*                                                                         *)
(* Ports 1 .. N are served in their order (at = p), then come the timers   *)
(* (at = N + 1), the push, whose lapse() may end the session (N + 2), and  *)
(* the timers again (N + 3). A frame arrives on a port over several steps: *)
(* it begins on the line, the reader takes its first bytes at a poll, it   *)
(* is whole, or it stops and is raw bytes after the gap. A host may send   *)
(* at another baud than the port's: such a frame is noise.                 *)
(***************************************************************************)
EXTENDS Integers, Sequences

CONSTANTS
  N,            \* the ports are 1 .. N
  Bridges,      \* those that are UART bridges
  Base,         \* speed_base_
  Bauds,        \* the rates a host tries, which this UART makes
  Verify,       \* verify_ms, in ticks
  Idle,         \* port_speed_idle_ms, in ticks
  Gap,          \* SerialReader::kGapMs, in ticks
  Room,         \* the answers a port's stream takes
  MaxTerms      \* bound: sessions

Ports == 1 .. N
Requests == {"open", "end", "try", "commit", "revert", "other"}
Ops == Requests \cup {"record", "dropped", "noise"}

ASSUME SpeedAssumption ==
  /\ N \in Nat \ {0} /\ Bridges \subseteq Ports
  /\ Verify \in Nat \ {0} /\ Idle \in Nat \ {0} /\ Gap \in Nat \ {0}
  /\ Room \in Nat \ {0} /\ MaxTerms \in Nat

VARIABLES
  state,        \* speed_state_: "base", "try" or "committed"
  port,         \* speed_port_ (0: none)
  asked,        \* speed_asked_, whose rate the UART makes exactly
  fallback,     \* speed_fallback_: phase 3
  reverts,      \* speed_pending_ = kSpeedRevert, between two requests
  left,         \* until speed_until_
  idle,         \* since speed_good_ms_
  locked,       \* locked_
  baud,         \* what each port's UART runs at
  line,         \* the frame on each port's line, its bytes not all served yet
  tx,           \* each port's answers not out yet, by the rate it had then
  at,           \* where the poll is
  term,         \* ghost: sessions so far
  raisedBy      \* ghost: the session that asked for the speed there is (0: none)

speedVars == <<state, port, asked, fallback, reverts, left, idle, baud, raisedBy>>
vars == <<speedVars, locked, line, tx, at, term>>

NoFrame == [op |-> "none", asks |-> Base, term |-> 0,
            read |-> FALSE, whole |-> FALSE, age |-> 0]
Frames == [op : Ops \cup {"none"}, asks : Bauds \cup {Base}, term : 0 .. MaxTerms,
           read : BOOLEAN, whole : BOOLEAN, age : 0 .. Gap]

TypeOK ==
  /\ state \in {"base", "try", "committed"}
  /\ port \in 0 .. N /\ asked \in Bauds \cup {Base}
  /\ fallback \in BOOLEAN /\ reverts \in BOOLEAN /\ locked \in BOOLEAN
  /\ left \in 0 .. Verify /\ idle \in 0 .. Idle
  /\ baud \in [Ports -> Bauds \cup {Base}]
  /\ line \in [Ports -> Frames]
  /\ tx \in [Ports -> Seq(Bauds \cup {Base})]
  /\ at \in 1 .. N + 3
  /\ term \in 0 .. MaxTerms /\ raisedBy \in 0 .. MaxTerms

Init ==
  /\ state = "base" /\ port = 0 /\ asked = Base
  /\ fallback = FALSE /\ reverts = FALSE /\ left = 0 /\ idle = 0
  /\ locked = FALSE /\ term = 0 /\ raisedBy = 0
  /\ baud = [p \in Ports |-> Base]
  /\ line = [p \in Ports |-> NoFrame]
  /\ tx = [p \in Ports |-> <<>>]
  /\ at = 1

-----------------------------------------------------------------------------
(* The line.                                                               *)

\* A frame begins; a request is of the session there is or of none. On a
\* bridge it comes in pieces, and at another rate than the port's it is noise.
Begin(p) ==
  /\ line[p] = NoFrame
  /\ \E op \in Ops, b \in Bauds \cup {Base} :
       /\ op \notin {"try", "commit"} => b = Base
       /\ op = "noise" => p \in Bridges
       /\ line' = [line EXCEPT ![p] =
            [NoFrame EXCEPT !.op = op, !.asks = b, !.whole = p \notin Bridges,
               !.term = IF op \in {"end", "try", "commit", "revert"} THEN term ELSE 0]]
  /\ UNCHANGED <<speedVars, locked, tx, at, term>>

\* Its last byte: within the gap, or it never comes.
Whole(p) ==
  /\ line[p] # NoFrame /\ ~line[p].whole /\ line[p].age < Gap
  /\ line' = [line EXCEPT ![p].whole = TRUE]
  /\ UNCHANGED <<speedVars, locked, tx, at, term>>

\* An answer leaves, at the rate the UART runs at.
Leave(p) ==
  /\ tx[p] # <<>>
  /\ tx' = [tx EXCEPT ![p] = Tail(@)]
  /\ UNCHANGED <<speedVars, locked, line, at, term>>

Tick ==
  /\ left' = IF state = "try" /\ left > 0 THEN left - 1 ELSE left
  /\ idle' = IF state # "base" /\ idle < Idle THEN idle + 1 ELSE idle
  /\ line' = [p \in Ports |->
       IF line[p] # NoFrame /\ ~line[p].whole /\ line[p].age < Gap
       THEN [line[p] EXCEPT !.age = @ + 1] ELSE line[p]]
  /\ UNCHANGED <<state, port, asked, fallback, reverts, locked, baud, tx, at,
                 term, raisedBy>>

\* SerialReader::receiving: a frame's first bytes are in the reader.
receiving(p) == line[p].read

-----------------------------------------------------------------------------
(* The speed. Each operator says what becomes of it from l, the frames     *)
(* still to come, and t, the answers not out.                              *)

\* The UART runs at b: a frame coming in meanwhile is noise.
Runs(q, b, l, t) ==
  /\ baud' = [baud EXCEPT ![q] = b]
  /\ line' = IF l[q] = NoFrame \/ l[q].whole THEN l
             ELSE [l EXCEPT ![q].op = "noise", ![q].asks = Base, ![q].term = 0]
  /\ tx' = t

\* Mutant: the rate changes under the answer.
FlushedNot(q, t) == t

\* Stream::flush: what waits is out before the rate changes.
Flushed(q, t) == [t EXCEPT ![q] = <<>>]

\* speedRevert, when the state is s.
speedRevert(s, l, t) ==
  /\ fallback' = FALSE
  /\ IF s = "base"
     THEN UNCHANGED <<port, asked, baud>> /\ state' = s /\ line' = l /\ tx' = t
     ELSE /\ state' = "base" /\ port' = 0 /\ asked' = Base
          /\ Runs(port, Base, l, Flushed(port, t))

\* The ghost: none once the ports are at the base.
Raised == raisedBy' = IF state' = "base" THEN 0 ELSE raisedBy

Stays(s, l, t) ==
  /\ state' = s /\ line' = l /\ tx' = t
  /\ UNCHANGED <<port, asked, fallback, baud>>

\* speedFall: a return condition, put off while a frame is being received.
speedFall ==
  IF receiving(port)
  THEN fallback' = TRUE /\ UNCHANGED <<state, port, asked, baud, line, tx>>
  ELSE speedRevert(state, line, tx)

\* Mutant: a try its host does not confirm stays.
TimedOutIdle == state = "committed" /\ idle >= Idle

\* No commit in time, or nothing good for port_speed_idle_ms.
TimedOut ==
  \/ state = "try" /\ left = 0
  \/ state = "committed" /\ idle >= Idle

\* speedPoll: what the session's end asked for, phase 3, the two limits.
speedPoll ==
  /\ at \in {N + 1, N + 3}
  /\ \/ /\ reverts
        /\ reverts' = FALSE
        /\ speedRevert(state, line, tx)
     \/ /\ ~reverts /\ fallback
        /\ IF receiving(port) THEN Stays(state, line, tx)
                              ELSE speedRevert(state, line, tx)
        /\ UNCHANGED reverts
     \/ /\ ~reverts /\ ~fallback
        /\ IF TimedOut THEN speedFall ELSE Stays(state, line, tx)
        /\ UNCHANGED reverts
  /\ at' = IF at = N + 1 THEN N + 2 ELSE 1
  /\ Raised
  /\ UNCHANGED <<left, idle, locked, term>>

-----------------------------------------------------------------------------
(* Requests.                                                               *)

\* Mutant: only a lapse takes the speed back, not an end or a force.
RevertAskedByLapse(ends, lapses) == reverts \/ (lapses /\ state # "base")

\* sessionEnded: back after the answer that ended it, or at the next timers.
RevertAsked(ends, lapses) == reverts \/ ((ends \/ lapses) /\ state # "base")

\* Endpoint::lapse: the lease is out, or is not.
lapse ==
  \/ UNCHANGED <<locked, reverts>>
  \/ /\ locked
     /\ locked' = FALSE
     /\ reverts' = RevertAsked(FALSE, TRUE)

\* The holder's steps, and whether each fits the port's state.
Tries(p, f) == p \in Bridges /\ ~fallback /\ f.op = "try" /\ state = "base"
Commits(p, f) ==
  /\ p \in Bridges /\ ~fallback /\ f.op = "commit"
  /\ state = "try" /\ port = p /\ f.asks = asked
Goes(p, f) ==
  /\ p \in Bridges /\ ~fallback /\ f.op = "revert"
  /\ state # "base" /\ port = p

\* answered: the switch or the revert its request asked for (speedApply), and
\* phase 3's end with the frame's answer. d is the state with the request
\* served, l and t the frames and answers then.
answered(p, f, mine, back, d, l, t) ==
  /\ reverts' = FALSE
  /\ IF mine /\ Tries(p, f)
     THEN /\ state' = "try" /\ port' = p /\ asked' = f.asks
          /\ left' = Verify /\ idle' = 0
          /\ raisedBy' = term
          /\ Runs(p, f.asks, l, Flushed(p, t))
          /\ UNCHANGED fallback
     ELSE /\ IF back \/ (mine /\ Goes(p, f)) \/ (fallback /\ p = port)
             THEN speedRevert(d, l, t) ELSE Stays(d, l, t)
          /\ Raised /\ UNCHANGED left
          /\ idle' = IF d = "committed" \/ (d = "try" /\ p = port) THEN 0 ELSE idle

\* handleMessage: a lapse first; an open (of a free lock, or by force) or an
\* end of the session; the steps. An open past the bound is refused.
handleMessage(p) ==
  LET f == line[p]
      l == [line EXCEPT ![p] = NoFrame]
      t == [tx EXCEPT ![p] = Append(@, baud[p])]
  IN  /\ at = p /\ f.whole /\ f.op \in Requests
      /\ Len(tx[p]) < Room
      /\ \E lapses \in {FALSE, locked} :
           LET held == locked /\ ~lapses
               mine == held /\ f.term = term
               opens == f.op = "open" /\ term < MaxTerms
               ends == held /\ (opens \/ (f.op = "end" /\ mine))
               d == IF mine /\ Commits(p, f) THEN "committed" ELSE state
           IN  /\ term' = IF opens THEN term + 1 ELSE term
               /\ locked' = (opens \/ (held /\ ~ends))
               /\ answered(p, f, mine, RevertAsked(ends, lapses), d, l, t)
      /\ UNCHANGED at

\* A resend, answered from the record, or a refusal of the header: a lapse,
\* and no more.
fromRecord(p) ==
  /\ at = p /\ line[p].whole /\ line[p].op = "record"
  /\ Len(tx[p]) < Room
  /\ lapse
  /\ tx' = [tx EXCEPT ![p] = Append(@, baud[p])]
  /\ line' = [line EXCEPT ![p] = NoFrame]
  /\ idle' = IF state # "base" /\ port = p THEN 0 ELSE idle
  /\ UNCHANGED <<state, port, asked, fallback, left, baud, at, term, raisedBy>>

\* Too short for a header, or of another role: no answer, not even a lapse.
dropped(p) ==
  /\ at = p /\ line[p].whole /\ line[p].op = "dropped"
  /\ line' = [line EXCEPT ![p] = NoFrame]
  /\ idle' = IF state # "base" /\ port = p THEN 0 ELSE idle
  /\ UNCHANGED <<state, port, asked, fallback, reverts, left, baud, raisedBy,
                 locked, tx, at, term>>

\* Noise: raw bytes once it ends or stops.
spill(p) ==
  /\ at = p /\ line[p] # NoFrame
  /\ \/ line[p].whole /\ line[p].op = "noise"
     \/ ~line[p].whole /\ line[p].age = Gap
  /\ line' = [line EXCEPT ![p] = NoFrame]
  /\ UNCHANGED <<speedVars, locked, tx, at, term>>

\* Nothing whole: the reader has what has come, the next port is served.
pass(p) ==
  /\ at = p
  /\ line[p] # NoFrame => ~line[p].whole /\ line[p].age < Gap
  /\ line' = [line EXCEPT ![p].read = (line[p] # NoFrame)]
  /\ at' = at + 1
  /\ UNCHANGED <<speedVars, locked, tx, term>>

\* push(): its lapse() may find the lease out.
push ==
  /\ at = N + 2 /\ at' = N + 3
  /\ lapse
  /\ UNCHANGED <<state, port, asked, fallback, left, idle, baud, line, tx, term,
                 raisedBy>>

Serve(p) == handleMessage(p) \/ fromRecord(p) \/ dropped(p) \/ spill(p) \/ pass(p)
Poll == speedPoll \/ push \/ \E p \in Ports : Serve(p)

Next == Poll \/ Tick \/ \E p \in Ports : Begin(p) \/ Whole(p) \/ Leave(p)

\* loop() polls, time passes, a stream empties (a UART by itself).
Fairness == WF_vars(Poll) /\ WF_vars(Tick) /\ \A p \in Ports : WF_vars(Leave(p))

Spec == Init /\ [][Next]_vars
FairSpec == Spec /\ Fairness

-----------------------------------------------------------------------------
(* Safety                                                                  *)

\* What the endpoint says the ports run at is what their UARTs run at, and a
\* raised port is the session's that raised it, or its end has asked for the
\* revert (sessionEnded). Until then requests may still be answered at the
\* raised rate: a resend's answer and a refusal of the header leave it asked
\* for, an open's own goes out before it. Once the poll's timers have run, at
\* the latest, the port is back: at the push no revert is left to come.
RaisedBySession ==
  /\ \A p \in Ports : baud[p] = IF state # "base" /\ port = p THEN asked ELSE Base
  /\ state # "base" => (locked /\ raisedBy = term) \/ (reverts /\ at # N + 2)

\* An answer leaves at the rate its port had when it was written, whichever
\* port's request, timer or lapse changed the rate (the flush before it).
LeavesAtItsSpeed == \A p \in Ports : \A i \in DOMAIN tx[p] : tx[p][i] = baud[p]

-----------------------------------------------------------------------------
(* Liveness                                                                *)

\* poll() serves a port until nothing waits there: no host keeps one busy for
\* good, so that the timers get their turn.
PollsReturn == []<>(at = N + 2)

\* The host sends no more on port p.
Silent(p) == <>[][~Begin(p)]_vars

\* A try its host does not commit ends, whatever happens on other ports.
TryEnds ==
  PollsReturn =>
    \A p \in Bridges : Silent(p) => []<>~(state = "try" /\ port = p)
=============================================================================
