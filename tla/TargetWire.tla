----------------------------- MODULE TargetWire -----------------------------
(***************************************************************************)
(* A debug wire and what rides on it: the one connection of oep.wire.*     *)
(* (OepTarget: attach, scan, detach, the hold after a close, wire loss),   *)
(* the console stream opened on it (OepConsole), and the settings'         *)
(* pass-through, which reads the same console with no connection while no  *)
(* session is on its port (OepSettings::runPassthroughs).                  *)
(*                                                                         *)
(* They share the PHY, the pads and the numbers of resources, and meet in  *)
(* one loop(): the endpoint's requests, the console's poll, the settings'  *)
(* poll. A pad is what the last one to set it made of it.                  *)
(***************************************************************************)
EXTENDS Integers, FiniteSets

CONSTANTS
  Pins,         \* the channels
  Pairs,        \* pin_choice: the sets of channels the wire may take
  IdlePins,     \* bound: the channels that may get an output idle
  Passes,       \* bound: the pairs a pass-through item may name
  LostTime,     \* limits::kWireLostMs, in ticks
  LastNumber,   \* bound: the resource number after which all are used
  LiveRoom      \* ResourceNumbers::kLive

ASSUME WireAssumption ==
  /\ Pairs \subseteq SUBSET Pins /\ {} \notin Pairs /\ Pairs # {}
  /\ IdlePins \subseteq Pins /\ Passes \subseteq Pairs
  /\ LostTime \in Nat \ {0} /\ LastNumber \in Nat /\ LiveRoom \in Nat

NoPair == {}

VARIABLES
  wire,       \* the DebugPort, its PHY, the pin table, the numbers
  con,        \* the TargetConsoleStream and its driver
  through,    \* the pass-through's Port: on, console_tried
  item,       \* the settings: the pair a pass-through item names
  idling,     \* the settings: the channels with an output idle
  mayHold,    \* the settings: channel.{}.hold
  session,    \* the lock's session: none, on the pass-through's port (here), or not
  turn,       \* where loop() is: requests and then the console, or the settings
  answering   \* the pairs a debug module is on

wireVars == <<wire, con, through, item, idling, mayHold, session, turn, answering>>

Owners == {"none", "wire", "plan"}
Drives == {"free", "idle", "wire", "plan"}

WireInit ==
  /\ \E p \in Pairs :
       wire = [connected |-> FALSE, number |-> 0, resident |-> FALSE,
               holding |-> FALSE, at |-> p, attached |-> FALSE, unseen |-> FALSE,
               failing |-> FALSE, age |-> 0, after |-> LostTime, quiet |-> 0,
               owner |-> [c \in Pins |-> "none"], pad |-> [c \in Pins |-> "free"],
               next |-> 1, live |-> {}]
  /\ con = [open |-> FALSE, number |-> 0, of |-> 0, pass |-> FALSE,
            lost |-> FALSE, passLost |-> FALSE, mixed |-> FALSE]
  /\ through = [on |-> FALSE, tried |-> FALSE]
  /\ item \in Passes \cup {NoPair}
  /\ idling = {} /\ mayHold = TRUE
  /\ session = "none" /\ turn = "requests"
  /\ answering = {}

-----------------------------------------------------------------------------
(* The wire-loss clock (OepWireLoss.h): age since the first failure, and   *)
(* the time after the last reset's excuse (negative inside it). quiet is   *)
(* history: the ticks without an answer that no reset excuses.             *)

answered(w) == [w EXCEPT !.failing = FALSE, !.age = 0, !.quiet = 0]
excuseReset(w) == [w EXCEPT !.after = -LostTime, !.quiet = 0]
silent(w) == IF w.failing THEN w ELSE [w EXCEPT !.failing = TRUE, !.age = 0]

\* Mutant: a reset's excuse forgotten.
lostHasty(w) == w.failing /\ w.age >= LostTime
lost(w) == w.failing /\ w.age >= LostTime /\ w.after >= LostTime

(* An exchange: heard when a module answers it, or not.                    *)
Exchange(w, heard) == IF heard THEN answered(w) ELSE silent(w)
MayHear(w, heard) == heard => w.at \in answering

-----------------------------------------------------------------------------
(* The numbers of resources (ResourceNumbers)                              *)

CanTake(w) == w.next <= LastNumber /\ Cardinality(w.live) < LiveRoom
Closed(w, n) == [w EXCEPT !.live = @ \ {n}]

-----------------------------------------------------------------------------
(* The pads and the pin table                                              *)

Lines(w, p, how) == [c \in Pins |-> IF c \in p THEN how ELSE w.pad[c]]
Unowned(w) == [c \in Pins |-> IF w.owner[c] = "wire" THEN "none" ELSE w.owner[c]]

(* freeWire: the PHY lets its pair go, whoever owns it; a free channel of  *)
(* the pair with an idle set goes to it.                                   *)
freeWire(w) ==
  LET own == IF w.connected THEN w.owner ELSE Unowned(w)
      rests == {c \in w.at \cap idling : own[c] = "none"} IN
  [w EXCEPT !.attached = FALSE, !.owner = own,
            !.pad = [c \in Pins |-> IF c \in rests THEN "idle"
                                    ELSE IF c \in w.at THEN "free" ELSE @[c]]]

(* Ch32Dm::detach: it ends in park(), which drives the lines.              *)
detach(w) == [w EXCEPT !.attached = FALSE, !.pad = Lines(w, w.at, "wire")]
LinkUp(w) == [answered(w) EXCEPT !.attached = TRUE, !.pad = Lines(w, w.at, "wire")]

allows(w) == mayHold /\ w.at \cap idling = {}
pairHeld(w, p) == \E c \in p : w.owner[c] \notin {"none", "wire"}
pairFree(w, p) ==
  \A c \in p : w.owner[c] = "none" \/ (w.owner[c] = "wire" /\ w.connected /\ p = w.at)

MayUse(w, p) ==
  /\ w.connected \/ p \cap idling = {}
  /\ IF p = w.at THEN w.connected \/ pairFree(w, p) ELSE ~w.connected /\ pairFree(w, p)
usePair(w, p) ==
  IF p = w.at THEN w
  ELSE [w EXCEPT !.attached = FALSE, !.at = p, !.pad = Lines(w, w.at \cup p, "free")]

-----------------------------------------------------------------------------
(* A connection closes, a hold ends                                        *)

\* Mutant: the hold keeps the pins.
releaseConnectionKeeping(w, isLost) ==
  LET d == [Closed(detach(w), w.number) EXCEPT !.connected = FALSE, !.number = 0,
                                            !.unseen = TRUE] IN
  IF ~w.connected THEN w
  ELSE IF ~isLost /\ allows(d) THEN [d EXCEPT !.holding = TRUE]
  ELSE freeWire([d EXCEPT !.holding = FALSE])
releaseConnection(w, isLost) ==
  LET d == [Closed(detach(w), w.number) EXCEPT !.connected = FALSE, !.number = 0,
                                            !.unseen = TRUE] IN
  IF ~w.connected THEN w
  ELSE IF ~isLost /\ allows(d) THEN [d EXCEPT !.holding = TRUE, !.owner = Unowned(d)]
  ELSE freeWire([d EXCEPT !.holding = FALSE])

checkHold(w) ==
  LET over == [w EXCEPT !.holding = FALSE] IN
  IF ~w.holding THEN w
  ELSE IF w.connected \/ (\E c \in w.at : w.owner[c] # "none") THEN over
  ELSE IF allows(w) THEN w ELSE freeWire(over)

(* The hold ends when a scan or an attach comes, before it is looked at.   *)
Prelude == [checkHold(wire) EXCEPT !.holding = FALSE]

residentRelease(w) ==
  IF w.resident THEN freeWire(detach([w EXCEPT !.resident = FALSE])) ELSE w

-----------------------------------------------------------------------------
(* The console: s.w the wire, s.c the console                              *)

Here == [w |-> wire, c |-> con]
Become(s) == wire' = s.w /\ con' = s.c

closeStream(s) ==
  IF s.c.open
    THEN [w |-> Closed(s.w, s.c.number),
          c |-> [s.c EXCEPT !.open = FALSE, !.number = 0, !.of = 0, !.lost = FALSE]]
    ELSE s

(* DmConsole::poll: a read over the link, which is brought up again when   *)
(* it is down - on the pair the PHY is on.                                 *)
driverPoll(s, heard) ==
  LET w == IF s.w.attached THEN Exchange(s.w, heard)
           ELSE IF heard THEN LinkUp(s.w)
           ELSE [silent(s.w) EXCEPT !.pad = Lines(s.w, s.w.at, "free")]
      other == ~s.w.connected \/ s.c.of # s.w.number IN
  IF s.c.lost \/ ~(s.c.open \/ s.c.pass) THEN s
  ELSE [w |-> w, c |-> [s.c EXCEPT !.lost = ~heard /\ lost(w),
                                   !.mixed = @ \/ (heard /\ s.c.open /\ other)]]

passStop(c) == [c EXCEPT !.pass = FALSE, !.lost = FALSE, !.passLost = FALSE]

PollPass(s, heard) ==
  LET d == driverPoll(s, heard) IN
  IF d.c.lost THEN [d EXCEPT !.c = [passStop(d.c) EXCEPT !.passLost = TRUE]] ELSE d
PollStream(s, heard) ==
  LET d == driverPoll(s, heard)
      over == [d EXCEPT !.w = [releaseConnection(d.w, TRUE) EXCEPT !.unseen = FALSE]] IN
  IF ~s.c.open THEN s ELSE IF d.c.lost THEN closeStream(over) ELSE d

\* Mutant: a close the console does not look for.
consolePollBlind(s, heard) ==
  IF s.c.pass THEN PollPass(s, heard) ELSE PollStream(s, heard)
consolePoll(s, heard) ==
  LET seen == [s EXCEPT !.w.unseen = FALSE] IN
  IF s.c.pass THEN PollPass(s, heard)
  ELSE IF s.w.unseen THEN closeStream(seen)
  ELSE PollStream(s, heard)

-----------------------------------------------------------------------------
(* The pass-through                                                        *)

(* runPassthroughs' stop, and what a session's attach asks of it (yield).  *)
StopPass(s) == [w |-> residentRelease(s.w), c |-> passStop(s.c)]
Yielded(s) == IF s.w.resident /\ through.on THEN StopPass(s) ELSE s

PassAllowed ==
  /\ item # NoPair /\ session # "here" /\ ~wire.connected
  /\ \A c \in item : wire.owner[c] = "none"

(* residentAttach, then passStart; a failed one leaves the link released.  *)
residentAttach(w, heard) ==
  IF w.connected \/ w.resident \/ ~MayUse(w, item) THEN w
  ELSE IF heard THEN [LinkUp(usePair(w, item)) EXCEPT !.resident = TRUE]
  ELSE freeWire(detach(usePair(w, item)))
StartPass(s, heard) ==
  LET w == residentAttach(s.w, heard) IN
  IF w.resident /\ ~s.c.open /\ ~s.c.pass
    THEN [on |-> TRUE, w |-> w,
          c |-> [s.c EXCEPT !.pass = TRUE, !.lost = FALSE, !.passLost = FALSE]]
    ELSE [on |-> FALSE, w |-> residentRelease(w), c |-> s.c]

(* A pass-through just started, or going on: its console polled, and given *)
(* up when the line was lost.                                              *)
CarryPass(s, heard) ==
  LET p == consolePoll(s, heard) IN
  IF p.c.passLost THEN [on |-> FALSE, w |-> residentRelease(p.w), c |-> passStop(p.c)]
  ELSE [on |-> TRUE, w |-> p.w, c |-> p.c]

runPassthroughs(heardFirst, heard) ==
  LET tryNow == ~through.on /\ ~through.tried
      start == IF tryNow THEN StartPass(Here, heardFirst)
               ELSE [on |-> through.on, w |-> wire, c |-> con]
      s == [w |-> start.w, c |-> start.c]
      went == IF start.on THEN CarryPass(s, heard) ELSE start IN
  IF PassAllowed THEN [on |-> went.on, tried |-> TRUE, w |-> went.w, c |-> went.c]
  ELSE LET stopped == IF through.on THEN StopPass(Here) ELSE Here IN
       [on |-> FALSE, tried |-> FALSE, w |-> stopped.w, c |-> stopped.c]

(* Settings::poll: the pass-throughs, then the holds.                      *)
settingsPoll ==
  /\ turn = "settings" /\ turn' = "requests"
  /\ \E first, heard \in BOOLEAN :
       LET r == runPassthroughs(first, heard) IN
       /\ first => item \in answering
       /\ heard => r.w.at \in answering
       /\ wire' = checkHold(r.w) /\ con' = r.c
       /\ through' = [on |-> r.on, tried |-> r.tried]
  /\ UNCHANGED <<item, idling, mayHold, session, answering>>

pollConsole ==
  /\ turn = "requests" /\ turn' = "settings"
  /\ \E heard \in BOOLEAN :
       /\ MayHear(wire, heard)
       /\ Become(consolePoll(Here, heard))
  /\ UNCHANGED <<through, item, idling, mayHold, session, answering>>

-----------------------------------------------------------------------------
(* The requests. A session's only, but for the reads of a stream.          *)

Request == turn = "requests" /\ session # "none"
Same == UNCHANGED <<through, item, idling, mayHold, session, turn, answering>>

(* A scan or an attach whose form is refused: the hold has ended.          *)
refuseForm ==
  /\ Request
  /\ wire' = Prelude
  /\ UNCHANGED con /\ Same

(* A scan of one pair: found or not, the pair goes to its free state.      *)
scan(p) ==
  /\ Request
  /\ wire' = IF wire.connected \/ ~MayUse(Prelude, p) THEN Prelude
             ELSE freeWire(detach(usePair(Prelude, p)))
  /\ UNCHANGED con /\ Same

Unfit(w, p) == w.connected \/ pairHeld(w, p) \/ ~MayUse(w, p)

(* An attach refused with the link on its pair: the reset line owned, an   *)
(* idle clock or a ceiling the link cannot keep.                           *)
moved(w, p) == IF Unfit(w, p) THEN w ELSE usePair(w, p)

(* What an attach of pair p makes of the wire, once the pass-through gave  *)
(* way: with_reset pulls the reset line first.                             *)
attached(w, p, heard, with_reset) ==
  LET u == IF with_reset THEN excuseReset(usePair(w, p)) ELSE usePair(w, p)
      own == Unowned(u) IN
  IF Unfit(w, p) THEN w
  ELSE IF heard /\ CanTake(w)
         THEN [LinkUp(u) EXCEPT !.connected = TRUE, !.number = u.next, !.next = @ + 1,
                                !.live = @ \cup {u.next},
                                !.owner = [c \in Pins |-> IF c \in p THEN "wire" ELSE own[c]]]
         ELSE freeWire(detach(IF heard THEN answered(u) ELSE silent(u)))

(* The pass-through has given way also to an attach that asks what this    *)
(* wire has not (its method, its pair, its speed, its reset line).         *)
attach(p) ==
  /\ Request
  /\ LET s == Yielded([w |-> Prelude, c |-> con]) IN
       /\ \/ wire' \in {s.w, moved(s.w, p)}
          \/ \E heard, with_reset \in BOOLEAN :
               /\ heard => p \in answering
               /\ wire' = attached(s.w, p, heard, with_reset)
       /\ con' = s.c
       /\ through' = [through EXCEPT !.on = @ /\ ~wire.resident]
  /\ UNCHANGED <<item, idling, mayHold, session, turn, answering>>

Requested == checkHold(wire)

kOpDetach ==
  /\ Request /\ wire.connected
  /\ wire' = releaseConnection(Requested, FALSE)
  /\ UNCHANGED con /\ Same

(* A riscv-dm request: its exchanges answered, not answered, or such as    *)
(* leave the clock as it is; the loss is looked at after every one.        *)
dmRequest ==
  /\ Request /\ wire.connected
  /\ \E w \in {silent(wire), wire} \cup {answered(wire) : p \in answering \cap {wire.at}} :
       wire' = IF lost(w) THEN releaseConnection(w, TRUE) ELSE w
  /\ UNCHANGED con /\ Same

(* A block operation that could not put back what it used.                 *)
uncleanBlock ==
  /\ Request /\ wire.connected
  /\ wire' = releaseConnection(silent(wire), TRUE)
  /\ UNCHANGED con /\ Same

kOpReset ==
  /\ Request /\ wire.connected /\ wire.after >= 0
  /\ wire' = excuseReset(wire)
  /\ UNCHANGED con /\ Same

(* The console's requests                                                  *)

kOpOpen ==
  /\ Request /\ wire.connected /\ ~con.open
  /\ \E heard \in BOOLEAN :
       LET link == IF wire.attached \/ ~heard THEN wire ELSE LinkUp(wire)
           up == wire.attached \/ heard
           took == [link EXCEPT !.next = @ + 1, !.live = @ \cup {wire.next}, !.unseen = FALSE] IN
       /\ MayHear(wire, heard) /\ CanTake(wire)
       /\ wire' = IF up THEN took ELSE [wire EXCEPT !.next = @ + 1]
       /\ con' = IF up THEN [con EXCEPT !.open = TRUE, !.number = wire.next,
                                         !.of = wire.number, !.lost = FALSE] ELSE con
  /\ Same

(* read, marks, write on the open stream: the console polled first.        *)
streamOp ==
  /\ turn = "requests" /\ con.open
  /\ \E heard \in BOOLEAN :
       MayHear(wire, heard) /\ Become(consolePoll(Here, heard))
  /\ Same

kOpClose ==
  /\ Request /\ con.open
  /\ Become(closeStream(Here))
  /\ Same

(* The session ends, by itself or by a lapse: the stream, then the wire's. *)
sessionOver ==
  /\ turn = "requests" /\ session # "none" /\ session' = "none"
  /\ LET s == closeStream(Here) IN
     wire' = releaseConnection(s.w, FALSE) /\ con' = s.c
  /\ UNCHANGED <<through, item, idling, mayHold, turn, answering>>

sessionOpens ==
  /\ turn = "requests" /\ session = "none"
  /\ session' \in {"here", "there"}
  /\ UNCHANGED <<wire, con, through, item, idling, mayHold, turn, answering>>

-----------------------------------------------------------------------------
(* What else a session changes: a plan of a fixture that drives its        *)
(* channel (FixtureUart's TX), and the settings the wire reads.            *)

planTakes(c) ==
  /\ Request /\ wire.owner[c] = "none"
  /\ wire' = [wire EXCEPT !.owner[c] = "plan", !.pad[c] = "plan"]
  /\ UNCHANGED con /\ Same

Rest(c, idle) == IF c \in idle THEN "idle" ELSE "free"

planEnds(c) ==
  /\ Request /\ wire.owner[c] = "plan"
  /\ wire' = [wire EXCEPT !.owner[c] = "none", !.pad[c] = Rest(c, idling)]
  /\ UNCHANGED con /\ Same

idleItem(c) ==
  /\ Request
  /\ idling' \in {idling \cup {c}, idling \ {c}} \ {idling}
  /\ wire' = IF wire.owner[c] = "none" THEN [wire EXCEPT !.pad[c] = Rest(c, idling')] ELSE wire
  /\ UNCHANGED <<con, through, item, mayHold, session, turn, answering>>

setHold ==
  /\ Request /\ mayHold' = ~mayHold
  /\ UNCHANGED <<wire, con, through, item, idling, session, turn, answering>>

setPass ==
  /\ Request
  /\ item' \in (Passes \cup {NoPair}) \ {item}
  /\ UNCHANGED <<wire, con, through, idling, mayHold, session, turn, answering>>

(* The target comes, goes, or is plugged to another pair; time.            *)
plug ==
  /\ turn = "requests"
  /\ answering' \in {{}} \cup {{p} : p \in Pairs} /\ answering' # answering
  /\ UNCHANGED <<wire, con, through, item, idling, mayHold, session, turn>>

Upto(n) == IF n > LostTime THEN LostTime ELSE n
time ==
  /\ turn = "requests"
  /\ wire' = [wire EXCEPT !.age = IF wire.failing THEN Upto(@ + 1) ELSE 0,
                          !.after = Upto(@ + 1),
                          !.quiet = IF wire.after >= 0 THEN Upto(@ + 1) ELSE 0]
  /\ wire' # wire
  /\ UNCHANGED <<con, through, item, idling, mayHold, session, turn, answering>>

-----------------------------------------------------------------------------
wireRequests ==
  \/ refuseForm
  \/ \E p \in Pairs : scan(p) \/ attach(p)
  \/ kOpDetach \/ dmRequest \/ uncleanBlock \/ kOpReset
  \/ kOpOpen \/ streamOp \/ kOpClose
  \/ sessionOver \/ sessionOpens

Others ==
  \/ \E c \in Pins : planTakes(c) \/ planEnds(c)
  \/ \E c \in IdlePins : idleItem(c)
  \/ setHold \/ setPass \/ plug \/ time

WireNext == wireRequests \/ Others \/ pollConsole \/ settingsPoll

WireSpec == WireInit /\ [][WireNext]_wireVars

-----------------------------------------------------------------------------
(* The numbers live are the connection's and the stream's: none leaks in   *)
(* the probe's table of kLive, none is freed while its resource is there.  *)
NumbersAreHeld ==
  wire.live = (IF wire.connected THEN {wire.number} ELSE {})
              \cup (IF con.open THEN {con.number} ELSE {})

(* A live connection owns its pair and nothing else, and its lines are as  *)
(* the wire drives them; no pass-through rides beside it.                  *)
LiveHoldsItsPins ==
  /\ \A c \in Pins : wire.owner[c] = "wire" <=> wire.connected /\ c \in wire.at
  /\ wire.connected => \A c \in wire.at : wire.pad[c] = "wire"
  /\ wire.connected => ~wire.resident /\ ~con.pass

(* Both: what a connection has, it has while it lives and no longer.       *)
NothingLeaks == NumbersAreHeld /\ LiveHoldsItsPins

(* A stream takes what the target says on its own connection only, though  *)
(* a close is seen at the console's next poll.                             *)
StreamIsItsConnections == ~con.mixed

(* A connection closes as lost after LostTime without an answer, a reset's *)
(* time not counted - or after a block operation that could not clean up.  *)
LostMeansSilent ==
  [][wire.connected /\ ~wire'.connected /\ ~wire'.holding /\ allows(wire) =>
       wire.quiet >= LostTime \/ uncleanBlock]_wireVars

(* Two interfaces never drive the same channel (OepPinTable.h): a pad that *)
(* a plan's fixture drives stays its own while the plan holds the channel. *)
NeverTwoDrive ==
  [][\A c \in Pins :
       wire.owner[c] = "plan" /\ wire.pad[c] = "plan" /\ wire'.owner[c] = "plan"
         => wire'.pad[c] = "plan"]_wireVars

=============================================================================
