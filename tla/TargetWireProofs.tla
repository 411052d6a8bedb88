--------------------------- MODULE TargetWireProofs ---------------------------
(***************************************************************************)
(* The debug wire for every set of channels, every choice of pairs, every  *)
(* loss time and every table of numbers.  A state is the wire's record and *)
(* the console's; what each operator makes of them is a lemma of its own,  *)
(* and the steps are put together from those.                              *)
(***************************************************************************)
EXTENDS TargetWire, TLAPS

WireFields ==
  {"connected", "number", "resident", "holding", "at", "attached", "unseen",
   "failing", "age", "after", "quiet", "owner", "pad", "next", "live"}
ConFields == {"open", "number", "of", "pass", "lost", "passLost", "mixed"}

Shaped(w) ==
  /\ DOMAIN w = WireFields /\ DOMAIN w.owner = Pins /\ DOMAIN w.pad = Pins
  /\ w.at \subseteq Pins /\ w.number \in Nat /\ w.next \in Nat

(* While the target is failing, one of the two ages of the wire-loss clock *)
(* is covered by time without an answer.                                   *)
Timed(w) ==
  /\ w.age \in Int /\ w.after \in Int /\ w.quiet \in Nat
  /\ w.failing => w.age <= w.quiet \/ w.after <= w.quiet

Owned(w) == \A c \in Pins : w.owner[c] = "wire" <=> w.connected /\ c \in w.at
Driven(w) == w.connected => w.attached /\ \A c \in w.at : w.pad[c] = "wire"

Sound(w) ==
  /\ Shaped(w) /\ Timed(w) /\ Owned(w) /\ Driven(w)
  /\ w.connected => ~w.resident /\ w.number < w.next

SoundCon(c) == DOMAIN c = ConFields /\ c.number \in Nat /\ ~c.lost /\ ~c.mixed

(* The numbers, the console's stream and its pass-through, beside the wire. *)
Counted(w, c) ==
  w.live = (IF w.connected THEN {w.number} ELSE {}) \cup (IF c.open THEN {c.number} ELSE {})
Apart(w, c) == c.open => c.number < w.next /\ (w.connected => c.number # w.number)
Rides(w, c) == /\ c.open => ~w.resident /\ ~c.pass
               /\ c.pass => w.resident
Knows(w, c) == c.open /\ ~w.unseen => w.connected /\ c.of = w.number
Fits(w, c) == Counted(w, c) /\ Apart(w, c) /\ Rides(w, c) /\ Knows(w, c)

Well(w, c) == Sound(w) /\ SoundCon(c) /\ Fits(w, c)

IInv ==
  /\ Well(wire, con)
  /\ DOMAIN through = {"on", "tried"} /\ (through.on <=> wire.resident)
  /\ item \in Passes \cup {NoPair}

(* What Fits reads of the wire.                                            *)
Ids(v, w) ==
  /\ v.connected = w.connected /\ v.number = w.number /\ v.resident = w.resident
  /\ v.unseen = w.unseen /\ v.next = w.next /\ v.live = w.live
Pads(v, w) ==
  /\ v.at = w.at /\ v.attached = w.attached /\ v.holding = w.holding
  /\ v.owner = w.owner /\ v.pad = w.pad

-----------------------------------------------------------------------------
(* The wire-loss clock                                                     *)

(* An exchange, and a reset, touch the clock alone.                        *)
LEMMA ClockOnly ==
  ASSUME NEW w, Sound(w), LostTime \in Nat
  PROVE  /\ Sound(answered(w)) /\ Ids(answered(w), w) /\ Pads(answered(w), w)
         /\ Sound(silent(w)) /\ Ids(silent(w), w) /\ Pads(silent(w), w)
         /\ Sound(excuseReset(w)) /\ Ids(excuseReset(w), w) /\ Pads(excuseReset(w), w)
         /\ silent(w).quiet = w.quiet
<1> USE DEF Sound, Shaped, WireFields
<1>1. Sound(answered(w)) /\ Ids(answered(w), w) /\ Pads(answered(w), w)
  BY DEF answered, Ids, Pads, Timed, Owned, Driven
<1>2. Sound(excuseReset(w)) /\ Ids(excuseReset(w), w) /\ Pads(excuseReset(w), w)
  BY DEF excuseReset, Ids, Pads, Timed, Owned, Driven
<1>3. Sound(silent(w)) /\ Ids(silent(w), w) /\ Pads(silent(w), w) /\ silent(w).quiet = w.quiet
  BY DEF silent, Ids, Pads, Timed, Owned, Driven
<1> QED
  BY <1>1, <1>2, <1>3

(* Lost is what the clock says, and only after that long without an answer. *)
LEMMA LostIsQuiet ==
  ASSUME NEW w, Sound(w), LostTime \in Nat \ {0}
  PROVE  /\ lost(w) => w.quiet >= LostTime
         /\ lost(silent(w)) => lost(w)
<1>1. lost(w) => w.quiet >= LostTime
  BY DEF Sound, Timed, lost
<1>2. lost(silent(w)) => lost(w)
  BY DEF Sound, Shaped, WireFields, lost, silent
<1> QED
  BY <1>1, <1>2

(* Nothing answered is nothing lost.                                       *)
LEMMA AnsweredIsNotLost ==
  ASSUME NEW w, Sound(w)
  PROVE  ~lost(answered(w))
BY DEF Sound, Shaped, WireFields, lost, answered

-----------------------------------------------------------------------------
(* The pads of a wire with no connection                                   *)

(* What a wire without a connection has to have.                           *)
LEMMA SoundOff ==
  ASSUME NEW v, Shaped(v), Timed(v), ~v.connected, \A c \in Pins : v.owner[c] # "wire"
  PROVE  Sound(v)
BY DEF Sound, Owned, Driven

(* What the wire gives back, nothing of it is the wire's.                  *)
LEMMA UnownedIs ==
  ASSUME NEW w
  PROVE  DOMAIN Unowned(w) = Pins /\ \A c \in Pins : Unowned(w)[c] # "wire"
BY DEF Unowned

(* The pins of a wire without a connection can be given back.              *)
LEMMA FreeOff ==
  ASSUME NEW w, Shaped(w), Timed(w), ~w.connected
  PROVE  Sound(freeWire(w)) /\ Ids(freeWire(w), w)
<1>1. Ids(freeWire(w), w) /\ Shaped(freeWire(w))
  BY UnownedIs DEF freeWire, Ids, Shaped, WireFields
<1>2. Timed(freeWire(w))
  BY DEF freeWire, Shaped, WireFields, Timed
<1>3. freeWire(w).owner = Unowned(w)
  BY DEF freeWire, Shaped, WireFields
<1> QED
  BY <1>1, <1>2, <1>3, UnownedIs, SoundOff DEF Ids

(* Detaching touches the lines, not who holds the pins.                    *)
LEMMA DetachShape ==
  ASSUME NEW w, Shaped(w), Timed(w)
  PROVE  /\ Shaped(detach(w)) /\ Timed(detach(w)) /\ Ids(detach(w), w)
         /\ detach(w).owner = w.owner /\ detach(w).at = w.at /\ detach(w).holding = w.holding
BY DEF detach, Lines, Shaped, WireFields, Timed, Ids

(* Detached, a wire without a connection is as sound as it was.            *)
LEMMA DetachOff ==
  ASSUME NEW w, Sound(w), ~w.connected
  PROVE  Sound(detach(w)) /\ Ids(detach(w), w)
BY DetachShape, SoundOff DEF Sound, Owned, Ids

(* Another pair can be taken where there is no connection.                 *)
LEMMA UseOff ==
  ASSUME NEW w, Sound(w), ~w.connected, NEW p \in Pairs
  PROVE  Sound(usePair(w, p)) /\ Ids(usePair(w, p), w) /\ usePair(w, p).at = p
<1>1. CASE p = w.at
  BY <1>1 DEF usePair, Ids
<1>2. CASE p # w.at
  <2>1. Shaped(usePair(w, p)) /\ Ids(usePair(w, p), w)
    BY <1>2, WireAssumption DEF usePair, Lines, Shaped, WireFields, Sound, Ids
  <2>2. Timed(usePair(w, p)) /\ usePair(w, p).owner = w.owner /\ usePair(w, p).at = p
    BY <1>2 DEF usePair, Shaped, WireFields, Sound, Timed
  <2> QED
    BY <2>1, <2>2, SoundOff DEF Sound, Owned, Ids
<1> QED
  BY <1>1, <1>2

(* A link that came up is an answer, and drives its pair's lines.          *)
LEMMA LinkSound ==
  ASSUME NEW w, Sound(w)
  PROVE  Sound(LinkUp(w)) /\ Ids(LinkUp(w), w) /\ LinkUp(w).at = w.at /\ LinkUp(w).holding = w.holding
<1> DEFINE a == answered(w)
<1>1. Shaped(a) /\ Timed(a) /\ Owned(a) /\ Ids(a, w) /\ a.at = w.at /\ a.holding = w.holding
      /\ (a.connected => ~a.resident /\ a.number < a.next)
  BY DEF answered, Ids, Timed, Owned, Sound, Shaped, WireFields
<1>2. LinkUp(w) = [a EXCEPT !.attached = TRUE, !.pad = Lines(w, w.at, "wire")]
  BY DEF LinkUp
<1> HIDE DEF a
<1>3. Shaped(LinkUp(w)) /\ Ids(LinkUp(w), w) /\ LinkUp(w).at = w.at /\ LinkUp(w).holding = w.holding
  BY <1>1, <1>2 DEF Lines, Shaped, WireFields, Ids
<1>4. Timed(LinkUp(w)) /\ Owned(LinkUp(w))
  BY <1>1, <1>2 DEF Lines, Shaped, WireFields, Timed, Owned
<1>5. Driven(LinkUp(w))
  BY <1>1, <1>2 DEF Lines, Shaped, WireFields, Driven
<1>6. LinkUp(w).connected => ~LinkUp(w).resident /\ LinkUp(w).number < LinkUp(w).next
  BY <1>1, <1>3 DEF Ids
<1> QED
  BY <1>3, <1>4, <1>5, <1>6 DEF Sound

(* A record with another value in a field that Sound does not read.        *)
LEMMA SetHolding ==
  ASSUME NEW w, Sound(w), NEW b
  PROVE  /\ Sound([w EXCEPT !.holding = b]) /\ Ids([w EXCEPT !.holding = b], w)
         /\ [w EXCEPT !.holding = b].holding = b /\ [w EXCEPT !.holding = b].at = w.at
<1> DEFINE v == [w EXCEPT !.holding = b]
<1>1. Shaped(v) /\ Ids(v, w) /\ Timed(v) /\ v.holding = b
      /\ v.at = w.at /\ v.attached = w.attached /\ v.owner = w.owner /\ v.pad = w.pad
  BY DEF Sound, Shaped, WireFields, Ids, Timed
<1> HIDE DEF v
<1>2. Sound(v)
  BY <1>1 DEF Sound, Owned, Driven, Ids
<1> QED
  BY <1>1, <1>2 DEF v

(* Whether the console has seen the connection go is not the wire's.       *)
LEMMA SetUnseen ==
  ASSUME NEW w, Sound(w), NEW b
  PROVE  LET v == [w EXCEPT !.unseen = b] IN
         /\ Sound(v) /\ v.unseen = b
         /\ v.connected = w.connected /\ v.number = w.number /\ v.resident = w.resident
         /\ v.next = w.next /\ v.live = w.live /\ v.holding = w.holding
<1> DEFINE v == [w EXCEPT !.unseen = b]
<1>1. Shaped(v) /\ Timed(v) /\ v.unseen = b
  BY DEF Sound, Shaped, WireFields, Timed
<1>2. /\ v.connected = w.connected /\ v.number = w.number /\ v.resident = w.resident
      /\ v.next = w.next /\ v.live = w.live /\ v.holding = w.holding
      /\ v.at = w.at /\ v.attached = w.attached /\ v.owner = w.owner /\ v.pad = w.pad
  BY DEF Sound, Shaped, WireFields
<1> HIDE DEF v
<1>3. Sound(v)
  BY <1>1, <1>2 DEF Sound, Owned, Driven
<1> QED
  BY <1>1, <1>2, <1>3 DEF v

(* A number closed leaves the live ones, and nothing else changes.         *)
LEMMA SetClosed ==
  ASSUME NEW w, Sound(w), NEW n
  PROVE  LET v == Closed(w, n) IN
         /\ Sound(v) /\ v.live = w.live \ {n} /\ v.unseen = w.unseen
         /\ v.connected = w.connected /\ v.number = w.number /\ v.resident = w.resident
         /\ v.next = w.next /\ v.holding = w.holding
         /\ v.quiet = w.quiet /\ v.at = w.at
<1> DEFINE v == Closed(w, n)
<1>1. Shaped(v) /\ Timed(v) /\ v.live = w.live \ {n} /\ v.quiet = w.quiet
  BY DEF Sound, Shaped, WireFields, Timed, Closed
<1>2. /\ v.connected = w.connected /\ v.number = w.number /\ v.resident = w.resident
      /\ v.next = w.next /\ v.unseen = w.unseen /\ v.holding = w.holding
      /\ v.at = w.at /\ v.attached = w.attached /\ v.owner = w.owner /\ v.pad = w.pad
  BY DEF Sound, Shaped, WireFields, Closed
<1> HIDE DEF v
<1>3. Sound(v)
  BY <1>1, <1>2 DEF Sound, Owned, Driven
<1> QED
  BY <1>1, <1>2, <1>3 DEF v

-----------------------------------------------------------------------------
(* Connections and holds                                                   *)

(* A connection closed: nothing of the pair is the wire's any more.        *)
LEMMA Released ==
  ASSUME NEW w, Sound(w), NEW isLost \in BOOLEAN
  PROVE  LET v == releaseConnection(w, isLost) IN
         /\ Sound(v) /\ ~v.connected
         /\ ~w.connected => v = w
         /\ w.connected => /\ v.unseen /\ v.live = w.live \ {w.number} /\ v.next = w.next
                           /\ v.resident = w.resident /\ (allows(w) /\ ~isLost => v.holding)
<1> DEFINE v == releaseConnection(w, isLost)
<1>1. CASE ~w.connected
  BY <1>1 DEF releaseConnection
<1>2. CASE w.connected
  <2> DEFINE e == detach(w)
             f == Closed(e, w.number)
             d == [f EXCEPT !.connected = FALSE, !.number = 0, !.unseen = TRUE]
  <2>1. Shaped(e) /\ Timed(e) /\ Ids(e, w) /\ e.owner = w.owner /\ e.at = w.at
    BY DetachShape DEF Sound
  <2> HIDE DEF e
  <2>2. /\ Shaped(f) /\ Timed(f) /\ f.owner = w.owner /\ f.at = w.at
        /\ f.live = w.live \ {w.number} /\ f.next = w.next /\ f.resident = w.resident
    BY <2>1 DEF Closed, Shaped, WireFields, Timed, Ids
  <2> HIDE DEF f
  <2>3. /\ Shaped(d) /\ Timed(d) /\ ~d.connected /\ d.unseen /\ d.at = w.at /\ d.owner = w.owner
        /\ d.live = w.live \ {w.number} /\ d.next = w.next /\ d.resident = w.resident
    BY <2>2 DEF Shaped, WireFields, Timed
  <2>4. v = IF ~isLost /\ allows(d) THEN [d EXCEPT !.holding = TRUE, !.owner = Unowned(d)]
            ELSE freeWire([d EXCEPT !.holding = FALSE])
    BY <1>2 DEF releaseConnection, e, f
  <2> HIDE DEF d, v
  <2>5. allows(d) <=> allows(w)
    BY <2>3 DEF allows
  <2>6. CASE ~isLost /\ allows(d)
    <3> DEFINE h == [d EXCEPT !.holding = TRUE, !.owner = Unowned(d)]
    <3>1. v = h
      BY <2>4, <2>6
    <3>2. Shaped(h) /\ h.owner = Unowned(d) /\ h.holding
          /\ Ids(h, d)
      BY <2>3, UnownedIs DEF Shaped, WireFields, Ids
    <3>3. Timed(h)
      BY <2>3 DEF Shaped, WireFields, Timed
    <3> HIDE DEF h
    <3>4. Sound(h)
      BY <2>3, <3>2, <3>3, UnownedIs, SoundOff DEF Ids
    <3> QED
      BY <1>2, <2>3, <3>1, <3>2, <3>4 DEF Ids, v
  <2>7. CASE ~(~isLost /\ allows(d))
    <3> DEFINE h == [d EXCEPT !.holding = FALSE]
    <3>1. v = freeWire(h)
      BY <2>4, <2>7
    <3>2. Shaped(h) /\ Timed(h) /\ Ids(h, d)
      BY <2>3 DEF Shaped, WireFields, Ids, Timed
    <3> HIDE DEF h
    <3>3. Sound(v) /\ Ids(v, h)
      BY <2>3, <3>1, <3>2, FreeOff DEF Ids
    <3> QED
      BY <1>2, <2>3, <2>5, <2>7, <3>2, <3>3 DEF Ids, v
  <2> QED
    BY <2>6, <2>7
<1> QED
  BY <1>1, <1>2

(* The hold looked at: what a connection has is left to it.                *)
LEMMA HoldChecked ==
  ASSUME NEW w, Sound(w)
  PROVE  /\ Sound(checkHold(w)) /\ Ids(checkHold(w), w) /\ checkHold(w).at = w.at
         /\ w.connected => ~checkHold(w).holding /\ checkHold(w).quiet = w.quiet
<1> DEFINE over == [w EXCEPT !.holding = FALSE]
<1>1. Sound(over) /\ Ids(over, w) /\ over.at = w.at /\ over.holding = FALSE /\ over.quiet = w.quiet
  BY SetHolding DEF Sound, Shaped, WireFields
<1> HIDE DEF over
<1>2. checkHold(w) = IF ~w.holding THEN w
                     ELSE IF w.connected \/ (\E c \in w.at : w.owner[c] # "none") THEN over
                     ELSE IF allows(w) THEN w ELSE freeWire(over)
  BY DEF checkHold, over
<1>3. CASE checkHold(w) = w \/ checkHold(w) = over
  BY <1>1, <1>2, <1>3 DEF Ids
<1>4. CASE checkHold(w) = freeWire(over) /\ ~w.connected
  <2>1. Sound(freeWire(over)) /\ Ids(freeWire(over), over)
    BY <1>1, <1>4, FreeOff DEF Ids, Sound
  <2>2. freeWire(over).at = over.at
    BY <1>1 DEF freeWire, Sound, Shaped, WireFields
  <2> QED
    BY <1>1, <1>4, <2>1, <2>2 DEF Ids
<1> QED
  BY <1>2, <1>3, <1>4

(* The pass-through lets the wire go.                                      *)
LEMMA ResidentReleased ==
  ASSUME NEW w, Sound(w)
  PROVE  LET v == residentRelease(w) IN
         /\ Sound(v) /\ ~v.resident /\ v.unseen = w.unseen
         /\ v.connected = w.connected /\ v.number = w.number
         /\ v.next = w.next /\ v.live = w.live
<1> DEFINE e == [w EXCEPT !.resident = FALSE]
           d == detach(e)
<1>1. CASE ~w.resident
  BY <1>1 DEF residentRelease
<1>2. CASE w.resident
  <2>1. ~w.connected
    BY <1>2 DEF Sound
  <2>2. /\ Shaped(e) /\ Timed(e) /\ ~e.resident /\ e.connected = w.connected
        /\ e.unseen = w.unseen /\ e.number = w.number /\ e.next = w.next /\ e.live = w.live
    BY DEF Sound, Shaped, WireFields, Timed
  <2> HIDE DEF e
  <2>3. Shaped(d) /\ Timed(d) /\ Ids(d, e)
    BY <2>2, DetachShape
  <2>4. residentRelease(w) = freeWire(d)
    BY <1>2 DEF residentRelease, e
  <2> HIDE DEF d
  <2>5. Sound(freeWire(d)) /\ Ids(freeWire(d), d)
    BY <2>1, <2>2, <2>3, FreeOff DEF Ids
  <2> QED
    BY <2>2, <2>3, <2>4, <2>5 DEF Ids
<1> QED
  BY <1>1, <1>2

(* An attach: nothing becomes of it, or a connection with a new number.    *)
LEMMA AttachedIs ==
  ASSUME NEW w, Sound(w), ~w.resident, NEW p \in Pairs,
         NEW heard \in BOOLEAN, NEW with_reset \in BOOLEAN
  PROVE  LET v == attached(w, p, heard, with_reset) IN
         /\ Sound(v)
         /\ \/ Ids(v, w)
            \/ /\ ~w.connected /\ v.connected /\ v.number = w.next /\ v.next = w.next + 1
               /\ v.live = w.live \cup {w.next} /\ v.unseen = w.unseen /\ ~v.resident
<1> DEFINE u == IF with_reset THEN excuseReset(usePair(w, p)) ELSE usePair(w, p)
           own == Unowned(u)
           mine == [c \in Pins |-> IF c \in p THEN "wire" ELSE own[c]]
           new == [LinkUp(u) EXCEPT !.connected = TRUE, !.number = u.next, !.next = @ + 1,
                                    !.live = @ \cup {u.next}, !.owner = mine]
           m == IF heard THEN answered(u) ELSE silent(u)
           v == attached(w, p, heard, with_reset)
<1>1. v = IF Unfit(w, p) THEN w
          ELSE IF heard /\ CanTake(w) THEN new ELSE freeWire(detach(m))
  BY DEF attached
<1>2. CASE w.connected
  BY <1>1, <1>2 DEF Ids, Unfit
<1>3. CASE ~w.connected
  <2>1. Sound(u) /\ Ids(u, w) /\ u.at = p
    <3>1. Sound(usePair(w, p)) /\ Ids(usePair(w, p), w) /\ usePair(w, p).at = p
      BY <1>3, UseOff
    <3>2. /\ Sound(excuseReset(usePair(w, p))) /\ Ids(excuseReset(usePair(w, p)), usePair(w, p))
          /\ excuseReset(usePair(w, p)).at = p
      BY <3>1, ClockOnly, WireAssumption DEF Pads
    <3> QED
      BY <3>1, <3>2 DEF Ids
  <2>2. own = Unowned(u) /\ DOMAIN mine = Pins /\ \A c \in Pins : mine[c] = "wire" <=> c \in p
    BY UnownedIs
  <2> HIDE DEF u, own, mine
  <2>3. CASE v = w
    BY <2>3 DEF Ids
  <2>4. CASE v = new
    <3> DEFINE l == LinkUp(u)
    <3>1. Sound(l) /\ Ids(l, u) /\ l.at = p
      BY <2>1, LinkSound
    <3>2. l.attached /\ \A c \in p : l.pad[c] = "wire"
      <4>1. p \subseteq Pins
        BY WireAssumption
      <4> QED
        BY <2>1, <4>1 DEF LinkUp, Lines, answered, Sound, Shaped, WireFields
    <3> HIDE DEF l
    <3>3. v = [l EXCEPT !.connected = TRUE, !.number = u.next, !.next = @ + 1,
                        !.live = @ \cup {u.next}, !.owner = mine]
      BY <2>4 DEF l
    <3> HIDE DEF v, new
    <3>4. /\ v.connected /\ v.number = w.next /\ v.next = w.next + 1
          /\ v.live = w.live \cup {w.next} /\ v.unseen = w.unseen /\ ~v.resident
          /\ v.at = p /\ v.attached /\ v.pad = l.pad /\ v.owner = mine
      BY <2>1, <3>1, <3>2, <3>3 DEF Sound, Shaped, WireFields, Ids
    <3>5. Shaped(v)
      BY <2>1, <2>2, <3>1, <3>3, <3>4 DEF Sound, Shaped, WireFields
    <3>6. Timed(v)
      BY <3>1, <3>3 DEF Sound, Shaped, WireFields, Timed
    <3>7. Owned(v) /\ Driven(v)
      BY <2>2, <3>2, <3>4 DEF Owned, Driven
    <3>8. v.number < v.next
      <4>1. w.next \in Nat
        BY DEF Sound, Shaped
      <4> QED
        BY <3>4, <4>1
    <3>9. Sound(v)
      BY <3>4, <3>5, <3>6, <3>7, <3>8 DEF Sound
    <3> QED
      BY <1>3, <3>4, <3>9 DEF v
  <2>5. CASE v = freeWire(detach(m))
    <3>1. Sound(m) /\ Ids(m, u)
      BY <2>1, ClockOnly, WireAssumption
    <3> HIDE DEF m
    <3>2. Sound(detach(m)) /\ Ids(detach(m), m)
      BY <1>3, <2>1, <3>1, DetachOff DEF Ids
    <3>3. Sound(freeWire(detach(m))) /\ Ids(freeWire(detach(m)), detach(m))
      BY <1>3, <2>1, <3>1, <3>2, FreeOff DEF Ids, Sound
    <3> QED
      BY <2>1, <2>5, <3>1, <3>2, <3>3 DEF Ids
  <2> QED
    BY <1>1, <2>3, <2>4, <2>5
<1> QED
  BY <1>2, <1>3

(* An attach refused once its pair was taken.                              *)
LEMMA MovedIs ==
  ASSUME NEW w, Sound(w), NEW p \in Pairs
  PROVE  Sound(moved(w, p)) /\ Ids(moved(w, p), w)
<1>1. CASE Unfit(w, p)
  BY <1>1 DEF moved, Ids
<1>2. CASE ~Unfit(w, p)
  BY <1>2, UseOff DEF moved, Unfit
<1> QED
  BY <1>1, <1>2

(* The wire tried and let go of again: a scan, or an attach that failed.   *)
LEMMA TriedIs ==
  ASSUME NEW w, Sound(w), ~w.connected, NEW p \in Pairs
  PROVE  LET v == freeWire(detach(usePair(w, p))) IN Sound(v) /\ Ids(v, w)
<1>1. Sound(usePair(w, p)) /\ Ids(usePair(w, p), w)
  BY UseOff
<1>2. Sound(detach(usePair(w, p))) /\ Ids(detach(usePair(w, p)), usePair(w, p))
  BY <1>1, DetachOff DEF Ids
<1>3. /\ Sound(freeWire(detach(usePair(w, p))))
      /\ Ids(freeWire(detach(usePair(w, p))), detach(usePair(w, p)))
  BY <1>1, <1>2, FreeOff DEF Ids, Sound
<1> QED
  BY <1>1, <1>2, <1>3 DEF Ids

-----------------------------------------------------------------------------
(* The console's stream and the pass-through's                             *)

(* Fits reads nothing else of the wire.                                    *)
LEMMA FitsByIds ==
  ASSUME NEW v, NEW w, NEW c, Ids(v, w), Fits(w, c)
  PROVE  Fits(v, c)
BY DEF Ids, Fits, Counted, Apart, Rides, Knows

(* A stream closed, whether the console knew of its connection or not.     *)
LEMMA StreamClosed ==
  ASSUME NEW s, Sound(s.w), SoundCon(s.c),
         Counted(s.w, s.c), Apart(s.w, s.c), Rides(s.w, s.c)
  PROVE  LET r == closeStream(s) IN
         /\ Well(r.w, r.c) /\ ~r.c.open
         /\ r.w.connected = s.w.connected /\ r.w.resident = s.w.resident
         /\ r.w.holding = s.w.holding /\ r.w.at = s.w.at /\ r.w.quiet = s.w.quiet
<1> DEFINE r == closeStream(s)
<1>1. CASE ~s.c.open
  <2>1. r = s
    BY <1>1 DEF closeStream
  <2> QED
    BY <1>1, <2>1 DEF Well, Fits, Knows
<1>2. CASE s.c.open
  <2>1. /\ r.w = Closed(s.w, s.c.number)
        /\ r.c = [s.c EXCEPT !.open = FALSE, !.number = 0, !.of = 0, !.lost = FALSE]
    BY <1>2 DEF closeStream
  <2>2. SoundCon(r.c) /\ ~r.c.open /\ r.c.pass = s.c.pass
    BY <2>1 DEF SoundCon, ConFields
  <2>3. /\ Sound(r.w) /\ r.w.live = s.w.live \ {s.c.number}
        /\ r.w.connected = s.w.connected /\ r.w.number = s.w.number
        /\ r.w.resident = s.w.resident /\ r.w.holding = s.w.holding
        /\ r.w.at = s.w.at /\ r.w.quiet = s.w.quiet
    BY <2>1, SetClosed
  <2>4. Counted(r.w, r.c)
    BY <1>2, <2>2, <2>3 DEF Counted, Apart
  <2>5. Rides(r.w, r.c)
    BY <2>2, <2>3 DEF Rides
  <2> QED
    BY <2>2, <2>3, <2>4, <2>5 DEF Well, Fits, Apart, Knows
<1> QED
  BY <1>1, <1>2

(* The driver's read: on a stream's own connection, or for a pass-through. *)
LEMMA DriverPolled ==
  ASSUME NEW s, NEW heard \in BOOLEAN, DOMAIN s = {"w", "c"}, Well(s.w, s.c),
         s.c.open => ~s.w.unseen
  PROVE  LET d == driverPoll(s, heard) IN
         /\ DOMAIN d = {"w", "c"} /\ Sound(d.w) /\ Ids(d.w, s.w)
         /\ DOMAIN d.c = ConFields /\ ~d.c.mixed
         /\ d.c.open = s.c.open /\ d.c.number = s.c.number /\ d.c.of = s.c.of
         /\ d.c.pass = s.c.pass
         /\ d.c.lost /\ s.w.connected => s.w.quiet >= LostTime
<1> DEFINE d == driverPoll(s, heard)
           w == IF s.w.attached THEN Exchange(s.w, heard)
                ELSE IF heard THEN LinkUp(s.w)
                ELSE [silent(s.w) EXCEPT !.pad = Lines(s.w, s.w.at, "free")]
           other == ~s.w.connected \/ s.c.of # s.w.number
           b == ~heard /\ lost(w)
           m == s.c.mixed \/ (heard /\ s.c.open /\ other)
<1>0. Sound(s.w) /\ SoundCon(s.c) /\ Fits(s.w, s.c)
  BY DEF Well
<1>1. d = IF s.c.lost \/ ~(s.c.open \/ s.c.pass) THEN s
          ELSE [w |-> w, c |-> [s.c EXCEPT !.lost = b, !.mixed = m]]
  BY DEF driverPoll
<1>2. CASE d = s
  BY <1>0, <1>2 DEF SoundCon, Ids
<1>3. CASE d = [w |-> w, c |-> [s.c EXCEPT !.lost = b, !.mixed = m]]
  <2>1. Sound(w) /\ Ids(w, s.w)
    <3>1. CASE s.w.attached
      BY <1>0, <3>1, ClockOnly, WireAssumption DEF Exchange
    <3>2. CASE ~s.w.attached /\ heard
      BY <1>0, <3>2, LinkSound
    <3>3. CASE ~s.w.attached /\ ~heard
      <4> DEFINE q == silent(s.w)
                 f == [q EXCEPT !.pad = Lines(s.w, s.w.at, "free")]
      <4>1. Sound(q) /\ Ids(q, s.w)
        BY <1>0, ClockOnly, WireAssumption
      <4>2. ~q.connected /\ w = f
        BY <1>0, <3>3, <4>1 DEF Sound, Driven, Ids
      <4> HIDE DEF q, w
      <4>3. Shaped(f) /\ Ids(f, q) /\ f.owner = q.owner /\ f.at = q.at
        BY <4>1 DEF Sound, Shaped, WireFields, Ids, Lines
      <4>4. Timed(f)
        BY <4>1 DEF Sound, Shaped, WireFields, Timed
      <4> HIDE DEF f
      <4>5. Sound(f)
        BY <4>1, <4>2, <4>3, <4>4, SoundOff DEF Sound, Owned, Ids
      <4> QED
        BY <4>1, <4>2, <4>3, <4>5 DEF Ids, w
    <3> QED
      BY <3>1, <3>2, <3>3
  <2>2. b /\ s.w.connected => s.w.quiet >= LostTime
    <3>1. SUFFICES ASSUME ~heard, lost(w), s.w.connected
                   PROVE  s.w.quiet >= LostTime
      OBVIOUS
    <3>2. w = silent(s.w)
      BY <1>0, <3>1 DEF Sound, Driven, Exchange
    <3> QED
      BY <1>0, <3>1, <3>2, LostIsQuiet, WireAssumption
  <2>3. ~m
    BY <1>0 DEF SoundCon, Fits, Knows
  <2> HIDE DEF w, b, m, d
  <2>4. /\ DOMAIN d.c = ConFields /\ ~d.c.mixed /\ d.c.open = s.c.open
        /\ d.c.number = s.c.number /\ d.c.of = s.c.of /\ d.c.pass = s.c.pass
        /\ (d.c.lost <=> b)
    BY <1>0, <1>3, <2>3 DEF SoundCon, ConFields
  <2>5. d.w = w /\ DOMAIN d = {"w", "c"}
    BY <1>3
  <2> QED
    BY <2>1, <2>2, <2>4, <2>5 DEF d
<1> QED
  BY <1>1, <1>2, <1>3

(* A driver's read of a line not lost leaves all as it was.                *)
LEMMA DriverWell ==
  ASSUME NEW s, NEW d, Well(s.w, s.c), Sound(d.w), Ids(d.w, s.w),
         DOMAIN d.c = ConFields, ~d.c.mixed, d.c.open = s.c.open,
         d.c.number = s.c.number, d.c.of = s.c.of, d.c.pass = s.c.pass, ~d.c.lost
  PROVE  Well(d.w, d.c)
<1>1. SoundCon(d.c)
  BY DEF Well, SoundCon
<1>2. Fits(d.w, s.c)
  BY FitsByIds DEF Well
<1>3. Fits(d.w, d.c)
  BY <1>2 DEF Fits, Counted, Apart, Rides, Knows
<1> QED
  BY <1>1, <1>3 DEF Well

(* A pass-through's console polled: it goes on, or the line is lost.       *)
LEMMA PassPolled ==
  ASSUME NEW s, NEW heard \in BOOLEAN, DOMAIN s = {"w", "c"}, Well(s.w, s.c), s.c.pass
  PROVE  LET r == PollPass(s, heard) IN
         /\ DOMAIN r = {"w", "c"} /\ Well(r.w, r.c)
         /\ r.w.resident = s.w.resident /\ r.w.connected = s.w.connected
<1> DEFINE d == driverPoll(s, heard)
           stopped == [passStop(d.c) EXCEPT !.passLost = TRUE]
           r == PollPass(s, heard)
<1>1. ~s.c.open
  BY DEF Well, Fits, Rides
<1>2. /\ DOMAIN d = {"w", "c"} /\ Sound(d.w) /\ Ids(d.w, s.w)
      /\ DOMAIN d.c = ConFields /\ ~d.c.mixed
      /\ d.c.open = s.c.open /\ d.c.number = s.c.number /\ d.c.of = s.c.of
      /\ d.c.pass = s.c.pass
  BY <1>1, DriverPolled
<1>3. r = IF d.c.lost THEN [d EXCEPT !.c = stopped] ELSE d
  BY DEF PollPass
<1>4. CASE ~d.c.lost
  BY <1>2, <1>3, <1>4, DriverWell DEF Ids
<1>5. CASE d.c.lost
  <2>1. /\ DOMAIN stopped = ConFields /\ ~stopped.lost /\ ~stopped.mixed /\ ~stopped.pass
        /\ stopped.open = s.c.open /\ stopped.number = s.c.number
    BY <1>2 DEF passStop, ConFields
  <2> HIDE DEF stopped, d
  <2>2. DOMAIN r = {"w", "c"} /\ r.w = d.w /\ r.c = stopped
    BY <1>2, <1>3, <1>5
  <2>3. SoundCon(stopped)
    BY <2>1 DEF SoundCon, Well
  <2>4. Fits(d.w, s.c)
    BY <1>2, FitsByIds DEF Well
  <2>5. Fits(d.w, stopped)
    BY <1>1, <2>1, <2>4 DEF Fits, Counted, Apart, Rides, Knows
  <2> QED
    BY <1>2, <2>2, <2>3, <2>5 DEF Well, Ids
<1> QED
  BY <1>4, <1>5

(* The stream polled, its connection known: lost, both are closed.         *)
LEMMA StreamPolled ==
  ASSUME NEW s, NEW heard \in BOOLEAN, DOMAIN s = {"w", "c"}, Well(s.w, s.c),
         s.c.open => ~s.w.unseen
  PROVE  LET r == PollStream(s, heard) IN
         /\ Well(r.w, r.c)
         /\ r.w.resident = s.w.resident
         /\ ~s.w.connected => ~r.w.connected
         /\ s.w.connected /\ ~r.w.connected => s.w.quiet >= LostTime
<1> DEFINE d == driverPoll(s, heard)
           u == releaseConnection(d.w, TRUE)
           n == [u EXCEPT !.unseen = FALSE]
           over == [d EXCEPT !.w = n]
           r == PollStream(s, heard)
<1>1. /\ DOMAIN d = {"w", "c"} /\ Sound(d.w) /\ Ids(d.w, s.w)
      /\ DOMAIN d.c = ConFields /\ ~d.c.mixed
      /\ d.c.open = s.c.open /\ d.c.number = s.c.number /\ d.c.of = s.c.of
      /\ d.c.pass = s.c.pass
      /\ d.c.lost /\ s.w.connected => s.w.quiet >= LostTime
  BY DriverPolled
<1>2. r = IF ~s.c.open THEN s ELSE IF d.c.lost THEN closeStream(over) ELSE d
  BY DEF PollStream
<1>3. CASE ~s.c.open
  BY <1>2, <1>3
<1>4. CASE s.c.open /\ ~d.c.lost
  BY <1>1, <1>2, <1>4, DriverWell DEF Ids
<1>5. CASE s.c.open /\ d.c.lost
  <2>1. s.w.connected /\ ~s.w.resident /\ ~s.c.pass
    BY <1>5 DEF Well, Fits, Knows, Rides
  <2>2. /\ Sound(u) /\ ~u.connected /\ u.live = d.w.live \ {d.w.number}
        /\ u.resident = d.w.resident /\ u.next = d.w.next
    BY <1>1, <2>1, Released DEF Ids
  <2> HIDE DEF u
  <2>3. /\ Sound(n) /\ ~n.connected /\ n.live = s.w.live \ {s.w.number}
        /\ n.resident = s.w.resident /\ n.next = s.w.next
    BY <1>1, <2>1, <2>2, SetUnseen DEF Ids
  <2> DEFINE k == [d.c EXCEPT !.lost = FALSE]
             e == [w |-> n, c |-> k]
  <2>4. /\ DOMAIN k = ConFields /\ ~k.lost /\ ~k.mixed /\ k.open /\ ~k.pass
        /\ k.number = s.c.number
    BY <1>1, <1>5, <2>1 DEF ConFields
  <2>5. SoundCon(k)
    BY <2>4 DEF SoundCon, Well
  <2>6. closeStream(over) = closeStream(e)
    <3>1. over.w = n /\ over.c = d.c
      BY <1>1
    <3>2. /\ closeStream(over).w = closeStream(e).w
      BY <1>1, <1>5, <2>4, <3>1 DEF closeStream
    <3>3. closeStream(over) =
            [w |-> Closed(n, d.c.number),
             c |-> [d.c EXCEPT !.open = FALSE, !.number = 0, !.of = 0, !.lost = FALSE]]
      BY <1>1, <1>5, <3>1 DEF closeStream
    <3>4. closeStream(e) =
            [w |-> Closed(n, k.number),
             c |-> [k EXCEPT !.open = FALSE, !.number = 0, !.of = 0, !.lost = FALSE]]
      BY <2>4 DEF closeStream
    <3>5. [k EXCEPT !.open = FALSE, !.number = 0, !.of = 0, !.lost = FALSE]
          = [d.c EXCEPT !.open = FALSE, !.number = 0, !.of = 0, !.lost = FALSE]
      BY <1>1 DEF ConFields
    <3> QED
      BY <1>1, <2>4, <3>3, <3>4, <3>5
  <2> HIDE DEF n, k, d
  <2>7. Counted(n, k) /\ Apart(n, k) /\ Rides(n, k)
    <3>1. Fits(s.w, s.c)
      BY DEF Well
    <3>2. /\ s.w.live = {s.w.number} \cup {s.c.number} /\ s.c.number < s.w.next
          /\ s.c.number # s.w.number
      BY <1>5, <2>1, <3>1 DEF Fits, Counted, Apart
    <3> QED
      BY <2>1, <2>3, <2>4, <3>2 DEF Counted, Apart, Rides
  <2>8. Well(closeStream(e).w, closeStream(e).c) /\ closeStream(e).w.connected = n.connected
        /\ closeStream(e).w.resident = n.resident
    <3>1. e.w = n /\ e.c = k
      OBVIOUS
    <3> HIDE DEF e
    <3> QED
      BY <2>3, <2>5, <2>7, <3>1, StreamClosed
  <2>9. r = closeStream(e)
    BY <1>2, <1>5, <2>6
  <2> HIDE DEF e, r
  <2> QED
    BY <1>1, <1>5, <2>1, <2>3, <2>8, <2>9 DEF r
<1> QED
  BY <1>3, <1>4, <1>5

(* The console polled, whatever it carries.                                *)
LEMMA ConsolePolled ==
  ASSUME NEW s, NEW heard \in BOOLEAN, DOMAIN s = {"w", "c"}, DOMAIN s.w = WireFields,
         Well(s.w, s.c)
  PROVE  LET r == consolePoll(s, heard) IN
         /\ Well(r.w, r.c)
         /\ r.w.resident = s.w.resident
         /\ ~s.w.connected => ~r.w.connected
         /\ s.w.connected /\ ~r.w.connected => s.w.quiet >= LostTime
<1> DEFINE seen == [s EXCEPT !.w.unseen = FALSE]
           r == consolePoll(s, heard)
<1>1. r = IF s.c.pass THEN PollPass(s, heard)
          ELSE IF s.w.unseen THEN closeStream(seen) ELSE PollStream(s, heard)
  BY DEF consolePoll
<1>2. CASE s.c.pass
  BY <1>1, <1>2, PassPolled
<1>3. CASE ~s.c.pass /\ ~s.w.unseen
  BY <1>1, <1>3, StreamPolled
<1>4. CASE ~s.c.pass /\ s.w.unseen
  <2>1. seen.w = [s.w EXCEPT !.unseen = FALSE] /\ seen.c = s.c
    OBVIOUS
  <2> HIDE DEF seen
  <2>2. /\ Sound(seen.w) /\ seen.w.connected = s.w.connected /\ seen.w.number = s.w.number
        /\ seen.w.resident = s.w.resident /\ seen.w.next = s.w.next /\ seen.w.live = s.w.live
    BY <2>1, SetUnseen DEF Well
  <2>3. Counted(seen.w, seen.c) /\ Apart(seen.w, seen.c) /\ Rides(seen.w, seen.c)
    BY <2>1, <2>2 DEF Well, Fits, Counted, Apart, Rides
  <2>4. SoundCon(seen.c)
    BY <2>1 DEF Well
  <2>5. /\ Well(closeStream(seen).w, closeStream(seen).c)
        /\ closeStream(seen).w.connected = seen.w.connected
        /\ closeStream(seen).w.resident = seen.w.resident
    BY <2>2, <2>3, <2>4, StreamClosed
  <2> QED
    BY <1>1, <1>4, <2>2, <2>5
<1> QED
  BY <1>2, <1>3, <1>4

-----------------------------------------------------------------------------
(* The pass-through                                                        *)

(* A stopped pass-through rides on nothing.                                *)
LEMMA PassStopped ==
  ASSUME NEW s, Well(s.w, s.c)
  PROVE  LET v == residentRelease(s.w)  k == passStop(s.c) IN
         /\ Well(v, k) /\ ~v.resident
         /\ v.connected = s.w.connected
<1> DEFINE v == residentRelease(s.w)
           k == passStop(s.c)
<1>1. /\ Sound(v) /\ ~v.resident /\ v.unseen = s.w.unseen
      /\ v.connected = s.w.connected /\ v.number = s.w.number
      /\ v.next = s.w.next /\ v.live = s.w.live
  BY ResidentReleased DEF Well
<1>2. /\ DOMAIN k = ConFields /\ ~k.pass /\ ~k.lost /\ ~k.mixed
      /\ k.open = s.c.open /\ k.number = s.c.number /\ k.of = s.c.of
  BY DEF passStop, Well, SoundCon, ConFields
<1> HIDE DEF v, k
<1>3. SoundCon(k)
  BY <1>2 DEF SoundCon, Well
<1>4. Fits(v, k)
  BY <1>1, <1>2 DEF Well, Fits, Counted, Apart, Rides, Knows
<1> QED
  BY <1>1, <1>3, <1>4 DEF Well, v, k

(* residentAttach: the wire the pass-through's, or nobody's.               *)
LEMMA ResidentAttached ==
  ASSUME NEW w, Sound(w), ~w.connected, ~w.resident, item \in Pairs, NEW heard \in BOOLEAN
  PROVE  LET v == residentAttach(w, heard) IN
         /\ Sound(v) /\ v.connected = w.connected /\ v.number = w.number
         /\ v.unseen = w.unseen /\ v.next = w.next /\ v.live = w.live
<1> DEFINE u == usePair(w, item)
           l == LinkUp(u)
           m == [l EXCEPT !.resident = TRUE]
           v == residentAttach(w, heard)
<1>1. v = IF w.connected \/ w.resident \/ ~MayUse(w, item) THEN w
          ELSE IF heard THEN m ELSE freeWire(detach(u))
  BY DEF residentAttach
<1>2. CASE v = w
  BY <1>2
<1>3. CASE v = m
  <2>1. Sound(u) /\ Ids(u, w)
    BY UseOff
  <2>2. Sound(l) /\ Ids(l, u)
    BY <2>1, LinkSound
  <2> HIDE DEF u, l
  <2>3. /\ Shaped(m) /\ Timed(m) /\ m.owner = l.owner /\ m.at = l.at
        /\ m.connected = l.connected /\ m.number = l.number
        /\ m.unseen = l.unseen /\ m.next = l.next /\ m.live = l.live
    BY <2>2 DEF Sound, Shaped, WireFields, Timed
  <2>4. \A c \in Pins : m.owner[c] # "wire"
    BY <2>1, <2>2, <2>3 DEF Sound, Owned, Ids
  <2> HIDE DEF m
  <2>5. Sound(m)
    BY <2>1, <2>2, <2>3, <2>4, SoundOff DEF Ids
  <2> QED
    BY <1>3, <2>1, <2>2, <2>3, <2>5 DEF Ids
<1>4. CASE v = freeWire(detach(u))
  BY <1>4, TriedIs DEF Ids
<1> QED
  BY <1>1, <1>2, <1>3, <1>4

(* A pass-through started, or its wire let go of.                          *)
LEMMA PassStarted ==
  ASSUME NEW s, Well(s.w, s.c), ~s.w.connected, ~s.w.resident, item \in Pairs,
         NEW heard \in BOOLEAN
  PROVE  LET r == StartPass(s, heard) IN
         /\ DOMAIN r = {"on", "w", "c"} /\ Well(r.w, r.c)
         /\ (r.on <=> r.w.resident) /\ ~r.w.connected
<1> DEFINE w == residentAttach(s.w, heard)
           k == [s.c EXCEPT !.pass = TRUE, !.lost = FALSE, !.passLost = FALSE]
           r == StartPass(s, heard)
<1>1. r = IF w.resident /\ ~s.c.open /\ ~s.c.pass THEN [on |-> TRUE, w |-> w, c |-> k]
          ELSE [on |-> FALSE, w |-> residentRelease(w), c |-> s.c]
  BY DEF StartPass
<1>2. /\ Sound(w) /\ w.connected = s.w.connected /\ w.number = s.w.number
      /\ w.unseen = s.w.unseen /\ w.next = s.w.next /\ w.live = s.w.live
  BY ResidentAttached DEF Well
<1>3. SoundCon(s.c) /\ Fits(s.w, s.c) /\ ~s.c.pass
  BY DEF Well, Fits, Rides
<1> HIDE DEF w
<1>4. CASE w.resident /\ ~s.c.open /\ ~s.c.pass
  <2>1. r = [on |-> TRUE, w |-> w, c |-> k]
    BY <1>1, <1>4
  <2>2. /\ DOMAIN k = ConFields /\ k.pass /\ ~k.lost /\ ~k.mixed /\ ~k.open
        /\ k.number = s.c.number
    BY <1>3, <1>4 DEF SoundCon, ConFields
  <2> HIDE DEF k
  <2>3. SoundCon(k)
    BY <1>3, <2>2 DEF SoundCon
  <2>4. Fits(w, k)
    BY <1>2, <1>3, <1>4, <2>2 DEF Fits, Counted, Apart, Rides, Knows
  <2> QED
    BY <1>2, <1>4, <2>1, <2>3, <2>4 DEF Well
<1>5. CASE ~(w.resident /\ ~s.c.open /\ ~s.c.pass)
  <2> DEFINE v == residentRelease(w)
  <2>1. r = [on |-> FALSE, w |-> v, c |-> s.c]
    BY <1>1, <1>5
  <2>2. /\ Sound(v) /\ ~v.resident /\ v.unseen = w.unseen
        /\ v.connected = w.connected /\ v.number = w.number
        /\ v.next = w.next /\ v.live = w.live
    BY <1>2, ResidentReleased
  <2> HIDE DEF v
  <2>3. Fits(v, s.c)
    BY <1>2, <1>3, <2>2 DEF Fits, Counted, Apart, Rides, Knows
  <2> QED
    BY <1>2, <1>3, <2>1, <2>2, <2>3 DEF Well
<1> QED
  BY <1>4, <1>5

(* A pass-through going on, or given up for a lost line.                   *)
LEMMA PassCarried ==
  ASSUME NEW s, DOMAIN s = {"w", "c"}, DOMAIN s.w = WireFields, Well(s.w, s.c),
         s.w.resident, NEW heard \in BOOLEAN
  PROVE  LET r == CarryPass(s, heard) IN
         /\ DOMAIN r = {"on", "w", "c"} /\ Well(r.w, r.c)
         /\ (r.on <=> r.w.resident) /\ ~r.w.connected
<1> DEFINE p == consolePoll(s, heard)
           r == CarryPass(s, heard)
<1>1. r = IF p.c.passLost
            THEN [on |-> FALSE, w |-> residentRelease(p.w), c |-> passStop(p.c)]
            ELSE [on |-> TRUE, w |-> p.w, c |-> p.c]
  BY DEF CarryPass
<1>2. Well(p.w, p.c) /\ p.w.resident /\ ~p.w.connected
  BY ConsolePolled DEF Well, Sound
<1> HIDE DEF p
<1>3. CASE p.c.passLost
  <2>1. /\ Well(residentRelease(p.w), passStop(p.c)) /\ ~residentRelease(p.w).resident
        /\ residentRelease(p.w).connected = p.w.connected
    BY <1>2, PassStopped
  <2> QED
    BY <1>1, <1>2, <1>3, <2>1
<1>4. CASE ~p.c.passLost
  <2>1. r = [on |-> TRUE, w |-> p.w, c |-> p.c]
    BY <1>1, <1>4
  <2>2. r.on /\ r.w = p.w /\ r.c = p.c /\ DOMAIN r = {"on", "w", "c"}
    BY <2>1
  <2> QED
    BY <1>2, <2>2
<1> QED
  BY <1>3, <1>4

(* The pass-throughs' turn, from first to last.                            *)
LEMMA PassThroughs ==
  ASSUME IInv, NEW first \in BOOLEAN, NEW heard \in BOOLEAN
  PROVE  LET r == runPassthroughs(first, heard) IN
         /\ Well(r.w, r.c) /\ (r.on <=> r.w.resident)
         /\ wire.connected => r.w.connected
<1> DEFINE tryNow == ~through.on /\ ~through.tried
           start == IF tryNow THEN StartPass(Here, first)
                    ELSE [on |-> through.on, w |-> wire, c |-> con]
           s == [w |-> start.w, c |-> start.c]
           went == IF start.on THEN CarryPass(s, heard) ELSE start
           stopped == IF through.on THEN StopPass(Here) ELSE Here
           r == runPassthroughs(first, heard)
<1>1. r = IF PassAllowed
            THEN [on |-> went.on, tried |-> TRUE, w |-> went.w, c |-> went.c]
            ELSE [on |-> FALSE, tried |-> FALSE, w |-> stopped.w, c |-> stopped.c]
  BY DEF runPassthroughs
<1>2. Well(wire, con) /\ (through.on <=> wire.resident)
  BY DEF IInv
<1>3. Here.w = wire /\ Here.c = con
  BY DEF Here
<1>4. CASE PassAllowed
  <2>1. ~wire.connected /\ item \in Pairs
    BY <1>4, WireAssumption DEF PassAllowed, IInv
  <2>2. /\ Well(start.w, start.c) /\ (start.on <=> start.w.resident) /\ ~start.w.connected
    <3>1. CASE tryNow
      BY <1>2, <1>3, <2>1, <3>1, PassStarted
    <3>2. CASE ~tryNow
      BY <1>2, <2>1, <3>2
    <3> QED
      BY <3>1, <3>2
  <2> HIDE DEF start
  <2>3. /\ Well(went.w, went.c) /\ (went.on <=> went.w.resident)
    <3>1. CASE start.on
      <4>1. DOMAIN s = {"w", "c"} /\ s.w = start.w /\ s.c = start.c
        OBVIOUS
      <4> HIDE DEF s
      <4>2. DOMAIN s.w = WireFields
        BY <2>2, <4>1 DEF Well, Sound, Shaped
      <4> QED
        BY <2>2, <3>1, <4>1, <4>2, PassCarried
    <3>2. CASE ~start.on
      BY <2>2, <3>2
    <3> QED
      BY <3>1, <3>2
  <2> HIDE DEF went
  <2> QED
    BY <1>1, <1>4, <2>1, <2>3
<1>5. CASE ~PassAllowed
  <2>1. CASE through.on
    <3>1. /\ Well(residentRelease(wire), passStop(con)) /\ ~residentRelease(wire).resident
          /\ residentRelease(wire).connected = wire.connected
      BY <1>2, <1>3, PassStopped
    <3>2. stopped.w = residentRelease(wire) /\ stopped.c = passStop(con)
      BY <1>3, <2>1 DEF StopPass
    <3> QED
      BY <1>1, <1>5, <3>1, <3>2
  <2>2. CASE ~through.on
    BY <1>1, <1>2, <1>3, <1>5, <2>2
  <2> QED
    BY <2>1, <2>2
<1> QED
  BY <1>4, <1>5

-----------------------------------------------------------------------------
(* The steps                                                               *)

(* What a step has to leave.                                               *)
LEMMA BecomesWell ==
  ASSUME Well(wire', con'), DOMAIN through' = {"on", "tried"},
         through'.on <=> wire'.resident, item' \in Passes \cup {NoPair}
  PROVE  IInv'
BY DEF IInv, Well, Sound, SoundCon, Fits, Shaped, Timed, Owned, Driven, Counted, Apart, Rides, Knows

(* A step after which the console still fits the wire.                     *)
LEMMA StaysWell ==
  ASSUME IInv, Sound(wire'), Ids(wire', wire), UNCHANGED <<con, through, item>>
  PROVE  IInv'
<1>1. Fits(wire', con)
  BY FitsByIds DEF IInv, Well
<1>2. Well(wire', con') /\ (through'.on <=> wire'.resident)
  BY <1>1 DEF IInv, Well, Ids
<1> QED
  BY <1>2, BecomesWell DEF IInv

(* A step of the console's and the wire's alone.                           *)
LEMMA BothWell ==
  ASSUME IInv, NEW s, Well(s.w, s.c), Become(s), s.w.resident <=> wire.resident,
         UNCHANGED <<through, item>>
  PROVE  IInv'
BY BecomesWell DEF IInv, Become

(* A connection released under a console.                                  *)
LEMMA ReleasedFits ==
  ASSUME NEW w, NEW c, Sound(w), Fits(w, c), NEW isLost \in BOOLEAN
  PROVE  LET v == releaseConnection(w, isLost) IN
         Sound(v) /\ Fits(v, c) /\ (v.resident <=> w.resident)
<1> DEFINE v == releaseConnection(w, isLost)
<1>1. /\ Sound(v) /\ ~v.connected /\ (~w.connected => v = w)
      /\ w.connected => /\ v.unseen /\ v.live = w.live \ {w.number} /\ v.next = w.next
                        /\ v.resident = w.resident
  BY Released
<1> HIDE DEF v
<1>2. CASE ~w.connected
  BY <1>1, <1>2 DEF v
<1>3. CASE w.connected
  <2>1. Counted(v, c)
    BY <1>1, <1>3 DEF Fits, Counted, Apart
  <2> QED
    BY <1>1, <1>3, <2>1 DEF Fits, Apart, Rides, Knows, v
<1> QED
  BY <1>2, <1>3

(* The hold ended before a scan or an attach.                              *)
LEMMA PreludeIs ==
  ASSUME Sound(wire)
  PROVE  Sound(Prelude) /\ Ids(Prelude, wire)
<1>1. Sound(checkHold(wire)) /\ Ids(checkHold(wire), wire)
  BY HoldChecked
<1>2. Sound(Prelude) /\ Ids(Prelude, checkHold(wire))
  BY <1>1, SetHolding DEF Prelude
<1> QED
  BY <1>1, <1>2 DEF Ids

(* A scan comes and goes on pins that were free.                           *)
LEMMA ScanWell ==
  ASSUME IInv, NEW p \in Pairs, scan(p)
  PROVE  IInv'
<1>1. Sound(Prelude) /\ Ids(Prelude, wire)
  BY PreludeIs DEF IInv, Well
<1>2. /\ wire' = IF wire.connected \/ ~MayUse(Prelude, p) THEN Prelude
                 ELSE freeWire(detach(usePair(Prelude, p)))
      /\ UNCHANGED <<con, through, item>>
  BY DEF scan, Same
<1>3. CASE wire' = Prelude
  BY <1>1, <1>2, <1>3, StaysWell
<1>4. CASE wire' = freeWire(detach(usePair(Prelude, p))) /\ ~wire.connected
  <2>1. ~Prelude.connected
    BY <1>1, <1>4 DEF Ids
  <2>2. Sound(wire') /\ Ids(wire', Prelude)
    BY <1>1, <1>4, <2>1, TriedIs
  <2> QED
    BY <1>1, <1>2, <2>2, StaysWell DEF Ids
<1> QED
  BY <1>2, <1>3, <1>4

(* An attach: refused it leaves the wire, granted it has number and pins.  *)
LEMMA AttachWell ==
  ASSUME IInv, NEW p \in Pairs, attach(p)
  PROVE  IInv' /\ (wire.connected => wire'.connected)
<1> DEFINE s0 == [w |-> Prelude, c |-> con]
           s == Yielded(s0)
<1>1. Sound(Prelude) /\ Ids(Prelude, wire) /\ Fits(Prelude, con)
  BY PreludeIs, FitsByIds DEF IInv, Well
<1>2. Well(s0.w, s0.c) /\ s0.w = Prelude /\ s0.c = con
  BY <1>1 DEF IInv, Well
<1>3. /\ Well(s.w, s.c) /\ ~s.w.resident /\ s.w.connected = wire.connected
  <2>1. CASE s0.w.resident /\ through.on
    <3>1. s.w = residentRelease(s0.w) /\ s.c = passStop(s0.c)
      BY <2>1 DEF Yielded, StopPass
    <3> HIDE DEF s0, s
    <3> QED
      BY <1>1, <1>2, <3>1, PassStopped DEF Ids
  <2>2. CASE ~(s0.w.resident /\ through.on)
    <3>1. s = s0
      BY <2>2 DEF Yielded
    <3> QED
      BY <1>1, <1>2, <2>2, <3>1 DEF Ids, IInv
  <2> QED
    BY <2>1, <2>2
<1>4. /\ \/ wire' \in {s.w, moved(s.w, p)}
         \/ \E heard, with_reset \in BOOLEAN : wire' = attached(s.w, p, heard, with_reset)
      /\ con' = s.c
      /\ through' = [through EXCEPT !.on = @ /\ ~wire.resident] /\ item' = item
  BY DEF attach
<1> HIDE DEF s
<1>5. /\ Sound(wire')
      /\ \/ Ids(wire', s.w)
         \/ /\ ~s.w.connected /\ wire'.connected /\ wire'.number = s.w.next
            /\ wire'.next = s.w.next + 1
            /\ wire'.live = s.w.live \cup {s.w.next} /\ wire'.unseen = s.w.unseen
            /\ ~wire'.resident
  <2>1. CASE wire' = s.w
    BY <1>3, <2>1 DEF Well, Ids
  <2>2. CASE wire' = moved(s.w, p)
    BY <1>3, <2>2, MovedIs DEF Well
  <2>3. CASE \E heard, with_reset \in BOOLEAN : wire' = attached(s.w, p, heard, with_reset)
    <3>1. PICK heard, with_reset \in BOOLEAN : wire' = attached(s.w, p, heard, with_reset)
      BY <2>3
    <3> QED
      BY <1>3, <3>1, AttachedIs DEF Well
  <2> QED
    BY <1>4, <2>1, <2>2, <2>3
<1>6. ~wire'.resident /\ (wire.connected => wire'.connected)
  BY <1>3, <1>5 DEF Ids
<1>7. Fits(wire', s.c)
  <2>1. CASE Ids(wire', s.w)
    BY <1>3, <2>1, FitsByIds DEF Well
  <2>2. CASE /\ ~s.w.connected /\ wire'.connected /\ wire'.number = s.w.next
             /\ wire'.next = s.w.next + 1
             /\ wire'.live = s.w.live \cup {s.w.next} /\ wire'.unseen = s.w.unseen
             /\ ~wire'.resident
    <3>1. Fits(s.w, s.c) /\ s.w.next \in Nat /\ s.c.number \in Nat
      BY <1>3 DEF Well, Sound, Shaped, SoundCon
    <3>2. Counted(wire', s.c)
      BY <2>2, <3>1 DEF Fits, Counted
    <3>3. s.c.open => s.c.number < s.w.next + 1 /\ s.w.next # s.c.number
      BY <3>1 DEF Fits, Apart
    <3>4. Apart(wire', s.c)
      BY <2>2, <3>3 DEF Apart
    <3>5. Rides(wire', s.c) /\ Knows(wire', s.c)
      BY <1>3, <2>2, <3>1 DEF Fits, Rides, Knows
    <3> QED
      BY <3>2, <3>4, <3>5 DEF Fits
  <2> QED
    BY <1>5, <2>1, <2>2
<1>8. DOMAIN through' = {"on", "tried"} /\ (through'.on <=> FALSE)
  BY <1>4 DEF IInv
<1> QED
  BY <1>3, <1>4, <1>5, <1>6, <1>7, <1>8, BecomesWell DEF IInv, Well

(* A console opens on the live connection, with a number of its own.       *)
LEMMA OpenWell ==
  ASSUME IInv, kOpOpen
  PROVE  IInv' /\ wire'.connected
<1>1. /\ Sound(wire) /\ SoundCon(con) /\ Fits(wire, con)
      /\ wire.connected /\ ~con.open /\ wire.attached /\ ~wire.resident /\ ~con.pass
  BY DEF IInv, Well, kOpOpen, Sound, Driven, Fits, Rides
<1>2. /\ wire' = [wire EXCEPT !.next = @ + 1, !.live = @ \cup {wire.next}, !.unseen = FALSE]
      /\ con' = [con EXCEPT !.open = TRUE, !.number = wire.next, !.of = wire.number,
                            !.lost = FALSE]
      /\ UNCHANGED <<through, item>>
  BY <1>1 DEF kOpOpen, Same
<1>3. /\ wire'.next = wire.next + 1 /\ wire'.live = wire.live \cup {wire.next}
      /\ wire'.connected = wire.connected /\ wire'.number = wire.number
      /\ wire'.resident = wire.resident /\ wire'.at = wire.at
      /\ wire'.attached = wire.attached /\ wire'.owner = wire.owner /\ wire'.pad = wire.pad
      /\ wire.next \in Nat /\ wire.number \in Nat /\ wire.number < wire.next
  BY <1>1, <1>2 DEF Sound, Shaped, WireFields
<1>4. Shaped(wire')
  BY <1>1, <1>2, <1>3 DEF Sound, Shaped, WireFields
<1>5. Timed(wire')
  BY <1>1, <1>2 DEF Sound, Shaped, WireFields, Timed
<1>6. Sound(wire')
  BY <1>1, <1>3, <1>4, <1>5 DEF Sound, Owned, Driven
<1>7. /\ DOMAIN con' = ConFields /\ con'.open /\ con'.number = wire.next
      /\ con'.of = wire.number /\ con'.pass = con.pass /\ ~con'.lost /\ ~con'.mixed
  BY <1>1, <1>2 DEF SoundCon, ConFields
<1>8. SoundCon(con')
  BY <1>3, <1>7 DEF SoundCon
<1>9. Fits(wire', con')
  <2>1. Counted(wire', con')
    BY <1>1, <1>3, <1>7 DEF Fits, Counted
  <2>2. wire.next < wire.next + 1 /\ wire.next # wire.number
    BY <1>3
  <2> QED
    BY <1>1, <1>3, <1>7, <2>1, <2>2 DEF Fits, Apart, Rides, Knows
<1> QED
  BY <1>1, <1>2, <1>3, <1>6, <1>8, <1>9, BecomesWell DEF IInv, Well

(* The pads of channels that are nobody's, and a plan's, may change.       *)
LEMMA PadWell ==
  ASSUME IInv, UNCHANGED <<con, through, item>>, Ids(wire', wire), Shaped(wire'), Timed(wire'),
         wire'.at = wire.at, wire'.attached = wire.attached,
         \A c \in Pins : \/ wire'.owner[c] = wire.owner[c] /\ wire'.pad[c] = wire.pad[c]
                         \/ wire.owner[c] # "wire" /\ wire'.owner[c] # "wire"
  PROVE  IInv'
<1>1. Sound(wire)
  BY DEF IInv, Well
<1>2. Owned(wire')
  BY <1>1 DEF Sound, Owned, Ids
<1>3. Driven(wire')
  BY <1>1 DEF Sound, Shaped, Owned, Driven, Ids
<1> QED
  BY <1>1, <1>2, <1>3, StaysWell DEF Sound, Ids

(* A plan takes and leaves pins that are not the wire's.                   *)
LEMMA PlanWell ==
  ASSUME IInv, NEW c \in Pins, planTakes(c) \/ planEnds(c)
  PROVE  IInv'
<1>1. Sound(wire)
  BY DEF IInv, Well
<1>2. PICK o \in {"none", "plan"}, d \in {"plan", "idle", "free"} :
        wire' = [wire EXCEPT !.owner[c] = o, !.pad[c] = d]
  BY DEF planTakes, planEnds, Rest
<1>3. wire.owner[c] # "wire" /\ UNCHANGED <<con, through, item>>
  BY DEF planTakes, planEnds, Same
<1>4. /\ wire'.owner = [wire.owner EXCEPT ![c] = o] /\ wire'.pad = [wire.pad EXCEPT ![c] = d]
      /\ Ids(wire', wire) /\ wire'.at = wire.at /\ wire'.attached = wire.attached
  BY <1>1, <1>2 DEF Sound, Shaped, WireFields, Ids
<1>5. Shaped(wire')
  BY <1>1, <1>2, <1>4 DEF Sound, Shaped, WireFields, Ids
<1>6. Timed(wire')
  BY <1>1, <1>2 DEF Sound, Shaped, WireFields, Timed
<1>7. \A x \in Pins : \/ wire'.owner[x] = wire.owner[x] /\ wire'.pad[x] = wire.pad[x]
                      \/ wire.owner[x] # "wire" /\ wire'.owner[x] # "wire"
  BY <1>1, <1>3, <1>4 DEF Sound, Shaped
<1> QED
  BY <1>3, <1>4, <1>5, <1>6, <1>7, PadWell

(* Idle values reach no pin of the wire's.                                 *)
LEMMA IdleWell ==
  ASSUME IInv, NEW c \in IdlePins, idleItem(c)
  PROVE  IInv'
<1>1. Sound(wire) /\ c \in Pins
  BY WireAssumption DEF IInv, Well
<1>2. UNCHANGED <<con, through, item>>
  BY DEF idleItem
<1>3. CASE wire' = wire
  BY <1>1, <1>2, <1>3, StaysWell DEF Ids
<1>4. CASE wire.owner[c] = "none" /\ wire' = [wire EXCEPT !.pad[c] = Rest(c, idling')]
  <2>1. /\ wire'.owner = wire.owner /\ wire'.pad = [wire.pad EXCEPT ![c] = Rest(c, idling')]
        /\ Ids(wire', wire) /\ wire'.at = wire.at /\ wire'.attached = wire.attached
    BY <1>1, <1>4 DEF Sound, Shaped, WireFields, Ids
  <2>2. Shaped(wire')
    BY <1>1, <1>4, <2>1 DEF Sound, Shaped, WireFields, Ids
  <2>3. Timed(wire')
    BY <1>1, <1>4 DEF Sound, Shaped, WireFields, Timed
  <2>4. \A x \in Pins : \/ wire'.owner[x] = wire.owner[x] /\ wire'.pad[x] = wire.pad[x]
                        \/ wire.owner[x] # "wire" /\ wire'.owner[x] # "wire"
    BY <1>1, <1>4, <2>1 DEF Sound, Shaped
  <2> QED
    BY <1>2, <2>1, <2>2, <2>3, <2>4, PadWell
<1> QED
  BY <1>3, <1>4 DEF idleItem

(* Time passes for the wire-loss clock and for the quiet it is judged by.  *)
LEMMA TimeWell ==
  ASSUME IInv, time
  PROVE  IInv'
<1>1. Sound(wire) /\ LostTime \in Nat
  BY WireAssumption DEF IInv, Well
<1>2. wire' = [wire EXCEPT !.age = IF wire.failing THEN Upto(@ + 1) ELSE 0,
                           !.after = Upto(@ + 1),
                           !.quiet = IF wire.after >= 0 THEN Upto(@ + 1) ELSE 0]
      /\ UNCHANGED <<con, through, item>>
  BY DEF time
<1>3. /\ wire'.age = (IF wire.failing THEN Upto(wire.age + 1) ELSE 0)
      /\ wire'.after = Upto(wire.after + 1)
      /\ wire'.quiet = (IF wire.after >= 0 THEN Upto(wire.quiet + 1) ELSE 0)
      /\ wire'.failing = wire.failing
  BY <1>1, <1>2 DEF Sound, Shaped, WireFields
<1>4. Shaped(wire') /\ Ids(wire', wire) /\ wire'.at = wire.at /\ wire'.owner = wire.owner
      /\ wire'.pad = wire.pad /\ wire'.attached = wire.attached
  BY <1>1, <1>2 DEF Sound, Shaped, WireFields, Ids
<1>5. Timed(wire')
  BY <1>1, <1>3 DEF Sound, Timed, Upto
<1>6. Sound(wire')
  BY <1>1, <1>4, <1>5 DEF Sound, Owned, Driven, Ids
<1> QED
  BY <1>2, <1>4, <1>6, StaysWell

(* What a request of the wire or the console makes of it.                  *)
LEMMA RequestWell ==
  ASSUME IInv, wireRequests
  PROVE  IInv'
<1>1. Sound(wire) /\ SoundCon(con) /\ Fits(wire, con)
  BY DEF IInv, Well
<1>2. ASSUME NEW w, Sound(w), Fits(w, con), w.resident <=> wire.resident,
             NEW isLost \in BOOLEAN, wire' = releaseConnection(w, isLost),
             UNCHANGED <<con, through, item>>
      PROVE  IInv'
  <2>1. Sound(wire') /\ Fits(wire', con) /\ (wire'.resident <=> w.resident)
    BY <1>2, ReleasedFits
  <2> QED
    BY <1>1, <1>2, <2>1, BecomesWell DEF IInv, Well
<1>3. CASE refuseForm
  BY <1>1, <1>3, PreludeIs, StaysWell DEF refuseForm, Same
<1>4. CASE \E p \in Pairs : scan(p) \/ attach(p)
  BY <1>4, ScanWell, AttachWell
<1>5. CASE kOpDetach
  <2>1. Sound(Requested) /\ Ids(Requested, wire)
    BY <1>1, HoldChecked DEF Requested
  <2>2. Fits(Requested, con) /\ (Requested.resident <=> wire.resident)
    BY <1>1, <2>1, FitsByIds DEF Ids
  <2> QED
    BY <1>2, <1>5, <2>1, <2>2 DEF kOpDetach, Same
<1>6. CASE dmRequest
  <2>1. PICK w \in {silent(wire), wire} \cup {answered(wire) : p \in answering \cap {wire.at}} :
          wire' = IF lost(w) THEN releaseConnection(w, TRUE) ELSE w
    BY <1>6 DEF dmRequest
  <2>2. Sound(w) /\ Ids(w, wire)
    <3>1. w = silent(wire) \/ w = wire \/ w = answered(wire)
      BY <2>1
    <3>2. Ids(wire, wire)
      BY DEF Ids
    <3> QED
      BY <1>1, <3>1, <3>2, ClockOnly, WireAssumption
  <2>3. Fits(w, con) /\ (w.resident <=> wire.resident) /\ UNCHANGED <<con, through, item>>
    BY <1>1, <1>6, <2>2, FitsByIds DEF Ids, dmRequest, Same
  <2> QED
    BY <1>2, <2>1, <2>2, <2>3, StaysWell
<1>7. CASE uncleanBlock
  <2>1. Sound(silent(wire)) /\ Ids(silent(wire), wire)
    BY <1>1, ClockOnly, WireAssumption
  <2>2. Fits(silent(wire), con) /\ (silent(wire).resident <=> wire.resident)
    BY <1>1, <2>1, FitsByIds DEF Ids
  <2> QED
    BY <1>2, <1>7, <2>1, <2>2 DEF uncleanBlock, Same
<1>8. CASE kOpReset
  BY <1>1, <1>8, ClockOnly, StaysWell, WireAssumption DEF kOpReset, Same
<1>9. CASE kOpOpen
  BY <1>9, OpenWell
<1>10. CASE streamOp
  <2>1. PICK heard \in BOOLEAN : Become(consolePoll(Here, heard))
    BY <1>10 DEF streamOp
  <2>2. Here.w = wire /\ Here.c = con /\ DOMAIN Here = {"w", "c"}
    BY DEF Here
  <2> DEFINE r == consolePoll(Here, heard)
  <2>3. Well(r.w, r.c) /\ r.w.resident = Here.w.resident
    BY <1>1, <2>2, ConsolePolled DEF Well, Sound, Shaped
  <2> HIDE DEF r
  <2> QED
    BY <1>10, <2>1, <2>2, <2>3, BothWell DEF streamOp, Same, r
<1>11. CASE kOpClose
  <2>1. Here.w = wire /\ Here.c = con
    BY DEF Here
  <2> DEFINE r == closeStream(Here)
  <2>2. Well(r.w, r.c) /\ r.w.resident = Here.w.resident
    BY <1>1, <2>1, StreamClosed DEF Fits
  <2> HIDE DEF r
  <2> QED
    BY <1>11, <2>1, <2>2, BothWell DEF kOpClose, Same, r
<1>12. CASE sessionOver
  <2>1. Here.w = wire /\ Here.c = con
    BY DEF Here
  <2> DEFINE r == closeStream(Here)
             v == releaseConnection(r.w, FALSE)
  <2>2. Well(r.w, r.c) /\ r.w.resident = Here.w.resident
    BY <1>1, <2>1, StreamClosed DEF Fits
  <2>3. wire' = v /\ con' = r.c /\ UNCHANGED <<through, item>>
    BY <1>12 DEF sessionOver
  <2> HIDE DEF r
  <2>4. Sound(v) /\ Fits(v, r.c) /\ (v.resident <=> r.w.resident)
    BY <2>2, ReleasedFits DEF Well
  <2> QED
    BY <2>1, <2>2, <2>3, <2>4, BecomesWell DEF IInv, Well
<1>13. CASE sessionOpens
  BY <1>1, <1>13, StaysWell DEF sessionOpens, Ids
<1> QED
  BY <1>3, <1>4, <1>5, <1>6, <1>7, <1>8, <1>9, <1>10, <1>11, <1>12, <1>13 DEF wireRequests

(* What others do of the pins, and time.                                   *)
LEMMA OthersWell ==
  ASSUME IInv, Others
  PROVE  IInv'
<1>1. CASE \E c \in Pins : planTakes(c) \/ planEnds(c)
  BY <1>1, PlanWell
<1>2. CASE \E c \in IdlePins : idleItem(c)
  BY <1>2, IdleWell
<1>3. CASE setHold \/ plug
  BY <1>3, StaysWell DEF setHold, plug, Same, Ids, IInv, Well
<1>4. CASE setPass
  BY <1>4, BecomesWell DEF setPass, IInv
<1>5. CASE time
  BY <1>5, TimeWell
<1> QED
  BY <1>1, <1>2, <1>3, <1>4, <1>5 DEF Others

(* The polls: the console's, with the stream or the pass-through, and the  *)
(* settings' own.                                                          *)
LEMMA PollWell ==
  ASSUME IInv, pollConsole \/ settingsPoll
  PROVE  IInv'
<1>1. Sound(wire) /\ SoundCon(con) /\ Fits(wire, con)
  BY DEF IInv, Well
<1>2. CASE pollConsole
  <2>1. PICK heard \in BOOLEAN : Become(consolePoll(Here, heard))
    BY <1>2 DEF pollConsole
  <2>2. Here.w = wire /\ Here.c = con /\ DOMAIN Here = {"w", "c"}
    BY DEF Here
  <2> DEFINE r == consolePoll(Here, heard)
  <2>3. Well(r.w, r.c) /\ r.w.resident = Here.w.resident
    BY <1>1, <2>2, ConsolePolled DEF Well, Sound, Shaped
  <2> HIDE DEF r
  <2> QED
    BY <1>2, <2>1, <2>2, <2>3, BothWell DEF pollConsole, r
<1>3. CASE settingsPoll
  <2>1. PICK first, heard \in BOOLEAN :
          LET r == runPassthroughs(first, heard) IN
          /\ wire' = checkHold(r.w) /\ con' = r.c
          /\ through' = [on |-> r.on, tried |-> r.tried] /\ item' = item
    BY <1>3 DEF settingsPoll
  <2> DEFINE r == runPassthroughs(first, heard)
  <2>2. Well(r.w, r.c) /\ (r.on <=> r.w.resident)
    BY PassThroughs
  <2>3. /\ wire' = checkHold(r.w) /\ con' = r.c
        /\ through' = [on |-> r.on, tried |-> r.tried] /\ item' = item
    BY <2>1
  <2> HIDE DEF r
  <2>4. Sound(wire') /\ Ids(wire', r.w)
    BY <2>2, <2>3, HoldChecked DEF Well
  <2>5. Well(wire', con')
    BY <2>2, <2>3, <2>4, FitsByIds DEF Well
  <2>6. DOMAIN through' = {"on", "tried"} /\ through'.on = r.on
    BY <2>3
  <2> QED
    BY <2>2, <2>3, <2>4, <2>5, <2>6, BecomesWell DEF Ids, IInv
<1> QED
  BY <1>2, <1>3

(* Nothing is connected, held or open when the probe starts.               *)
LEMMA InitWell == WireInit => IInv
<1> SUFFICES ASSUME WireInit
             PROVE  IInv
  OBVIOUS
<1>1. PICK p \in Pairs :
       wire = [connected |-> FALSE, number |-> 0, resident |-> FALSE,
               holding |-> FALSE, at |-> p, attached |-> FALSE, unseen |-> FALSE,
               failing |-> FALSE, age |-> 0, after |-> LostTime, quiet |-> 0,
               owner |-> [c \in Pins |-> "none"], pad |-> [c \in Pins |-> "free"],
               next |-> 1, live |-> {}]
  BY DEF WireInit
<1>2. con = [open |-> FALSE, number |-> 0, of |-> 0, pass |-> FALSE,
             lost |-> FALSE, passLost |-> FALSE, mixed |-> FALSE]
  BY DEF WireInit
<1>3. p \subseteq Pins /\ LostTime \in Nat
  BY WireAssumption
<1>4. Shaped(wire)
  BY <1>1, <1>3 DEF Shaped, WireFields
<1>5. Timed(wire)
  BY <1>1, <1>3 DEF Timed
<1>6. /\ ~wire.connected /\ ~wire.resident /\ wire.live = {}
      /\ \A c \in Pins : wire.owner[c] # "wire"
  BY <1>1
<1>7. DOMAIN con = ConFields /\ con.number \in Nat /\ ~con.lost /\ ~con.mixed
      /\ ~con.open /\ ~con.pass
  BY <1>2 DEF ConFields
<1>8. Sound(wire)
  BY <1>4, <1>5, <1>6, SoundOff
<1>9. Fits(wire, con)
  BY <1>6, <1>7 DEF Fits, Counted, Apart, Rides, Knows
<1>10. DOMAIN through = {"on", "tried"} /\ (through.on <=> FALSE) /\ item \in Passes \cup {NoPair}
  BY DEF WireInit
<1> QED
  BY <1>6, <1>7, <1>8, <1>9, <1>10 DEF IInv, Well, SoundCon

(* Every step keeps the invariant.                                         *)
LEMMA StepWell == IInv /\ [WireNext]_wireVars => IInv'
<1>1. ASSUME IInv, UNCHANGED wireVars
      PROVE  IInv'
  BY <1>1, StaysWell DEF wireVars, Ids, IInv, Well
<1> QED
  BY <1>1, RequestWell, OthersWell, PollWell DEF WireNext

(* So it always holds.                                                     *)
LEMMA AlwaysWell == WireSpec => []IInv
<1> QED
  BY InitWell, StepWell, PTL DEF WireSpec

-----------------------------------------------------------------------------
(* A live connection has its number, its stream its own, and the pins of   *)
(* its pair, and when it is gone so are they: after any attach, scan,      *)
(* detach, loss, hold or pass-through (OepTarget, OepConsole, OepSettings).*)
THEOREM NothingIsLeaked == WireSpec => []NothingLeaks
<1>1. IInv => NothingLeaks
  BY DEF IInv, Well, Sound, Owned, Driven, Fits, Counted, Rides,
         NothingLeaks, NumbersAreHeld, LiveHoldsItsPins
<1> QED
  BY <1>1, AlwaysWell, PTL

(* What a stream hands on was said on the connection it was opened on      *)
(* (DmConsole::poll, closes seen at the next poll).                        *)
THEOREM StreamHearsItsOwn == WireSpec => []StreamIsItsConnections
<1>1. IInv => StreamIsItsConnections
  BY DEF IInv, Well, SoundCon, StreamIsItsConnections
<1> QED
  BY <1>1, AlwaysWell, PTL

(* A connection that a step ends without a hold, where one is allowed.     *)
Drops == wire.connected /\ ~wire'.connected /\ ~wire'.holding /\ allows(wire)

(* A request that drops a connection it may hold: by then the target was   *)
(* silent for LostTime, or a block operation left it unclean.              *)
LEMMA RequestDrops ==
  ASSUME IInv, wireRequests, Drops
  PROVE  wire.quiet >= LostTime \/ uncleanBlock
<1>1. Sound(wire) /\ SoundCon(con) /\ Fits(wire, con) /\ wire.connected /\ ~wire'.connected
  BY DEF IInv, Well, Drops
<1>2. ASSUME NEW w, Sound(w), w.connected, w.at = wire.at, wire' = releaseConnection(w, FALSE)
      PROVE  FALSE
  <2>1. allows(w)
    BY <1>2 DEF allows, Drops
  <2>2. wire'.holding
    BY <1>2, <2>1, Released
  <2> QED
    BY <2>2 DEF Drops
<1>3. ~refuseForm
  BY <1>1, PreludeIs DEF refuseForm, Ids
<1>4. ~\E p \in Pairs : scan(p) \/ attach(p)
  BY <1>1, PreludeIs, AttachWell DEF scan, Ids
<1>5. ~kOpDetach
  <2>1. Sound(Requested) /\ Ids(Requested, wire) /\ Requested.at = wire.at
    BY <1>1, HoldChecked DEF Requested
  <2> QED
    BY <1>1, <1>2, <2>1 DEF kOpDetach, Ids
<1>6. CASE dmRequest
  <2>1. PICK w \in {silent(wire), wire} \cup {answered(wire) : p \in answering \cap {wire.at}} :
          wire' = IF lost(w) THEN releaseConnection(w, TRUE) ELSE w
    BY <1>6 DEF dmRequest
  <2>2. Sound(w) /\ Ids(w, wire)
    <3>1. w = silent(wire) \/ w = wire \/ w = answered(wire)
      BY <2>1
    <3>2. Ids(wire, wire)
      BY DEF Ids
    <3> QED
      BY <1>1, <3>1, <3>2, ClockOnly, WireAssumption
  <2>3. lost(w)
    BY <1>1, <2>1, <2>2 DEF Ids
  <2>4. w = silent(wire) \/ w = wire
    BY <1>1, <2>3, AnsweredIsNotLost
  <2>5. lost(wire)
    BY <1>1, <2>3, <2>4, LostIsQuiet, WireAssumption
  <2> QED
    BY <1>1, <2>5, LostIsQuiet, WireAssumption
<1>7. ~kOpReset
  BY <1>1, ClockOnly, WireAssumption DEF kOpReset, Ids
<1>8. ~kOpOpen
  BY <1>1, OpenWell
<1>9. CASE streamOp
  <2>1. PICK heard \in BOOLEAN : Become(consolePoll(Here, heard))
    BY <1>9 DEF streamOp
  <2>2. Here.w = wire /\ Here.c = con /\ DOMAIN Here = {"w", "c"}
    BY DEF Here
  <2> DEFINE r == consolePoll(Here, heard)
  <2>3. Here.w.connected /\ ~r.w.connected => Here.w.quiet >= LostTime
    BY <1>1, <2>2, ConsolePolled DEF Well, Sound, Shaped
  <2> HIDE DEF r
  <2> QED
    BY <1>1, <2>1, <2>2, <2>3 DEF Become, r
<1>10. ~kOpClose
  <2>1. Here.w = wire /\ Here.c = con
    BY DEF Here
  <2>2. closeStream(Here).w.connected = wire.connected
    BY <1>1, <2>1, StreamClosed DEF Fits
  <2> QED
    BY <1>1, <2>2 DEF kOpClose, Become
<1>11. ~sessionOver
  <2>1. Here.w = wire /\ Here.c = con
    BY DEF Here
  <2> DEFINE r == closeStream(Here)
  <2>2. Sound(r.w) /\ r.w.connected = wire.connected /\ r.w.at = wire.at
    BY <1>1, <2>1, StreamClosed DEF Fits, Well
  <2>3. sessionOver => wire' = releaseConnection(r.w, FALSE)
    BY DEF sessionOver
  <2> HIDE DEF r
  <2> QED
    BY <1>1, <1>2, <2>2, <2>3
<1>12. ~sessionOpens
  BY <1>1 DEF sessionOpens
<1> QED
  BY <1>3, <1>4, <1>5, <1>6, <1>7, <1>8, <1>9, <1>10, <1>11, <1>12 DEF wireRequests

(* What others do drops no connection.                                     *)
LEMMA OthersKeep ==
  ASSUME IInv, Others \/ UNCHANGED wireVars
  PROVE  wire.connected => wire'.connected
<1>1. Shaped(wire)
  BY DEF IInv, Well, Sound
<1>2. CASE \E c \in Pins : planTakes(c) \/ planEnds(c)
  BY <1>1, <1>2 DEF planTakes, planEnds, Shaped, WireFields
<1>3. CASE \E c \in IdlePins : idleItem(c)
  BY <1>1, <1>3 DEF idleItem, Shaped, WireFields
<1>4. CASE time
  BY <1>1, <1>4 DEF time, Shaped, WireFields
<1>5. CASE wire' = wire
  BY <1>5
<1> QED
  BY <1>2, <1>3, <1>4, <1>5 DEF Others, setHold, setPass, plug, Same, wireVars

(* A poll drops a connection only after LostTime without an answer.        *)
LEMMA PollDrops ==
  ASSUME IInv, pollConsole \/ settingsPoll, Drops
  PROVE  wire.quiet >= LostTime
<1>1. Well(wire, con) /\ wire.connected /\ ~wire'.connected
  BY DEF IInv, Drops
<1>2. CASE pollConsole
  <2>1. PICK heard \in BOOLEAN : Become(consolePoll(Here, heard))
    BY <1>2 DEF pollConsole
  <2>2. Here.w = wire /\ Here.c = con /\ DOMAIN Here = {"w", "c"}
    BY DEF Here
  <2> DEFINE r == consolePoll(Here, heard)
  <2>3. Here.w.connected /\ ~r.w.connected => Here.w.quiet >= LostTime
    BY <1>1, <2>2, ConsolePolled DEF Well, Sound, Shaped
  <2> HIDE DEF r
  <2> QED
    BY <1>1, <2>1, <2>2, <2>3 DEF Become, r
<1>3. CASE settingsPoll
  <2>1. PICK first, heard \in BOOLEAN : wire' = checkHold(runPassthroughs(first, heard).w)
    BY <1>3 DEF settingsPoll
  <2>2. /\ Sound(runPassthroughs(first, heard).w)
        /\ runPassthroughs(first, heard).w.connected
    BY <1>1, PassThroughs DEF Well
  <2>3. Ids(wire', runPassthroughs(first, heard).w)
    BY <2>1, <2>2, HoldChecked
  <2> QED
    BY <1>1, <2>2, <2>3 DEF Ids
<1> QED
  BY <1>2, <1>3

(* A connection that goes without a hold where one is allowed had no       *)
(* answer for LostTime, a reset's excuse apart, or a block operation left  *)
(* the target unclean (WireLoss, releaseConnection).                       *)
THEOREM LossIsSilence == WireSpec => LostMeansSilent
<1>1. ASSUME IInv, [WireNext]_wireVars
      PROVE  [wire.connected /\ ~wire'.connected /\ ~wire'.holding /\ allows(wire) =>
                wire.quiet >= LostTime \/ uncleanBlock]_wireVars
  BY <1>1, RequestDrops, OthersKeep, PollDrops DEF WireNext, Drops
<1>2. WireSpec => [][WireNext]_wireVars
  BY DEF WireSpec
<1> QED
  BY <1>1, <1>2, AlwaysWell, PTL DEF LostMeansSilent

=============================================================================
