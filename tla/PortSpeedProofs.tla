-------------------------- MODULE PortSpeedProofs --------------------------
(***************************************************************************)
(* For any number of ports, rates and limits: what the endpoint says the   *)
(* ports run at is what they run at, only a session's own port is raised,  *)
(* and an answer leaves at the rate it was written at.                     *)
(*                                                                         *)
(* The invariant is the two properties with the types they need: which     *)
(* port the raised one is (so that a revert puts back the right UART) and  *)
(* that a port's answers are a sequence. Every step that changes a rate    *)
(* does so through Runs, with the answers of that port flushed, and every  *)
(* step that ends the session of a raised port asks for the revert.        *)
(***************************************************************************)
EXTENDS PortSpeed, TLAPS

Rates == Bauds \cup {Base}

\* A frame names a rate to try.
FramesKnown(l) ==
  /\ DOMAIN l = Ports
  /\ \A p \in Ports : "asks" \in DOMAIN l[p] /\ l[p].asks \in Rates

\* What the two properties rest on.
Kinds ==
  /\ state \in {"base", "try", "committed"}
  /\ port \in 0 .. N /\ asked \in Rates
  /\ state # "base" => port \in Ports
  /\ DOMAIN baud = Ports /\ DOMAIN tx = Ports
  /\ \A p \in Ports : tx[p] \in Seq(Rates)
  /\ at \in Nat
  /\ term \in Nat /\ locked \in BOOLEAN

Agrees == \A p \in Ports :
  baud[p] = IF state # "base" /\ port = p THEN asked ELSE Base
Owned ==
  state # "base" => (locked /\ raisedBy = term) \/ (reverts /\ at # N + 2)

Core == Kinds /\ Agrees /\ Owned /\ LeavesAtItsSpeed
IInv == Core /\ FramesKnown(line)

\* Each of the answers t has the rate its port runs at (opaque below, so that a
\* lemma with t = tx applies as it stands).
AnswersOK(t) ==
  /\ DOMAIN t = Ports
  /\ \A p \in Ports : t[p] \in Seq(Rates)
  /\ \A p \in Ports : \A i \in DOMAIN t[p] : t[p][i] = baud[p]

\* One answer more, on port p.
Answered(p) == [tx EXCEPT ![p] = Append(@, baud[p])]

\* Every port at the boot speed, as the endpoint says.
AllAtBase ==
  /\ state' = "base" /\ port' \in 0 .. N /\ asked' \in Rates
  /\ DOMAIN baud' = Ports /\ DOMAIN tx' = Ports
  /\ \A p \in Ports : tx'[p] \in Seq(Rates)
  /\ \A p \in Ports : baud'[p] = Base
  /\ LeavesAtItsSpeed'

\* Going back to the boot speed from state s, with the answers t, leaves the
\* types, the agreement and the answers as they should be (speedRevert).
LEMMA RevertKeeps ==
  ASSUME Kinds, Agrees, NEW s \in {"base", "try", "committed"},
         (s = "base") <=> (state = "base"),
         NEW l, NEW t, AnswersOK(t), speedRevert(s, l, t)
  PROVE  AllAtBase
<1> USE DEF AnswersOK, AllAtBase
<1>1. CASE s = "base"
  BY <1>1 DEF speedRevert, Kinds, Agrees, LeavesAtItsSpeed
<1>2. CASE s # "base"
  <2>1. /\ state' = "base" /\ port' = 0 /\ asked' = Base
        /\ baud' = [baud EXCEPT ![port] = Base] /\ tx' = [t EXCEPT ![port] = <<>>]
    BY <1>2 DEF speedRevert, Runs, Flushed
  <2>2. port \in Ports /\ state # "base"
    BY <1>2 DEF Kinds
  <2>3. \A p \in Ports : baud'[p] = Base
    BY <2>1, <2>2 DEF Kinds, Agrees
  <2>4. \A p \in Ports : tx'[p] = IF p = port THEN <<>> ELSE t[p]
    BY <2>1
  <2>5. \A p \in Ports : p # port => baud'[p] = baud[p]
    BY <2>1, <2>2 DEF Kinds
  <2>6. LeavesAtItsSpeed'
    BY <2>4, <2>5 DEF LeavesAtItsSpeed
  <2>7. 0 \in 0 .. N
    BY SpeedAssumption
  <2>8. \A p \in Ports : tx'[p] \in Seq(Rates)
    <3>1. <<>> \in Seq(Rates)
      OBVIOUS
    <3>2. QED
      BY <2>4, <3>1
  <2>9. DOMAIN baud' = Ports /\ DOMAIN tx' = Ports
    BY <2>1 DEF Kinds
  <2>10. QED
    BY <2>1, <2>3, <2>6, <2>7, <2>8, <2>9 DEF Rates
<1>3. QED
  BY <1>1, <1>2

\* An answer more keeps the agreement of the answers (send).
LEMMA AnswerKeeps ==
  ASSUME Kinds, Agrees, LeavesAtItsSpeed, NEW p \in Ports,
         NEW t, t = Answered(p)
  PROVE  AnswersOK(t)
<1> USE DEF AnswersOK, Answered
<1> DEFINE a == baud[p]
<1>1. DOMAIN t = Ports
  BY DEF Kinds
<1>2. baud[p] \in Rates
  BY DEF Kinds, Agrees, Rates
<1>3. a \in Rates
  BY <1>2
<1>4. tx[p] \in Seq(Rates)
  BY DEF Kinds
<1>5. t[p] = Append(tx[p], a)
  BY DEF Kinds
<1> HIDE DEF a
<1>6. t[p] \in Seq(Rates)
  BY <1>3, <1>4, <1>5
<1>7. \A i \in DOMAIN t[p] : t[p][i] = baud[p]
  <2> TAKE i \in DOMAIN t[p]
  <2>1. i \in 1 .. Len(tx[p]) + 1
    BY <1>3, <1>4, <1>5
  <2>2. CASE i = Len(tx[p]) + 1
    BY <1>3, <1>4, <1>5, <2>2 DEF a
  <2>3. CASE i \in 1 .. Len(tx[p])
    <3>1. t[p][i] = tx[p][i] /\ i \in DOMAIN tx[p]
      BY <1>3, <1>4, <1>5, <2>3
    <3>2. QED
      BY <3>1 DEF LeavesAtItsSpeed
  <2>4. QED
    BY <2>1, <2>2, <2>3, <1>4
<1>8. \A q \in Ports : q # p => t[q] = tx[q]
  BY DEF Kinds
<1>9. QED
  BY <1>1, <1>6, <1>7, <1>8 DEF Kinds, LeavesAtItsSpeed

\* The timers keep the invariant: a revert asked for, phase 3, the two limits.
LEMMA PollKeeps ==
  ASSUME Core, speedPoll
  PROVE  Core'
<1> USE DEF Core
<1>1. AnswersOK(tx) /\ state \in {"base", "try", "committed"}
  BY DEF Kinds, LeavesAtItsSpeed, AnswersOK
<1>2. at' \in Nat /\ term' \in Nat /\ locked' \in BOOLEAN
  BY SpeedAssumption DEF speedPoll, Kinds
<1>3. CASE speedRevert(state, line, tx)
  <2>1. AllAtBase
    BY <1>1, <1>3, RevertKeeps
  <2>2. QED
    BY <1>2, <2>1 DEF AllAtBase, Kinds, Agrees, Owned
<1>4. CASE ~reverts /\ reverts' = reverts /\ UNCHANGED <<state, port, asked, baud, tx>>
  BY <1>2, <1>4 DEF speedPoll, Raised, Kinds, Agrees, Owned, LeavesAtItsSpeed
<1>5. QED
  BY <1>3, <1>4 DEF speedPoll, speedFall, Stays

\* A request served: what its answer leaves behind (answered).
LEMMA AnsweredKeeps ==
  ASSUME Core, NEW p \in Ports, NEW f, NEW mine \in BOOLEAN, NEW back \in BOOLEAN,
         NEW d \in {"base", "try", "committed"}, (d = "base") <=> (state = "base"),
         f.asks \in Rates,
         NEW l, NEW t,
         t = Answered(p),
         answered(p, f, mine, back, d, l, t),
         term' \in Nat, locked' \in BOOLEAN, at' = at,
         mine /\ Tries(p, f) => locked' /\ term' = term,
         ~back => state = "base" \/ (locked' /\ term' = term /\ ~reverts)
  PROVE  Core'
<1>0. Kinds /\ Agrees /\ Owned /\ LeavesAtItsSpeed
  BY DEF Core
<1>1. AnswersOK(t)
  BY <1>0, AnswerKeeps
<1>2. CASE mine /\ Tries(p, f)
  <2>1. /\ state' = "try" /\ port' = p /\ asked' = f.asks /\ raisedBy' = term
        /\ baud' = [baud EXCEPT ![p] = f.asks] /\ tx' = [t EXCEPT ![p] = <<>>]
    BY <1>2 DEF answered, Runs, Flushed
  <2>2. state = "base" /\ locked' /\ term' = term
    BY <1>2 DEF Tries
  <2>3. \A q \in Ports : baud'[q] = IF q = p THEN f.asks ELSE Base
    BY <1>0, <2>1, <2>2 DEF Kinds, Agrees
  <2>4. \A q \in Ports : tx'[q] = IF q = p THEN <<>> ELSE t[q]
    BY <1>1, <2>1 DEF AnswersOK
  <2>5. \A q \in Ports : q # p => baud'[q] = baud[q]
    BY <1>0, <2>1 DEF Kinds
  <2>6. LeavesAtItsSpeed'
    BY <1>1, <2>4, <2>5 DEF LeavesAtItsSpeed, AnswersOK
  <2>7. \A q \in Ports : tx'[q] \in Seq(Rates)
    <3>1. <<>> \in Seq(Rates)
      OBVIOUS
    <3>2. QED
      BY <1>1, <2>4, <3>1 DEF AnswersOK
  <2>8. DOMAIN baud' = Ports /\ DOMAIN tx' = Ports
    BY <1>0, <1>1, <2>1 DEF Kinds, AnswersOK
  <2>9. p \in 0 .. N /\ at' \in Nat
    BY <1>0, SpeedAssumption DEF Kinds, Ports
  <2>10. Kinds'
    BY <2>1, <2>2, <2>7, <2>8, <2>9 DEF Kinds
  <2>11. QED
    BY <2>1, <2>2, <2>3, <2>6, <2>10 DEF Agrees, Owned, Core
<1>3. CASE ~(mine /\ Tries(p, f)) /\ speedRevert(d, l, t)
  <2>1. AllAtBase
    BY <1>0, <1>1, <1>3, RevertKeeps
  <2>2. QED
    BY <1>0, <2>1 DEF AllAtBase, Kinds, Agrees, Owned, Core
<1>4. CASE ~(mine /\ Tries(p, f)) /\ ~back /\ Stays(d, l, t) /\ Raised
  <2>1. /\ state' = d /\ tx' = t /\ port' = port /\ asked' = asked /\ baud' = baud
    BY <1>4 DEF Stays
  <2>2. LeavesAtItsSpeed'
    BY <1>1, <2>1 DEF LeavesAtItsSpeed, AnswersOK
  <2>3. Kinds' /\ Agrees'
    BY <1>0, <1>1, <2>1 DEF Kinds, Agrees, AnswersOK
  <2>4. Owned'
    BY <1>0, <1>4, <2>1 DEF Owned, Raised
  <2>5. QED
    BY <2>2, <2>3, <2>4 DEF Core
<1>5. QED
  BY <1>2, <1>3, <1>4 DEF answered

\* A request, whole: its session may have run out, an open or an end may end
\* it, the steps fit the port's state or are refused (handleMessage).
LEMMA HandleKeeps ==
  ASSUME Core, FramesKnown(line), NEW p \in Ports, handleMessage(p)
  PROVE  Core'
<1> DEFINE f == line[p]
           l == [line EXCEPT ![p] = NoFrame]
           t == [tx EXCEPT ![p] = Append(@, baud[p])]
           held(lapses) == locked /\ ~lapses
           mine(lapses) == held(lapses) /\ f.term = term
           opens == f.op = "open" /\ term < MaxTerms
           ends(lapses) == held(lapses) /\ (opens \/ (f.op = "end" /\ mine(lapses)))
           d(lapses) == IF mine(lapses) /\ Commits(p, f) THEN "committed" ELSE state
           back(lapses) == RevertAsked(ends(lapses), lapses)
<1>1. PICK lapses \in {FALSE, locked} :
        /\ term' = (IF opens THEN term + 1 ELSE term)
        /\ locked' = (opens \/ (held(lapses) /\ ~ends(lapses)))
        /\ answered(p, f, mine(lapses), back(lapses), d(lapses), l, t)
  BY DEF handleMessage
<1>2. lapses \in BOOLEAN /\ locked \in BOOLEAN
  BY <1>1 DEF Core, Kinds
<1>3. mine(lapses) \in BOOLEAN /\ back(lapses) \in BOOLEAN
  BY DEF RevertAsked
<1>4. /\ d(lapses) \in {"base", "try", "committed"}
      /\ (d(lapses) = "base") <=> (state = "base")
  BY DEF Core, Kinds, Commits
<1>5. f.asks \in Rates
  BY DEF FramesKnown
<1>6. t = Answered(p)
  BY DEF Answered
<1>7. term' \in Nat /\ locked' \in BOOLEAN /\ at' = at
  <2>1. term' \in Nat
    BY <1>1 DEF Core, Kinds
  <2>2. locked' \in BOOLEAN
    BY <1>1
  <2>3. QED
    BY <2>1, <2>2 DEF handleMessage
<1>8. ASSUME mine(lapses), Tries(p, f) PROVE locked' /\ term' = term
  <2>1. f.op # "open" /\ f.op # "end"
    BY <1>8 DEF Tries
  <2>2. QED
    BY <1>1, <1>8, <2>1
<1>9. ASSUME ~back(lapses) PROVE state = "base" \/ (locked' /\ term' = term /\ ~reverts)
  <2>1. state = "base" \/ (~reverts /\ ~ends(lapses) /\ ~lapses)
    BY <1>9 DEF RevertAsked
  <2>2. state = "base" \/ reverts \/ locked
    BY DEF Core, Owned
  <2>3. ASSUME state # "base" PROVE held(lapses) /\ ~opens
    BY <2>1, <2>2, <2>3
  <2>4. QED
    BY <1>1, <2>1, <2>3
<1> HIDE DEF f, l, t, mine, back, d
<1>10. QED
  BY <1>1, <1>3, <1>4, <1>5, <1>6, <1>7, <1>8, <1>9, AnsweredKeeps

\* The frames on the lines stay known: a rate's change only makes one noise.
LEMMA RevertKnows ==
  ASSUME NEW s, NEW l, NEW t, FramesKnown(l), speedRevert(s, l, t)
  PROVE  FramesKnown(line')
<1>1. CASE s = "base"
  BY <1>1 DEF speedRevert
<1>2. CASE s # "base"
  BY <1>2 DEF speedRevert, Runs, FramesKnown, Rates
<1>3. QED
  BY <1>1, <1>2

\* A port's frame taken off its line (handleMessage, fromRecord, dropped,
\* spill).
LEMMA TakenKnows ==
  ASSUME FramesKnown(line), NEW p \in Ports
  PROVE  FramesKnown([line EXCEPT ![p] = NoFrame])
BY DEF FramesKnown, NoFrame, Rates

\* Every step of the poll and of the line leaves frames that are known.
LEMMA FramesStayKnown ==
  ASSUME FramesKnown(line), [Next]_vars
  PROVE  FramesKnown(line')
<1>1. CASE speedPoll
  <2>1. CASE speedRevert(state, line, tx)
    BY <2>1, RevertKnows
  <2>2. CASE UNCHANGED line
    BY <2>2
  <2>3. QED
    BY <1>1, <2>1, <2>2 DEF speedPoll, speedFall, Stays
<1>2. CASE push \/ UNCHANGED vars \/ \E p \in Ports : Leave(p)
  BY <1>2 DEF push, vars, Leave
<1>3. ASSUME NEW p \in Ports, handleMessage(p) PROVE FramesKnown(line')
  <2> DEFINE l == [line EXCEPT ![p] = NoFrame]
             t == [tx EXCEPT ![p] = Append(@, baud[p])]
  <2>1. FramesKnown(l)
    BY TakenKnows
  <2>2. PICK mine, back, d : answered(p, line[p], mine, back, d, l, t)
    BY <1>3 DEF handleMessage
  <2> HIDE DEF l, t
  <2>3. CASE Runs(p, line[p].asks, l, Flushed(p, t))
    BY <2>1, <2>3 DEF Runs, FramesKnown, Rates
  <2>4. CASE speedRevert(d, l, t)
    BY <2>1, <2>4, RevertKnows
  <2>5. CASE Stays(d, l, t)
    BY <2>1, <2>5 DEF Stays
  <2>6. QED
    BY <2>2, <2>3, <2>4, <2>5 DEF answered
<1>4. ASSUME NEW p \in Ports, fromRecord(p) \/ dropped(p) \/ spill(p)
      PROVE  FramesKnown(line')
  BY <1>4, TakenKnows DEF fromRecord, dropped, spill
<1>5. ASSUME NEW p \in Ports, pass(p) \/ Whole(p) PROVE FramesKnown(line')
  BY <1>5 DEF pass, Whole, FramesKnown
<1>6. CASE Tick
  BY <1>6 DEF Tick, FramesKnown
<1>7. ASSUME NEW p \in Ports, Begin(p) PROVE FramesKnown(line')
  <2>1. PICK op \in Ops, b \in Bauds \cup {Base} :
          line' = [line EXCEPT ![p] =
            [NoFrame EXCEPT !.op = op, !.asks = b, !.whole = p \notin Bridges,
               !.term = IF op \in {"end", "try", "commit", "revert"} THEN term ELSE 0]]
    BY <1>7, Zenon DEF Begin
  <2> DEFINE r == [NoFrame EXCEPT !.op = op, !.asks = b, !.whole = p \notin Bridges,
               !.term = IF op \in {"end", "try", "commit", "revert"} THEN term ELSE 0]
  <2>2. "asks" \in DOMAIN r /\ r.asks = b
    BY DEF NoFrame
  <2>3. line' = [line EXCEPT ![p] = r]
    BY <2>1
  <2> HIDE DEF r
  <2>4. QED
    BY <2>2, <2>3 DEF FramesKnown, Rates
<1>8. QED
  BY <1>1, <1>2, <1>3, <1>4, <1>5, <1>6, <1>7 DEF Next, Poll, Serve

\* The answers are of their ports' rates after a resend's answer, and after one
\* has left.
LEMMA LineKeeps ==
  ASSUME Core, FramesKnown(line), NEW p \in Ports, fromRecord(p) \/ Leave(p)
  PROVE  Core'
<1>1. CASE fromRecord(p)
  <2>1. tx' = Answered(p)
    BY <1>1 DEF fromRecord, Answered
  <2>2. AnswersOK(tx')
    BY <2>1, AnswerKeeps DEF Core
  <2>3. UNCHANGED <<state, port, asked, baud, at, term, raisedBy>>
    BY <1>1 DEF fromRecord
  <2>4. LeavesAtItsSpeed'
    BY <2>2, <2>3 DEF AnswersOK, LeavesAtItsSpeed
  <2>5. locked' \in BOOLEAN
    BY <1>1 DEF fromRecord, lapse, Core, Kinds
  <2>6. Kinds' /\ Agrees'
    BY <2>2, <2>3, <2>5 DEF AnswersOK, Core, Kinds, Agrees
  <2>7. Owned'
    <3>1. UNCHANGED <<locked, reverts>> \/ reverts' = RevertAsked(FALSE, TRUE)
      BY <1>1 DEF fromRecord, lapse
    <3>2. CASE UNCHANGED <<locked, reverts>>
      BY <2>3, <3>2 DEF Core, Owned
    <3>3. CASE reverts' = RevertAsked(FALSE, TRUE)
      <4>1. at \in 1 .. N /\ at # N + 2
        BY <1>1, SpeedAssumption DEF fromRecord, Ports
      <4>2. state # "base" => reverts'
        BY <3>3, Zenon DEF RevertAsked
      <4>3. QED
        BY <2>3, <4>1, <4>2 DEF Owned
    <3>4. QED
      BY <3>1, <3>2, <3>3
  <2>8. QED
    BY <2>4, <2>6, <2>7 DEF Core
<1>2. CASE Leave(p)
  <2>1. /\ tx[p] # <<>> /\ tx' = [tx EXCEPT ![p] = Tail(@)]
        /\ UNCHANGED <<speedVars, locked, line, at, term>>
    BY <1>2 DEF Leave
  <2>2. tx[p] \in Seq(Rates) /\ DOMAIN tx = Ports
    BY DEF Core, Kinds
  <2>3. tx'[p] = Tail(tx[p]) /\ \A q \in Ports : q # p => tx'[q] = tx[q]
    BY <2>1, <2>2
  <2>4. tx'[p] \in Seq(Rates)
    BY <2>1, <2>2, <2>3
  <2>5. \A i \in DOMAIN tx'[p] : tx'[p][i] = tx[p][i + 1] /\ i + 1 \in DOMAIN tx[p]
    BY <2>1, <2>2, <2>3
  <2>6. LeavesAtItsSpeed'
    BY <2>1, <2>3, <2>5 DEF LeavesAtItsSpeed, Core, speedVars
  <2>7. QED
    BY <2>1, <2>3, <2>4, <2>6 DEF Core, Kinds, Agrees, Owned, speedVars
<1>3. QED
  BY <1>1, <1>2

\* The invariant holds throughout.
LEMMA Inductive == Spec => []IInv
<1>1. Init => IInv
  <2> SUFFICES ASSUME Init PROVE IInv
    OBVIOUS
  <2>1. Kinds
    <3>1. <<>> \in Seq(Rates)
      OBVIOUS
    <3>2. 0 \in 0 .. N /\ 1 \in Nat /\ 0 \in Nat
      BY SpeedAssumption
    <3>3. /\ state \in {"base", "try", "committed"} /\ ~(state # "base")
          /\ port \in 0 .. N /\ asked \in Rates /\ at \in Nat /\ term \in Nat
          /\ locked \in BOOLEAN
      BY <3>2 DEF Init, Rates
    <3>4. /\ DOMAIN baud = Ports /\ DOMAIN tx = Ports
          /\ \A p \in Ports : tx[p] \in Seq(Rates)
      BY <3>1 DEF Init
    <3>5. QED
      BY <3>3, <3>4 DEF Kinds
  <2>2. Agrees /\ Owned /\ LeavesAtItsSpeed
    BY DEF Init, Agrees, Owned, LeavesAtItsSpeed
  <2>3. FramesKnown(line)
    BY DEF Init, FramesKnown, NoFrame, Rates
  <2>4. QED
    BY <2>1, <2>2, <2>3 DEF IInv, Core
<1>2. IInv /\ [Next]_vars => IInv'
  <2> SUFFICES ASSUME Core, FramesKnown(line), [Next]_vars PROVE Core'
    BY FramesStayKnown DEF IInv
  <2>1. CASE speedPoll
    BY <2>1, PollKeeps
  <2>2. CASE push
    <3>1. UNCHANGED <<state, port, asked, baud, tx, term, raisedBy>> /\ at' \in Nat
      BY <2>2, SpeedAssumption DEF push
    <3>2. locked' \in BOOLEAN
      BY <2>2 DEF push, lapse, Core, Kinds
    <3>3. Owned'
      <4>1. at' = N + 3 /\ N + 3 # N + 2 /\ (state # "base" => locked /\ raisedBy = term)
        BY <2>2, SpeedAssumption DEF push, Core, Owned
      <4>2. locked' = locked \/ reverts' = RevertAsked(FALSE, TRUE)
        BY <2>2, Zenon DEF push, lapse
      <4>3. reverts' = RevertAsked(FALSE, TRUE) => (state # "base" => reverts')
        BY Zenon DEF RevertAsked
      <4>4. QED
        BY <3>1, <4>1, <4>2, <4>3 DEF Owned
    <3>4. QED
      BY <3>1, <3>2, <3>3 DEF Core, Kinds, Agrees, LeavesAtItsSpeed
  <2>3. ASSUME NEW p \in Ports, handleMessage(p) PROVE Core'
    BY <2>3, HandleKeeps
  <2>4. ASSUME NEW p \in Ports, fromRecord(p) \/ Leave(p) PROVE Core'
    BY <2>4, LineKeeps
  <2>5. ASSUME NEW p \in Ports,
               dropped(p) \/ spill(p) \/ pass(p) \/ Begin(p) \/ Whole(p)
        PROVE  Core'
    <3>1. /\ UNCHANGED <<state, port, asked, reverts, baud, raisedBy, locked, tx, term>>
          /\ at' = at \/ (at = p /\ at' = at + 1)
      BY <2>5, Zenon DEF dropped, spill, pass, Begin, Whole, speedVars
    <3>2. at' \in Nat /\ (at' # at => at' # N + 2)
      BY <3>1, SpeedAssumption DEF Core, Kinds, Ports
    <3>3. QED
      BY <3>1, <3>2 DEF Core, Kinds, Agrees, Owned, LeavesAtItsSpeed
  <2>6. CASE Tick
    BY <2>6 DEF Tick, Core, Kinds, Agrees, Owned, LeavesAtItsSpeed
  <2>7. CASE UNCHANGED vars
    BY <2>7 DEF vars, speedVars, Core, Kinds, Agrees, Owned, LeavesAtItsSpeed
  <2>8. QED
    BY <2>1, <2>2, <2>3, <2>4, <2>5, <2>6, <2>7 DEF Next, Poll, Serve
<1>3. QED
  BY <1>1, <1>2, PTL DEF Spec

-----------------------------------------------------------------------------

\* What the endpoint says its ports run at is what their UARTs run at, and a
\* raised port is the session's that raised it or its revert is asked for, and
\* no later than that poll's timers it is back: every end of a session
\* (end_session, a force, the lease) asks for it, on any port (sessionEnded,
\* speedRevert).
THEOREM OnlyASessionRaises == Spec => []RaisedBySession
<1>1. IInv => RaisedBySession
  BY DEF IInv, Core, Agrees, Owned, RaisedBySession
<1>2. QED
  BY <1>1, Inductive, PTL

\* No answer leaves at another rate than it was written at: every change of a
\* rate flushes that port's answers first (speedApply, speedRevert).
THEOREM AnswersLeaveAtTheirSpeed == Spec => []LeavesAtItsSpeed
<1>1. IInv => LeavesAtItsSpeed
  BY DEF IInv, Core
<1>2. QED
  BY <1>1, Inductive, PTL
=============================================================================
