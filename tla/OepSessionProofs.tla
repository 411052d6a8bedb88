--------------------------- MODULE OepSessionProofs ---------------------------
(***************************************************************************)
(* For every set of sessions, fns and requests, every size of the resend   *)
(* record, every lease and clock: nothing a session made outlives it, the  *)
(* lock is SessionLock's, nothing runs twice, a session lives by its own   *)
(* new requests, and the record answers what is sent again.                *)
(***************************************************************************)
EXTENDS OepSession, FiniteSetTheorems, WellFoundedInduction, TLAPS

\* The types NothingOutlivesItsSession needs to be preserved.
FnTypes ==
  /\ locked \in BOOLEAN
  /\ subscribed \in [Fns -> Sessions \cup {NoSession}]
  /\ planned \in [Fns -> Sessions \cup {NoSession, Settings}]

HeldInv == FnTypes /\ NothingOutlivesItsSession

heldVars == <<locked, holder, last, subscribed, planned>>

\* A release leaves subscriptions to nobody and plans to the settings only.
LEMMA DroppedType ==
  ASSUME HeldInv
  PROVE  /\ Dropped(subscribed) \in [Fns -> {NoSession}]
         /\ Dropped(planned) \in [Fns -> {NoSession, Settings}]
BY SessionAssumption DEF HeldInv, FnTypes, Dropped

\* When the lease lapses, or does not, the invariant holds of what is left.
LEMMA LapseKeeps == ASSUME HeldInv, lapse PROVE HeldInv'
<1>1. CASE Lapsing
  <2>1. locked' = FALSE /\ subscribed' = Dropped(subscribed) /\ planned' = Dropped(planned)
    BY <1>1 DEF lapse, Lapsing, Live, SubscribedNow, PlannedNow
  <2> QED BY <2>1, DroppedType, SessionAssumption
          DEF HeldInv, FnTypes, NothingOutlivesItsSession
<1>2. CASE ~Lapsing
  <2>1. locked' = locked /\ UNCHANGED <<subscribed, planned, holder, last>>
    BY <1>2 DEF lapse, Lapsing, Live, SubscribedNow, PlannedNow, HeldInv, FnTypes
  <2> QED BY <2>1 DEF HeldInv, FnTypes, NothingOutlivesItsSession
<1> QED BY <1>1, <1>2

\* While the lease lives, nothing has lapsed.
LEMMA LiveNow ==
  ASSUME Live
  PROVE  locked /\ SubscribedNow = subscribed /\ PlannedNow = planned
BY DEF Live, Lapsing, SubscribedNow, PlannedNow

\* A release leaves nothing of the session.
LEMMA ReleaseKeeps ==
  ASSUME HeldInv, Live, releaseLock, UNCHANGED <<holder, last>>
  PROVE  HeldInv'
<1>1. locked' = FALSE /\ subscribed' = Dropped(subscribed) /\ planned' = Dropped(planned)
  BY LiveNow DEF releaseLock
<1> QED BY <1>1, DroppedType, SessionAssumption
        DEF HeldInv, FnTypes, NothingOutlivesItsSession

\* A new session starts with nothing of what an earlier one made.
LEMMA OpenNewKeeps ==
  ASSUME HeldInv, NEW s \in Sessions, NEW m, OpenNew(s, m)
  PROVE  HeldInv'
<1>1. locked' = TRUE /\ holder' = s /\ last' = s
  BY DEF OpenNew
<1>2. /\ \A f \in Fns : subscribed'[f] = NoSession /\ planned'[f] \notin Sessions
      /\ subscribed' \in [Fns -> Sessions \cup {NoSession}]
      /\ planned' \in [Fns -> Sessions \cup {NoSession, Settings}]
  <2>1. CASE Live
    <3>1. subscribed' = Dropped(subscribed) /\ planned' = Dropped(planned)
      BY <2>1, LiveNow DEF OpenNew
    <3> QED BY <3>1, DroppedType, SessionAssumption
  <2>2. CASE Lapsing
    <3>1. subscribed' = Dropped(subscribed) /\ planned' = Dropped(planned)
      BY <2>2 DEF OpenNew, Lapsing, Live, SubscribedNow, PlannedNow
    <3> QED BY <3>1, DroppedType, SessionAssumption
  <2>3. CASE ~Live /\ ~Lapsing
    <3>1. ~locked /\ subscribed' = subscribed /\ planned' = planned
      BY <2>3 DEF OpenNew, Lapsing, Live, SubscribedNow, PlannedNow
    <3> QED BY <3>1 DEF HeldInv, FnTypes, NothingOutlivesItsSession
  <2> QED BY <2>1, <2>2, <2>3
<1> QED BY <1>1, <1>2 DEF HeldInv, FnTypes, NothingOutlivesItsSession

\* What the holder makes is the holder's.
LEMMA RunKeeps ==
  ASSUME HeldInv, NEW s \in Sessions, NEW m \in Requests, Run(s, m)
  PROVE  HeldInv'
<1>1. locked /\ holder = s /\ UNCHANGED <<locked, holder, last>>
  BY DEF Run, Live
<1>2. PICK res : Does(s, m, res)
  BY DEF Run
<1>3. m.fn \in Fns
  BY DEF Requests
<1>4. CASE subscription(s, m)
  BY <1>1, <1>3, <1>4 DEF subscription, HeldInv, FnTypes, NothingOutlivesItsSession
<1>5. CASE planApply(s, m)
  BY <1>1, <1>3, <1>5 DEF planApply, HeldInv, FnTypes, NothingOutlivesItsSession
<1>6. CASE planReleaseRequest(m)
  BY <1>1, <1>3, <1>6, SessionAssumption
     DEF planReleaseRequest, HeldInv, FnTypes, NothingOutlivesItsSession
<1>7. CASE UNCHANGED fnVars
  BY <1>1, <1>7 DEF fnVars, HeldInv, FnTypes, NothingOutlivesItsSession
<1> QED BY <1>2, <1>4, <1>5, <1>6, <1>7 DEF Does

\* A restart forgets the session and all it made.
LEMMA PowerOnKeeps == ASSUME HeldInv, PowerOn PROVE HeldInv'
BY SessionAssumption DEF PowerOn, HeldInv, FnTypes, NothingOutlivesItsSession

\* A plan of the settings is no session's.
LEMMA replacePlanKeeps == ASSUME HeldInv, replacePlan PROVE HeldInv'
BY SessionAssumption DEF replacePlan, lockVars, HeldInv, FnTypes, NothingOutlivesItsSession

\* A step that leaves the lock and the fns alone keeps the invariant.
LEMMA StutterKeeps == ASSUME HeldInv, UNCHANGED heldVars PROVE HeldInv'
BY DEF heldVars, HeldInv, FnTypes, NothingOutlivesItsSession

\* Every step keeps the invariant: one case per action.
LEMMA StepKeeps == ASSUME HeldInv, [Next]_vars PROVE HeldInv'
<1>1. CASE \E s \in Sessions : handleMessage(s)
  <2>1. PICK s \in Sessions, m \in Requests :
          \/ Resent(s, m) \/ ResultLost(s, m) \/ Refused(s, m)
          \/ OpenAgain(s, m) \/ OpenNew(s, m)
          \/ Run(s, m) \/ End(s, m) \/ Restart(s, m)
    BY <1>1 DEF handleMessage
  <2>2. CASE Resent(s, m) \/ ResultLost(s, m) \/ Refused(s, m)
    BY <2>2, LapseKeeps DEF Resent, ResultLost, Refused
  <2>3. CASE OpenAgain(s, m)
    BY <2>3, StutterKeeps DEF OpenAgain, heldVars, fnVars
  <2>4. CASE OpenNew(s, m)  BY <2>4, OpenNewKeeps
  <2>5. CASE Run(s, m)      BY <2>5, RunKeeps
  <2>6. CASE End(s, m)      BY <2>6, ReleaseKeeps DEF End
  <2>7. CASE Restart(s, m)  BY <2>7, PowerOnKeeps DEF Restart
  <2> QED BY <2>1, <2>2, <2>3, <2>4, <2>5, <2>6, <2>7
<1>2. CASE \E s \in Sessions : \/ HostOpen(s) \/ HostRequest(s) \/ HostResend(s)
                               \/ HostReceive(s) \/ Lose(s)
  <2>1. UNCHANGED probeVars
    BY <1>2 DEF HostOpen, HostRequest, HostResend, HostReceive, Lose, Submit
  <2> QED BY <2>1, StutterKeeps DEF probeVars, lockVars, fnVars, heldVars
<1>3. CASE Poll         BY <1>3, LapseKeeps DEF Poll
<1>4. CASE Tick         BY <1>4, StutterKeeps DEF Tick, lockVars, fnVars, heldVars
<1>5. CASE replacePlan  BY <1>5, replacePlanKeeps
<1>6. CASE PowerLoss    BY <1>6, PowerOnKeeps DEF PowerLoss
<1>7. CASE UNCHANGED vars
  BY <1>7, StutterKeeps DEF vars, lockVars, fnVars, heldVars
<1> QED BY <1>1, <1>2, <1>3, <1>4, <1>5, <1>6, <1>7 DEF Next

\* Every subscription and every plan of a session belongs to the session that
\* holds the lock now: end, lapse, force and restart leave nothing behind for
\* the next session (src/src/OepEndpoint.cpp: releaseLock, open).
THEOREM NothingOutlives == Spec => []NothingOutlivesItsSession
<1>1. Init => HeldInv
  <2> SUFFICES ASSUME Init PROVE HeldInv
    OBVIOUS
  <2>1. /\ locked = FALSE
        /\ subscribed = [f \in Fns |-> NoSession]
        /\ planned = [f \in Fns |-> NoSession]
    BY DEF Init
  <2> QED BY <2>1, SessionAssumption DEF HeldInv, FnTypes, NothingOutlivesItsSession
<1>2. HeldInv /\ [Next]_vars => HeldInv'
  BY StepKeeps
<1>3. HeldInv => NothingOutlivesItsSession
  BY DEF HeldInv
<1> QED BY <1>1, <1>2, <1>3, PTL DEF Spec
-----------------------------------------------------------------------------
(* OepSession implements SessionLock: each step is one of the lock's, or     *)
(* leaves what the hosts see of it alone.                                    *)

theLock == IF locked THEN holder ELSE NoSession
theMade == [f \in Fns |-> ({subscribed[f]} \cup {planned[f]}) \ {NoSession, Settings}]

\* What the lock's variables are, in those of OepSession.
LEMMA LockIs == /\ Lock!Nothing = [f \in Fns |-> {}]
                /\ Lock!vars = <<theLock, theMade>>
                /\ Lock!Init <=> (theLock = NoSession /\ theMade = Lock!Nothing)
BY DEF Lock!Nothing, Lock!vars, Lock!Init, theLock, theMade

\* Without a session nothing is made; with one, only by its holder.
LEMMA MadeByHolder ==
  ASSUME HeldInv
  PROVE  /\ ~locked => theMade = Lock!Nothing
         /\ locked => theLock \in Sessions /\ theLock = last
         /\ \A f \in Fns : theMade[f] \in SUBSET {holder}
BY LockIs, SessionAssumption DEF HeldInv, FnTypes, NothingOutlivesItsSession, theMade, theLock

\* Giving the lock up is the lock's Release.
LEMMA LetGoMaps ==
  ASSUME HeldInv, HeldInv', ~locked'
  PROVE  Lock!Release \/ UNCHANGED Lock!vars
<1>1. theLock' = NoSession /\ theMade' = Lock!Nothing
  <2>1. theMade' = [f \in Fns |-> {}]
    BY SessionAssumption DEF HeldInv, FnTypes, NothingOutlivesItsSession, theMade
  <2> QED BY <2>1, LockIs DEF theLock
<1>2. CASE locked
  BY <1>1, <1>2, MadeByHolder, SessionAssumption DEF Lock!Release, theLock, theMade
<1>3. CASE ~locked
  BY <1>1, <1>3, MadeByHolder DEF Lock!vars, theLock, theMade
<1> QED BY <1>2, <1>3

\* A step that leaves the lock and the fns alone leaves the hosts' lock alone.
LEMMA StutterMaps ==
  ASSUME UNCHANGED heldVars
  PROVE  UNCHANGED Lock!vars
BY DEF heldVars, Lock!vars

\* A lapse is a Release; without one nothing happens.
LEMMA LapseMaps ==
  ASSUME HeldInv, HeldInv', lapse
  PROVE  Lock!Release \/ UNCHANGED Lock!vars
<1>1. CASE Live
  <2>1. UNCHANGED heldVars
    BY <1>1, LiveNow DEF lapse, Live, heldVars
  <2> QED BY <2>1, StutterMaps
<1>2. CASE ~Live
  BY <1>2, LetGoMaps DEF lapse
<1> QED BY <1>1, <1>2

\* A new open takes the lock, from nobody or by force, with nothing made.
LEMMA OpenNewMaps ==
  ASSUME HeldInv, NEW s \in Sessions, NEW m, OpenNew(s, m)
  PROVE  Lock!Acquire(s)
<1>1. theLock' = s
  BY DEF OpenNew, theLock
<1>2. theLock # s
  <2>1. CASE ~Live /\ ~mine(s)
    BY <2>1, MadeByHolder, SessionAssumption DEF mine, theLock
  <2>2. CASE Live /\ holder # s
    BY <2>2 DEF Live, theLock
  <2> QED BY <2>1, <2>2 DEF OpenNew
<1>3. \A f \in Fns : /\ subscribed'[f] \in {NoSession}
                     /\ planned'[f] \in {NoSession, Settings}
  <2>1. CASE locked
    <3>1. subscribed' = Dropped(subscribed) /\ planned' = Dropped(planned)
      BY <2>1 DEF OpenNew, Lapsing, Live, SubscribedNow, PlannedNow
    <3> QED BY <3>1, DroppedType
  <2>2. CASE ~locked
    <3>1. subscribed' = subscribed /\ planned' = planned
      BY <2>2 DEF OpenNew, Lapsing, Live, SubscribedNow, PlannedNow
    <3> QED BY <3>1, <2>2 DEF HeldInv, FnTypes, NothingOutlivesItsSession
  <2> QED BY <2>1, <2>2
<1>4. theMade' = Lock!Nothing
  <2>1. theMade' = [f \in Fns |-> {}]
    BY <1>3 DEF theMade
  <2> QED BY <2>1, LockIs
<1> QED BY <1>1, <1>2, <1>4 DEF Lock!Acquire, theLock, theMade

\* What becomes of one fn alone, its plan and its subscription the holder's or
\* nobody's, is a Use of it.
LEMMA UseMaps ==
  ASSUME HeldInv, HeldInv', locked, UNCHANGED <<locked, holder, last>>,
         NEW f \in Fns, \A g \in Fns \ {f} : subscribed'[g] = subscribed[g] /\ planned'[g] = planned[g]
  PROVE  Lock!Use(f)
<1>1. theLock = holder /\ theLock' = theLock /\ theLock # NoSession
  BY MadeByHolder, SessionAssumption DEF theLock
<1>2. theMade'[f] = {} \/ theMade'[f] = {holder}
  <2>1. theMade'[f] \in SUBSET {holder'}
    BY SessionAssumption DEF HeldInv, FnTypes, NothingOutlivesItsSession, theMade
  <2> QED BY <2>1
<1>3. \A g \in Fns \ {f} : theMade'[g] = theMade[g]
  BY DEF theMade
<1>4. theMade' = [theMade EXCEPT ![f] = {theLock}] \/ theMade' = [theMade EXCEPT ![f] = {}]
  <2>1. theMade' = [g \in Fns |-> theMade'[g]] /\ theMade = [g \in Fns |-> theMade[g]]
    BY DEF theMade
  <2> HIDE DEF theMade
  <2> QED BY <1>1, <1>2, <1>3, <2>1
<1> QED BY <1>1, <1>4 DEF Lock!Use, theLock, theMade

\* What the holder's request does is done to its fn, or nothing is.
LEMMA RunMaps ==
  ASSUME HeldInv, HeldInv', NEW s \in Sessions, NEW m \in Requests, Run(s, m)
  PROVE  Lock!Next
<1>1. locked /\ UNCHANGED <<locked, holder, last>>
  BY DEF Run, Live
<1>2. m.fn \in Fns
  BY DEF Requests
<1>3. \A g \in Fns \ {m.fn} : subscribed'[g] = subscribed[g] /\ planned'[g] = planned[g]
  <2>1. PICK res : Does(s, m, res)
    BY DEF Run
  <2> QED BY <2>1 DEF Does, subscription, planApply, planReleaseRequest, fnVars,
                      HeldInv, FnTypes
<1>4. Lock!Use(m.fn)
  BY <1>1, <1>2, <1>3, UseMaps
<1> QED BY <1>2, <1>4 DEF Lock!Next

\* The settings' plan takes an fn from the session, or leaves it alone.
LEMMA replacePlanMaps ==
  ASSUME HeldInv, HeldInv', replacePlan
  PROVE  [Lock!Next]_(Lock!vars)
<1>1. PICK f \in SketchFns, who \in {Settings, NoSession} :
        planned' = [planned EXCEPT ![f] = who]
  BY DEF replacePlan
<1>2. UNCHANGED <<locked, holder, last, subscribed>>
  BY DEF replacePlan, lockVars
<1>3. CASE locked
  <2>1. f \in Fns
    BY SessionAssumption
  <2>2. Lock!Use(f)
    BY <1>1, <1>2, <1>3, <2>1, UseMaps DEF HeldInv, FnTypes
  <2> QED BY <2>1, <2>2 DEF Lock!Next
<1>4. CASE ~locked
  BY <1>2, <1>4, LetGoMaps DEF Lock!Next
<1> QED BY <1>3, <1>4

\* Every step is one of the lock's, or none: one case per action.
LEMMA StepMaps == ASSUME HeldInv, HeldInv', [Next]_vars PROVE [Lock!Next]_(Lock!vars)
<1>1. CASE \E s \in Sessions : handleMessage(s)
  <2>1. PICK s \in Sessions, m \in Requests :
          \/ Resent(s, m) \/ ResultLost(s, m) \/ Refused(s, m)
          \/ OpenAgain(s, m) \/ OpenNew(s, m)
          \/ Run(s, m) \/ End(s, m) \/ Restart(s, m)
    BY <1>1 DEF handleMessage
  <2>2. CASE Resent(s, m) \/ ResultLost(s, m) \/ Refused(s, m)
    <3>1. lapse
      BY <2>2 DEF Resent, ResultLost, Refused
    <3> QED BY <3>1, LapseMaps DEF Lock!Next
  <2>3. CASE OpenAgain(s, m)
    BY <2>3, StutterMaps DEF OpenAgain, heldVars, fnVars
  <2>4. CASE OpenNew(s, m)
    BY <2>4, OpenNewMaps DEF Lock!Next
  <2>5. CASE Run(s, m)
    BY <2>5, RunMaps
  <2>6. CASE End(s, m)
    BY <2>6, LetGoMaps DEF End, releaseLock, Lock!Next
  <2>7. CASE Restart(s, m)
    BY <2>7, LetGoMaps DEF Restart, PowerOn, Lock!Next
  <2> QED BY <2>1, <2>2, <2>3, <2>4, <2>5, <2>6, <2>7
<1>2. CASE \E s \in Sessions : \/ HostOpen(s) \/ HostRequest(s) \/ HostResend(s)
                               \/ HostReceive(s) \/ Lose(s)
  <2>1. UNCHANGED probeVars
    BY <1>2 DEF HostOpen, HostRequest, HostResend, HostReceive, Lose, Submit
  <2> QED BY <2>1, StutterMaps DEF probeVars, lockVars, fnVars, heldVars
<1>3. CASE Poll         BY <1>3, LapseMaps DEF Poll, Lock!Next
<1>4. CASE Tick         BY <1>4, StutterMaps DEF Tick, lockVars, fnVars, heldVars
<1>5. CASE replacePlan  BY <1>5, replacePlanMaps
<1>6. CASE PowerLoss    BY <1>6, LetGoMaps DEF PowerLoss, PowerOn, Lock!Next
<1>7. CASE UNCHANGED vars
  BY <1>7, StutterMaps DEF vars, lockVars, fnVars, heldVars
<1> QED BY <1>1, <1>2, <1>3, <1>4, <1>5, <1>6, <1>7 DEF Next

\* The endpoint's lock is SessionLock's, whatever is sent, sent again or lost,
\* however leases lapse and the probe restarts (src/src/OepEndpoint.cpp: open,
\* releaseLock, loseSession, lapse): every step takes the free lock or another's
\* by force, lets it go with all that was made, or makes something for its holder.
THEOREM ImplementsTheLock == Spec => LockSteps
<1>1. Init => HeldInv /\ Lock!Init
  <2> SUFFICES ASSUME Init PROVE HeldInv /\ Lock!Init
    OBVIOUS
  <2>1. /\ locked = FALSE
        /\ subscribed = [f \in Fns |-> NoSession]
        /\ planned = [f \in Fns |-> NoSession]
    BY DEF Init
  <2>2. HeldInv
    BY <2>1, SessionAssumption DEF HeldInv, FnTypes, NothingOutlivesItsSession
  <2> QED BY <2>1, <2>2, MadeByHolder, LockIs DEF theLock
<1>2. HeldInv /\ [Next]_vars => HeldInv'
  BY StepKeeps
<1>3. HeldInv /\ HeldInv' /\ [Next]_vars => [Lock!Next]_(Lock!vars)
  BY StepMaps
<1> QED BY <1>1, <1>2, <1>3, PTL DEF Spec, LockSteps
-----------------------------------------------------------------------------
(* Nothing runs twice.  A request that is not recorded is run only past the  *)
(* newest one; what is to be shown is that its number is then past every     *)
(* number run, although the probe sees numbers modulo Turn and although a    *)
(* new session's record knows nothing of what was run before it.             *)

IsRun(s, n) == ran[s][n] > 0

\* The number n may be run before the request r is: it is not half a turn past
\* it, and not past it at all if r is an open.
MayPrecede(n, r) == n < r.n + Half /\ (r.op \in Opens => n <= r.n)

\* All a host used may be run before what it waits for, which it may send again.
HostOrder(s) ==
  \A r \in waiting[s] : r.n \in sent[s] /\ \A n \in sent[s] : MayPrecede(n, r)

\* What is ahead of a request on its way, or was run, may be run before it.
QueueOrder(s) ==
  /\ \A n \in Numbers : IsRun(s, n) => n \in sent[s]
  /\ \A i \in 1..Len(reqQ[s]) :
       /\ reqQ[s][i].n \in sent[s]
       /\ \A j \in 1..(i - 1) : MayPrecede(reqQ[s][j].n, reqQ[s][i])
       /\ \A n \in Numbers : IsRun(s, n) => MayPrecede(n, reqQ[s][i])

\* N is the newest request's number: nothing past it was run, and it is not half
\* a turn past anything on its way.
NewestIs(s, N) ==
  /\ corr(N) = newest
  /\ \A n \in Numbers : IsRun(s, n) => n <= N
  /\ \A i \in 1..Len(reqQ[s]) : N < reqQ[s][i].n + Half

NewestKnown(s) == last = s => \E N \in sent[s] : NewestIs(s, N)

OnceTypes ==
  /\ last \in Sessions \cup {NoSession}
  /\ sent \in [Sessions -> SUBSET Numbers]
  /\ waiting \in [Sessions -> SUBSET Requests]
  /\ reqQ \in [Sessions -> Seq(Requests)]
  /\ ran \in [Sessions -> [Numbers -> 0..2]]

OnceInv ==
  /\ HeldInv /\ OnceTypes /\ AtMostOnce
  /\ \A s \in Sessions : HostOrder(s) /\ QueueOrder(s) /\ NewestKnown(s)

\* A number and its remainder.
LEMMA Remainder ==
  ASSUME NEW a \in Int, NEW T \in Nat \ {0}
  PROVE  /\ a \div T \in Int /\ a % T \in 0..(T - 1)
         /\ a = T * (a \div T) + (a % T)
OBVIOUS

\* Half a turn, doubled, is a turn.
LEMMA HalfTurn == Turn \in Nat \ {0} /\ Half \in Nat \ {0} /\ Turn = 2 * Half
BY NumberAssumption DEF Half

\* Numbers less than half a turn apart are in the order their remainders show.
LEMMA PastNewest ==
  ASSUME NEW m \in Nat, NEW N \in Nat, N < m + Half,
         (corr(m) - corr(N) - 1) % Turn < Half - 1
  PROVE  N < m
<1> DEFINE a == m % Turn
           b == N % Turn
           c == (a - b - 1) % Turn
<1>1. PICK k \in Int : m = Turn * k + a
  <2>1. m \in Int /\ Turn \in Nat \ {0}
    BY HalfTurn
  <2>2. m \div Turn \in Int /\ m = Turn * (m \div Turn) + a
    BY <2>1, Remainder
  <2> HIDE DEF a
  <2> QED BY <2>2
<1>2. PICK l \in Int : N = Turn * l + b
  <2>1. N \in Int /\ Turn \in Nat \ {0}
    BY HalfTurn
  <2>2. N \div Turn \in Int /\ N = Turn * (N \div Turn) + b
    BY <2>1, Remainder
  <2> HIDE DEF b
  <2> QED BY <2>2
<1>3. a \in Int /\ b \in Int
  BY HalfTurn, Remainder
<1>4. a - b - 1 \in Int
  BY <1>3
<1>5. (a - b - 1) \div Turn \in Int /\ c \in 0..(Turn - 1)
      /\ a - b - 1 = Turn * ((a - b - 1) \div Turn) + c
  BY <1>4, HalfTurn, Remainder
<1>6. PICK j \in Int : a - b - 1 = Turn * j + c
  BY <1>5
<1>7. c < Half - 1 /\ c \in Nat
  BY <1>5, HalfTurn DEF corr
<1> HIDE DEF a, b, c
<1>8. m - N = Turn * (k - l + j) + c + 1
  <2>1. Turn * (k - l + j) = Turn * k - Turn * l + Turn * j
    BY HalfTurn
  <2>2. Turn * k \in Int /\ Turn * l \in Int /\ Turn * j \in Int /\ Turn * (k - l + j) \in Int
    BY HalfTurn
  <2> QED BY <1>1, <1>2, <1>3, <1>6, <1>7, <2>1, <2>2
<1>9. k - l + j >= 0
  <2> SUFFICES ASSUME k - l + j <= -1 PROVE FALSE
    OBVIOUS
  <2>1. Turn * (k - l + j) <= -Turn
    BY HalfTurn
  <2>2. Turn * (k - l + j) \in Int
    BY HalfTurn
  <2> QED BY <1>7, <1>8, <2>1, <2>2, HalfTurn
<1>10. Turn * (k - l + j) >= 0
  BY <1>9, HalfTurn
<1>11. Turn * (k - l + j) \in Int
  BY HalfTurn
<1> QED BY <1>7, <1>8, <1>10, <1>11

\* What is taken off the head of a queue, and put at its end.
LEMMA TailIs ==
  ASSUME NEW R, NEW q \in Seq(R), q # <<>>
  PROVE  /\ Head(q) \in R /\ Head(q) = q[1] /\ Len(q) \in Nat \ {0}
         /\ Tail(q) \in Seq(R) /\ Len(Tail(q)) = Len(q) - 1
         /\ \A i \in 1..Len(Tail(q)) : i + 1 \in 2..Len(q) /\ Tail(q)[i] = q[i + 1]
OBVIOUS

\* What Append leaves of a sequence.
LEMMA AppendIs ==
  ASSUME NEW R, NEW q \in Seq(R), NEW r \in R
  PROVE  /\ Append(q, r) \in Seq(R) /\ Len(q) \in Nat /\ Len(Append(q, r)) = Len(q) + 1
         /\ \A i \in 1..Len(q) : Append(q, r)[i] = q[i]
         /\ Append(q, r)[Len(q) + 1] = r
OBVIOUS

\* A host whose transport, numbers and runs a step leaves alone is as before.
LEMMA HostStays ==
  ASSUME NEW s \in Sessions, HostOrder(s), QueueOrder(s),
         waiting'[s] = waiting[s], sent'[s] = sent[s], reqQ'[s] = reqQ[s], ran'[s] = ran[s]
  PROVE  HostOrder(s)' /\ QueueOrder(s)'
BY DEF HostOrder, QueueOrder, IsRun, MayPrecede

\* The newest stays known while last, newest, what the host used and the runs
\* stay, and the queue stays or loses its head.
LEMMA NewestStays ==
  ASSUME OnceTypes, NEW s \in Sessions, NewestKnown(s),
         last' = s => last = s, newest' = newest, sent'[s] = sent[s], ran'[s] = ran[s],
         reqQ'[s] = reqQ[s] \/ (reqQ[s] # <<>> /\ reqQ'[s] = Tail(reqQ[s]))
  PROVE  NewestKnown(s)'
<1> SUFFICES ASSUME last' = s PROVE \E N \in sent'[s] : NewestIs(s, N)'
  BY DEF NewestKnown
<1>1. PICK N \in sent[s] : NewestIs(s, N)
  BY DEF NewestKnown
<1>2. reqQ[s] \in Seq(Requests)
  BY DEF OnceTypes
<1>3. \A i \in 1..Len(reqQ'[s]) : N < reqQ'[s][i].n + Half
  <2>1. CASE reqQ'[s] = reqQ[s]
    BY <1>1, <2>1 DEF NewestIs
  <2>2. CASE reqQ[s] # <<>> /\ reqQ'[s] = Tail(reqQ[s])
    BY <1>1, <1>2, <2>2, TailIs DEF NewestIs
  <2> QED BY <2>1, <2>2
<1>4. NewestIs(s, N)'
  BY <1>1, <1>3 DEF NewestIs, IsRun
<1> QED BY <1>1, <1>4

\* A request taken from its queue, run or not, leaves the rest in order.
LEMMA TakenInOrder ==
  ASSUME OnceTypes, NEW s \in Sessions, HostOrder(s), QueueOrder(s),
         reqQ[s] # <<>>, reqQ'[s] = Tail(reqQ[s]), waiting'[s] = waiting[s], sent'[s] = sent[s],
         \A n \in Numbers : IsRun(s, n)' => IsRun(s, n) \/ n = Head(reqQ[s]).n
  PROVE  /\ HostOrder(s)' /\ QueueOrder(s)'
         /\ Head(reqQ[s]).n \in sent[s]
         /\ \A i \in 1..Len(reqQ'[s]) : MayPrecede(Head(reqQ[s]).n, reqQ'[s][i])
         /\ \A n \in Numbers : IsRun(s, n) => MayPrecede(n, Head(reqQ[s]))
<1> DEFINE q == reqQ[s]
<1>1. /\ Head(q) = q[1] /\ Len(q) \in Nat \ {0} /\ Len(Tail(q)) = Len(q) - 1
      /\ \A i \in 1..Len(Tail(q)) : i + 1 \in 2..Len(q) /\ Tail(q)[i] = q[i + 1]
  <2>1. q \in Seq(Requests) /\ q # <<>>
    BY DEF OnceTypes
  <2> HIDE DEF q
  <2> QED BY <2>1, TailIs
<1>2. /\ \A n \in Numbers : IsRun(s, n) => n \in sent[s]
      /\ \A i \in 1..Len(q) :
           /\ q[i].n \in sent[s]
           /\ \A j \in 1..(i - 1) : MayPrecede(q[j].n, q[i])
           /\ \A n \in Numbers : IsRun(s, n) => MayPrecede(n, q[i])
  BY DEF QueueOrder
<1>3. HostOrder(s)'
  BY DEF HostOrder, MayPrecede
<1>4. reqQ'[s] = Tail(q)
  OBVIOUS
<1> HIDE DEF q
<1>5. Head(q).n \in sent[s] /\ \A n \in Numbers : IsRun(s, n) => MayPrecede(n, Head(q))
  BY <1>1, <1>2
<1>6. \A i \in 1..Len(Tail(q)) :
        /\ MayPrecede(q[1].n, q[i + 1]) /\ q[i + 1].n \in sent[s]
        /\ \A j \in 1..(i - 1) : MayPrecede(q[j + 1].n, q[i + 1])
  <2> TAKE i \in 1..Len(Tail(q))
  <2>1. i + 1 \in 1..Len(q) /\ 1 \in 1..((i + 1) - 1)
    BY <1>1
  <2>2. \A j \in 1..(i - 1) : j + 1 \in 1..((i + 1) - 1)
    BY <1>1
  <2> QED BY <1>2, <2>1, <2>2
<1>7. QueueOrder(s)'
  <2>1. \A n \in Numbers : IsRun(s, n)' => n \in sent'[s]
    BY <1>2, <1>5 DEF q
  <2>2. \A i \in 1..Len(Tail(q)) : \A j \in 1..(i - 1) :
          j \in 1..Len(Tail(q)) /\ Tail(q)[j] = q[j + 1]
    BY <1>1
  <2>3. \A i \in 1..Len(Tail(q)) : \A n \in Numbers :
          IsRun(s, n)' => MayPrecede(n, q[i + 1])
    <3> TAKE i \in 1..Len(Tail(q))
    <3>1. i + 1 \in 1..Len(q)
      BY <1>1
    <3> QED BY <1>1, <1>2, <1>6, <3>1 DEF q
  <2> QED BY <1>1, <1>4, <1>6, <2>1, <2>2, <2>3 DEF QueueOrder, MayPrecede
<1> QED BY <1>1, <1>3, <1>4, <1>5, <1>6, <1>7 DEF q

\* A request a host waits for, put behind what is on its way, is in order there.
LEMMA PutInOrder ==
  ASSUME OnceTypes, NEW s \in Sessions, HostOrder(s)', QueueOrder(s), NewestKnown(s),
         NEW r \in Requests, r \in waiting'[s], sent[s] \subseteq sent'[s], sent'[s] \subseteq Numbers,
         reqQ'[s] = Append(reqQ[s], r), ran'[s] = ran[s], UNCHANGED <<last, newest>>
  PROVE  QueueOrder(s)' /\ NewestKnown(s)'
<1> DEFINE q == reqQ[s]
<1>1. /\ Len(q) \in Nat /\ Len(Append(q, r)) = Len(q) + 1
      /\ \A i \in 1..Len(q) : Append(q, r)[i] = q[i]
      /\ Append(q, r)[Len(q) + 1] = r
  <2>1. q \in Seq(Requests)
    BY DEF OnceTypes
  <2> HIDE DEF q
  <2> QED BY <2>1, AppendIs
<1>2. r.n \in sent'[s] /\ \A n \in sent'[s] : MayPrecede(n, r)
  BY DEF HostOrder, MayPrecede
<1>3. \A i \in 1..Len(q) : q[i].n \in sent[s]
  BY DEF QueueOrder
<1>4. \A n \in Numbers : IsRun(s, n)' <=> IsRun(s, n)
  BY DEF IsRun
<1>5. QueueOrder(s)'
  <2>1. \A n \in Numbers : IsRun(s, n)' => n \in sent'[s]
    BY <1>4 DEF QueueOrder
  <2>2. \A i \in 1..Len(q) :
          /\ q[i].n \in sent'[s]
          /\ \A j \in 1..(i - 1) : MayPrecede(q[j].n, q[i])
          /\ \A n \in Numbers : IsRun(s, n)' => MayPrecede(n, q[i])
    BY <1>4 DEF QueueOrder
  <2>3. reqQ'[s] = Append(q, r)
    OBVIOUS
  <2> HIDE DEF q
  <2> DEFINE p == Append(q, r)
  <2>4. \A i \in 1..(Len(q) + 1) :
          /\ p[i].n \in sent'[s]
          /\ \A j \in 1..(i - 1) : MayPrecede(p[j].n, p[i])
          /\ \A n \in Numbers : IsRun(s, n)' => MayPrecede(n, p[i])
    <3> TAKE i \in 1..(Len(q) + 1)
    <3>1. \A j \in 1..(i - 1) : j \in 1..Len(q) /\ p[j] = q[j] /\ q[j].n \in sent'[s]
      BY <1>1, <2>2
    <3>2. CASE i = Len(q) + 1
      <4>1. p[i] = r
        BY <1>1, <3>2
      <4> HIDE DEF p
      <4> QED BY <1>2, <2>1, <3>1, <4>1
    <3>3. CASE i \in 1..Len(q)
      <4>1. p[i] = q[i]
        BY <1>1, <3>3
      <4> HIDE DEF p
      <4> QED BY <2>2, <3>1, <3>3, <4>1
    <3> QED BY <1>1, <3>2, <3>3
  <2> QED BY <1>1, <2>1, <2>3, <2>4 DEF QueueOrder, MayPrecede
<1>6. NewestKnown(s)'
  <2> SUFFICES ASSUME last' = s PROVE \E N \in sent'[s] : NewestIs(s, N)'
    BY DEF NewestKnown
  <2>1. PICK N \in sent[s] : NewestIs(s, N)
    BY DEF NewestKnown
  <2>2. N < r.n + Half
    BY <1>2 DEF MayPrecede
  <2>3. reqQ'[s] = Append(q, r)
    OBVIOUS
  <2>4. \A i \in 1..Len(q) : N < q[i].n + Half
    BY <2>1 DEF NewestIs
  <2> HIDE DEF q
  <2>5. \A i \in 1..Len(Append(q, r)) : N < Append(q, r)[i].n + Half
    BY <1>1, <2>2, <2>4
  <2>6. NewestIs(s, N)'
    BY <1>4, <2>1, <2>3, <2>5 DEF NewestIs
  <2> QED BY <2>1, <2>6
<1> QED BY <1>5, <1>6

\* A new request of a host that waits for its opens is in its order.
LEMMA SubmitInOrder ==
  ASSUME OpenAlone, OnceTypes, NEW s \in Sessions, HostOrder(s), NEW op \in Ops, NEW f \in Fns,
         NEW n \in NextNumbers(s), Waits(s, op),
         waiting'[s] = waiting[s] \cup {[n |-> n, op |-> op, fn |-> f]},
         sent'[s] = sent[s] \cup {n}
  PROVE  HostOrder(s)'
<1> DEFINE r == [n |-> n, op |-> op, fn |-> f]
<1>1. waiting[s] \subseteq Requests /\ sent[s] \subseteq Numbers /\ Numbers \subseteq Nat
  BY NumberAssumption DEF OnceTypes
<1>2. n \in Numbers /\ \A i \in sent[s] : i < n
  BY DEF NextNumbers
<1>3. \A w \in waiting[s] : n < w.n + Half
  <2> TAKE w \in waiting[s]
  <2>1. w.n \in sent[s] /\ w.n \in Base(s)
    BY DEF HostOrder, Base
  <2> QED BY <2>1 DEF NextNumbers
<1>4. \A w \in waiting[s] : w.op \notin Opens
  BY DEF Waits
<1>5. op \in Opens => waiting[s] = {}
  BY DEF Waits
<1>6. \A w \in waiting[s] : w.n \in sent'[s] /\ \A i \in sent'[s] : MayPrecede(i, w)
  BY <1>3, <1>4 DEF HostOrder, MayPrecede
<1>7. r.n \in sent'[s] /\ \A i \in sent'[s] : MayPrecede(i, r)
  <2>1. r.n = n /\ n \in sent'[s]
    OBVIOUS
  <2>2. \A i \in sent'[s] : i <= n /\ i < n + Half
    <3> TAKE i \in sent'[s]
    <3>1. i \in sent[s] \/ i = n
      OBVIOUS
    <3>2. n \in Nat /\ (i \in sent[s] => i \in Nat /\ i < n)
      BY <1>1, <1>2
    <3> QED BY <3>1, <3>2, HalfTurn
  <2> HIDE DEF r
  <2> QED BY <2>1, <2>2 DEF MayPrecede
<1>8. waiting'[s] = waiting[s] \cup {r}
  OBVIOUS
<1> HIDE DEF r
<1> QED BY <1>6, <1>7, <1>8 DEF HostOrder, MayPrecede

\* An answered request is waited for no more.
LEMMA ReceivedInOrder ==
  ASSUME NEW s \in Sessions, HostOrder(s), waiting'[s] \subseteq waiting[s], sent'[s] = sent[s]
  PROVE  HostOrder(s)'
BY DEF HostOrder, MayPrecede

\* A request judged new, of a session whose record there is, is past all that was run.
LEMMA FreshIsPast ==
  ASSUME OnceTypes, NEW s \in Sessions, QueueOrder(s), NewestKnown(s), last = s,
         reqQ[s] # <<>>, ~OutOfOrder(Head(reqQ[s]))
  PROVE  \A n \in Numbers : IsRun(s, n) => n < Head(reqQ[s]).n
<1> DEFINE m == Head(reqQ[s])
<1>1. m = reqQ[s][1] /\ 1 \in 1..Len(reqQ[s]) /\ m \in Requests
  BY TailIs DEF OnceTypes
<1>2. m.n \in Numbers
  BY <1>1 DEF Requests
<1>3. PICK N \in sent[s] : NewestIs(s, N)
  BY DEF NewestKnown
<1>4. N \in Numbers /\ N \in Nat /\ m.n \in Nat /\ N % Turn # 0
  BY <1>2, NumberAssumption DEF OnceTypes
<1>5. N < m.n + Half
  BY <1>1, <1>3 DEF NewestIs
<1>6. newest = corr(N) /\ newest # 0
  BY <1>3, <1>4 DEF NewestIs, corr
<1> HIDE DEF m
<1>7. ~((corr(m.n) - corr(N) - 1) % Turn >= Half - 1)
  BY <1>6 DEF OutOfOrder, m
<1>8. (corr(m.n) - corr(N) - 1) % Turn < Half - 1
  <2>1. corr(m.n) \in Int /\ corr(N) \in Int
    <3>1. m.n \in Int /\ N \in Int /\ Turn \in Nat \ {0}
      BY <1>4, HalfTurn
    <3>2. m.n % Turn \in 0..(Turn - 1) /\ N % Turn \in 0..(Turn - 1)
      BY <3>1, Remainder
    <3> QED BY <3>1, <3>2 DEF corr
  <2>2. (corr(m.n) - corr(N) - 1) % Turn \in Int
    <3>1. corr(m.n) - corr(N) - 1 \in Int /\ Turn \in Nat \ {0}
      BY <2>1, HalfTurn
    <3>2. (corr(m.n) - corr(N) - 1) % Turn \in 0..(Turn - 1)
      BY <3>1, Remainder
    <3> QED BY <3>2
  <2> QED BY <1>7, <2>2, HalfTurn
<1>9. N < m.n
  BY <1>4, <1>5, <1>8, PastNewest
<1>10. \A n \in Numbers : IsRun(s, n) => n <= N
  BY <1>3 DEF NewestIs
<1>11. \A n \in Numbers : n \in Nat
  BY NumberAssumption
<1>12. \A n \in Numbers : IsRun(s, n) => n < m.n
  BY <1>4, <1>9, <1>10, <1>11
<1> QED BY <1>12 DEF m

\* What the steps that take a request off its queue leave alone: the hosts, and
\* every other queue.
TakeStep(s) ==
  /\ reqQ[s] # <<>> /\ reqQ' = [reqQ EXCEPT ![s] = Tail(@)]
  /\ UNCHANGED <<sent, waiting>>

\* A request taken is counted as run, or is not.
CountStep(s) ==
  \/ ran' = ran
  \/ ran' = [ran EXCEPT ![s][Head(reqQ[s]).n] = IF @ = 0 THEN 1 ELSE 2]

\* What a step that takes a request must show to keep the order: it is run only
\* past all that was run, and the newest of the last session stays, is this
\* request's, or is of no session.
LEMMA TakeStepKeeps ==
  ASSUME OnceInv, NEW s \in Sessions, TakeStep(s), CountStep(s),
         ran' # ran => \A n \in Numbers : IsRun(s, n) => n < Head(reqQ[s]).n,
         \/ UNCHANGED <<last, newest>> /\ ran' = ran
         \/ last' = s /\ newest' = corr(Head(reqQ[s]).n)
            /\ \A n \in Numbers : IsRun(s, n) => n <= Head(reqQ[s]).n
         \/ last' = NoSession
  PROVE  /\ OnceTypes' /\ AtMostOnce'
         /\ \A t \in Sessions : HostOrder(t)' /\ QueueOrder(t)' /\ NewestKnown(t)'
<1> DEFINE m == Head(reqQ[s])
<1>1. /\ OnceTypes /\ AtMostOnce
      /\ \A t \in Sessions : HostOrder(t) /\ QueueOrder(t) /\ NewestKnown(t)
  BY DEF OnceInv
<1>2. /\ reqQ[s] # <<>> /\ reqQ'[s] = Tail(reqQ[s])
      /\ \A t \in Sessions : t # s => reqQ'[t] = reqQ[t]
      /\ \A t \in Sessions : sent'[t] = sent[t] /\ waiting'[t] = waiting[t]
  BY <1>1 DEF TakeStep, OnceTypes
<1>3. m \in Requests /\ m.n \in Numbers /\ Tail(reqQ[s]) \in Seq(Requests)
  <2>1. reqQ[s] \in Seq(Requests)
    BY <1>1 DEF OnceTypes
  <2>2. m \in Requests /\ Tail(reqQ[s]) \in Seq(Requests)
    BY <1>2, <2>1, TailIs
  <2> HIDE DEF m
  <2> QED BY <2>2 DEF Requests
<1>n. PICK k \in Numbers : k = m.n
  BY <1>3
<1>4. /\ \A t \in Sessions : t # s => ran'[t] = ran[t]
      /\ \A n \in Numbers : n # m.n => ran'[s][n] = ran[s][n]
      /\ ran'[s][m.n] \in {ran[s][m.n], IF ran[s][m.n] = 0 THEN 1 ELSE 2}
      /\ ran' # ran => ran'[s][m.n] = IF ran[s][m.n] = 0 THEN 1 ELSE 2
      /\ ran' \in [Sessions -> [Numbers -> 0..2]]
  <2>1. /\ ran \in [Sessions -> [Numbers -> 0..2]]
        /\ ran[s] \in [Numbers -> 0..2] /\ ran[s][m.n] \in 0..2
    BY <1>1, <1>3 DEF OnceTypes
  <2>2. CASE ran' = ran
    BY <2>1, <2>2
  <2>3. CASE ran' = [ran EXCEPT ![s][m.n] = IF @ = 0 THEN 1 ELSE 2]
    <3> HIDE DEF m
    <3> QED BY <1>3, <2>1, <2>3
  <2> QED BY <2>2, <2>3 DEF CountStep
<1>5. last' \in Sessions \cup {NoSession}
  BY <1>1 DEF OnceTypes
<1>6. OnceTypes'
  BY <1>1, <1>2, <1>3, <1>4, <1>5 DEF OnceTypes, TakeStep
<1>7. AtMostOnce'
  <2>1. \A n \in Numbers : ran[s][n] \in 0..2
    BY <1>1 DEF OnceTypes
  <2>2. ran' # ran => ran[s][m.n] = 0
    <3>1. m.n \in Nat /\ ran[s][m.n] \in 0..2
      BY <1>3, <2>1, NumberAssumption
    <3>2. ran' # ran /\ IsRun(s, m.n) => m.n < m.n
      BY <1>3
    <3> HIDE DEF m
    <3> QED BY <3>1, <3>2 DEF IsRun
  <2> QED BY <1>1, <1>3, <1>4, <2>2 DEF AtMostOnce
<1>8. \A n \in Numbers : IsRun(s, n)' => IsRun(s, n) \/ n = m.n
  BY <1>4 DEF IsRun
<1>9. /\ HostOrder(s)' /\ QueueOrder(s)'
      /\ m.n \in sent[s]
      /\ \A i \in 1..Len(reqQ'[s]) : MayPrecede(m.n, reqQ'[s][i])
  BY <1>1, <1>2, <1>8, TakenInOrder
<1>10. \A t \in Sessions : t # s => HostOrder(t)' /\ QueueOrder(t)'
  BY <1>1, <1>2, <1>4, HostStays
<1>11. ASSUME NEW t \in Sessions PROVE NewestKnown(t)'
  <2>1. CASE UNCHANGED <<last, newest>> /\ ran' = ran
    BY <1>1, <1>2, <2>1, NewestStays
  <2>2. CASE /\ last' = s /\ newest' = corr(m.n)
             /\ \A n \in Numbers : IsRun(s, n) => n <= m.n
    <3>1. CASE t # s
      BY <2>2, <3>1 DEF NewestKnown
    <3>2. CASE t = s
      <4>1. m.n \in Nat
        BY <1>3, NumberAssumption
      <4>2. \A n \in Numbers : IsRun(s, n)' => n <= k
        BY <1>8, <1>n, <2>2, <4>1
      <4>3. \A i \in 1..Len(reqQ'[s]) : k < reqQ'[s][i].n + Half
        BY <1>9, <1>n DEF MayPrecede
      <4>4. newest' = corr(k)
        BY <1>n, <2>2
      <4>5. NewestIs(s, k)'
        BY <4>2, <4>3, <4>4 DEF NewestIs, corr
      <4>6. k \in sent'[s]
        BY <1>2, <1>9, <1>n
      <4> QED BY <3>2, <4>5, <4>6 DEF NewestKnown
    <3> QED BY <3>1, <3>2
  <2>3. CASE last' = NoSession
    BY <2>3, SessionAssumption DEF NewestKnown
  <2> QED BY <2>1, <2>2, <2>3
<1> QED BY <1>6, <1>7, <1>9, <1>10, <1>11

\* A message judged new by a session that holds the lock is past all that was run.
LEMMA HeldIsPast ==
  ASSUME OnceInv, NEW s \in Sessions, NEW m, Take(s, m), Fresh(s, m), last = s
  PROVE  \A n \in Numbers : IsRun(s, n) => n < Head(reqQ[s]).n
BY FreshIsPast DEF OnceInv, Take, Fresh, mine

\* Every message handled keeps the order: one case per way out.
LEMMA MessageOnce ==
  ASSUME OnceInv, NEW s \in Sessions, handleMessage(s)
  PROVE  /\ OnceTypes' /\ AtMostOnce'
         /\ \A t \in Sessions : HostOrder(t)' /\ QueueOrder(t)' /\ NewestKnown(t)'
<1>1. PICK m \in Requests :
        \/ Resent(s, m) \/ ResultLost(s, m) \/ Refused(s, m)
        \/ OpenAgain(s, m) \/ OpenNew(s, m)
        \/ Run(s, m) \/ End(s, m) \/ Restart(s, m)
  BY DEF handleMessage
<1>2. reqQ[s] # <<>> /\ m = Head(reqQ[s])
  BY <1>1 DEF Resent, ResentAnswer, ResultLost, Refused, OpenAgain, OpenNew, Run, End, Restart, Take
<1>3. TakeStep(s)
  <2>1. reqQ' = [reqQ EXCEPT ![s] = Tail(@)] /\ UNCHANGED hostVars
    BY <1>1 DEF Resent, ResentAnswer, ResultLost, Refused, OpenAgain, OpenNew, Run, End, Restart, send
  <2> QED BY <1>2, <2>1 DEF TakeStep, hostVars
<1>4. Live /\ holder = s => last = s
  BY DEF OnceInv, HeldInv, NothingOutlivesItsSession, Live
<1>5. Ran(s, m) => CountStep(s)
  BY <1>2 DEF Ran, CountStep
<1>6. last = s /\ recordMine(s, m, "success") => newest' = corr(m.n)
  BY DEF recordMine, mine, record
<1>7. CASE Resent(s, m) \/ ResultLost(s, m)
  <2>1. UNCHANGED <<last, newest, ran>>
    BY <1>7 DEF Resent, ResentAnswer, ResultLost, lapse
  <2> QED BY <1>3, <2>1, TakeStepKeeps DEF CountStep
<1>8. CASE Refused(s, m)
  <2>1. UNCHANGED <<last, ran>> /\ Take(s, m) /\ Fresh(s, m) /\ CountStep(s)
    BY <1>8 DEF Refused, lapse, CountStep
  <2>2. CASE last = s
    <3>1. newest' = corr(m.n)
      BY <1>8, <2>2 DEF Refused, recordMine, mine, record
    <3>2. \A n \in Numbers : IsRun(s, n) => n < Head(reqQ[s]).n
      BY <2>1, <2>2, HeldIsPast
    <3>3. \A n \in Numbers : IsRun(s, n) => n <= Head(reqQ[s]).n
      <4>1. m.n \in Nat /\ \A n \in Numbers : n \in Nat
        BY NumberAssumption DEF Requests
      <4> QED BY <1>2, <3>2, <4>1
    <3> QED BY <1>2, <1>3, <2>1, <2>2, <3>1, <3>3, TakeStepKeeps
  <2>3. CASE last # s
    <3>1. newest' = newest
      BY <1>8, <2>3 DEF Refused, recordMine, mine, tableVars
    <3> QED BY <1>3, <2>1, <3>1, TakeStepKeeps
  <2> QED BY <2>2, <2>3
<1>9. CASE OpenAgain(s, m) \/ Run(s, m) \/ End(s, m)
  <2>1. /\ last = s /\ last' = s /\ Take(s, m) /\ Fresh(s, m) /\ CountStep(s)
    BY <1>4, <1>5, <1>9 DEF OpenAgain, Run, End
  <2>2. newest' = corr(m.n)
    BY <1>9, <2>1 DEF OpenAgain, Run, End, recordMine, mine, record
  <2>3. \A n \in Numbers : IsRun(s, n) => n < Head(reqQ[s]).n
    BY <2>1, HeldIsPast
  <2>4. \A n \in Numbers : IsRun(s, n) => n <= Head(reqQ[s]).n
    <3>1. m.n \in Nat /\ \A n \in Numbers : n \in Nat
      BY NumberAssumption DEF Requests
    <3> QED BY <1>2, <2>3, <3>1
  <2> QED BY <1>2, <1>3, <2>1, <2>2, <2>3, <2>4, TakeStepKeeps
<1>10. CASE OpenNew(s, m)
  <2>1. last' = s /\ newest' = corr(m.n) /\ ran' = ran /\ CountStep(s)
    BY <1>10 DEF OpenNew, record, CountStep
  <2>2. m.op \in Opens
    BY <1>10 DEF OpenNew, Opens
  <2>3. m = reqQ[s][1] /\ 1 \in 1..Len(reqQ[s])
    BY <1>2, TailIs DEF OnceInv, OnceTypes
  <2>4. \A n \in Numbers : IsRun(s, n) => MayPrecede(n, m)
    BY <2>3 DEF OnceInv, QueueOrder
  <2>5. \A n \in Numbers : IsRun(s, n) => n <= Head(reqQ[s]).n
    BY <1>2, <2>2, <2>4 DEF MayPrecede
  <2> QED BY <1>2, <1>3, <2>1, <2>5, TakeStepKeeps
<1>11. CASE Restart(s, m)
  <2>1. last = s /\ last' = NoSession /\ Take(s, m) /\ Fresh(s, m) /\ CountStep(s)
    BY <1>4, <1>5, <1>11 DEF Restart, PowerOn
  <2>2. \A n \in Numbers : IsRun(s, n) => n < Head(reqQ[s]).n
    BY <2>1, HeldIsPast
  <2> QED BY <1>3, <2>1, <2>2, TakeStepKeeps
<1> QED BY <1>1, <1>7, <1>8, <1>9, <1>10, <1>11

\* The hosts and the transports keep it.
LEMMA HostOnce ==
  ASSUME OpenAlone, OnceInv, NEW s \in Sessions,
         HostOpen(s) \/ HostRequest(s) \/ HostResend(s) \/ HostReceive(s) \/ Lose(s)
  PROVE  /\ OnceTypes' /\ AtMostOnce'
         /\ \A t \in Sessions : HostOrder(t)' /\ QueueOrder(t)' /\ NewestKnown(t)'
<1>1. /\ OnceTypes /\ AtMostOnce
      /\ \A t \in Sessions : HostOrder(t) /\ QueueOrder(t) /\ NewestKnown(t)
  BY DEF OnceInv
<1>2. UNCHANGED <<last, newest, ran>>
  BY DEF HostOpen, HostRequest, HostResend, HostReceive, Lose, Submit, probeVars, lockVars, tableVars
<1>3. AtMostOnce'
  BY <1>1, <1>2 DEF AtMostOnce
<1>4. ASSUME /\ \A t \in Sessions : t # s => /\ waiting'[t] = waiting[t] /\ sent'[t] = sent[t]
                                             /\ reqQ'[t] = reqQ[t]
      PROVE  \A t \in Sessions : t # s => HostOrder(t)' /\ QueueOrder(t)' /\ NewestKnown(t)'
  BY <1>1, <1>2, <1>4, HostStays, NewestStays
<1>5. CASE HostOpen(s) \/ HostRequest(s)
  <2>1. PICK op \in Ops, f \in Fns : Submit(s, op, f) /\ Waits(s, op)
    BY <1>5 DEF HostOpen, HostRequest, Waits
  <2>2. PICK n \in NextNumbers(s) :
          /\ waiting' = [waiting EXCEPT ![s] = @ \cup {[n |-> n, op |-> op, fn |-> f]}]
          /\ reqQ' = [reqQ EXCEPT ![s] = Append(@, [n |-> n, op |-> op, fn |-> f])]
          /\ sent' = [sent EXCEPT ![s] = @ \cup {n}]
    BY <2>1 DEF Submit
  <2> DEFINE r == [n |-> n, op |-> op, fn |-> f]
  <2>3. n \in Numbers /\ r \in Requests
    BY DEF NextNumbers, Requests
  <2>4. /\ waiting'[s] = waiting[s] \cup {r} /\ reqQ'[s] = Append(reqQ[s], r)
        /\ sent'[s] = sent[s] \cup {n}
        /\ \A t \in Sessions : t # s => /\ waiting'[t] = waiting[t] /\ sent'[t] = sent[t]
                                        /\ reqQ'[t] = reqQ[t]
    BY <1>1, <2>2 DEF OnceTypes
  <2>5. HostOrder(s)'
    BY <1>1, <2>1, <2>4, SubmitInOrder
  <2>6. OnceTypes'
    <3>1. Append(reqQ[s], r) \in Seq(Requests)
      BY <1>1, <2>3 DEF OnceTypes
    <3> HIDE DEF r
    <3> QED BY <1>1, <1>2, <2>2, <2>3, <3>1 DEF OnceTypes, r
  <2>7. /\ r \in waiting'[s] /\ sent[s] \subseteq sent'[s] /\ sent'[s] \subseteq Numbers
        /\ ran'[s] = ran[s]
    BY <1>1, <1>2, <2>3, <2>4 DEF OnceTypes
  <2>8. QueueOrder(s)' /\ NewestKnown(s)'
    <3> HIDE DEF r
    <3> QED BY <1>1, <1>2, <2>3, <2>4, <2>5, <2>7, PutInOrder
  <2> QED BY <1>3, <1>4, <2>4, <2>5, <2>6, <2>8
<1>6. CASE HostResend(s)
  <2>1. PICK r \in waiting[s] : reqQ' = [reqQ EXCEPT ![s] = Append(@, r)]
    BY <1>6 DEF HostResend
  <2>2. UNCHANGED <<waiting, sent>>
    BY <1>6 DEF HostResend, hostVars
  <2>3. r \in Requests /\ reqQ'[s] = Append(reqQ[s], r)
        /\ \A t \in Sessions : t # s => reqQ'[t] = reqQ[t]
    BY <1>1, <2>1 DEF OnceTypes
  <2>4. HostOrder(s)'
    BY <1>1, <2>2, ReceivedInOrder
  <2>5. OnceTypes'
    BY <1>1, <1>2, <2>1, <2>2, <2>3 DEF OnceTypes
  <2>6. sent'[s] \subseteq Numbers /\ r \in waiting'[s] /\ ran'[s] = ran[s] /\ sent'[s] = sent[s]
    BY <1>1, <1>2, <2>2 DEF OnceTypes
  <2>7. QueueOrder(s)' /\ NewestKnown(s)'
    BY <1>1, <1>2, <2>3, <2>4, <2>6, PutInOrder
  <2> QED BY <1>3, <1>4, <2>2, <2>3, <2>4, <2>5, <2>7
<1>7. CASE HostReceive(s)
  <2>1. /\ \E R : waiting' = [waiting EXCEPT ![s] = @ \ R]
        /\ UNCHANGED <<sent, reqQ>>
    BY <1>7 DEF HostReceive
  <2>2. /\ waiting'[s] \subseteq waiting[s]
        /\ \A t \in Sessions : t # s => waiting'[t] = waiting[t]
        /\ waiting' \in [Sessions -> SUBSET Requests]
    BY <1>1, <2>1 DEF OnceTypes
  <2>3. OnceTypes'
    BY <1>1, <1>2, <2>1, <2>2 DEF OnceTypes
  <2>4. HostOrder(s)'
    BY <1>1, <2>1, <2>2, ReceivedInOrder
  <2>5. QueueOrder(s)' /\ NewestKnown(s)'
    BY <1>1, <1>2, <2>1, NewestStays DEF QueueOrder, IsRun, MayPrecede
  <2> QED BY <1>3, <1>4, <2>1, <2>2, <2>3, <2>4, <2>5
<1>8. CASE Lose(s)
  <2>1. UNCHANGED <<waiting, sent>>
    BY <1>8 DEF Lose, hostVars
  <2>2. CASE reqQ' = reqQ
    BY <1>1, <1>2, <1>3, <2>1, <2>2, HostStays, NewestStays DEF OnceTypes
  <2>3. CASE reqQ[s] # <<>> /\ reqQ' = [reqQ EXCEPT ![s] = Tail(@)]
    <3>1. TakeStep(s) /\ CountStep(s)
      BY <1>2, <2>1, <2>3 DEF TakeStep, CountStep
    <3> QED BY <1>2, <3>1, TakeStepKeeps
  <2> QED BY <1>8, <2>2, <2>3 DEF Lose
<1> QED BY <1>5, <1>6, <1>7, <1>8

\* Every step keeps it.
LEMMA StepOnce == ASSUME OpenAlone, OnceInv, [Next]_vars PROVE OnceInv'
<1>1. HeldInv'
  BY StepKeeps DEF OnceInv
<1>2. CASE \E s \in Sessions : handleMessage(s)
  BY <1>1, <1>2, MessageOnce DEF OnceInv
<1>3. CASE \E s \in Sessions : \/ HostOpen(s) \/ HostRequest(s) \/ HostResend(s)
                               \/ HostReceive(s) \/ Lose(s)
  BY <1>1, <1>3, HostOnce DEF OnceInv
<1>4. ASSUME UNCHANGED <<sent, waiting, reqQ, ran>>,
             UNCHANGED <<last, newest>> \/ last' = NoSession
      PROVE  OnceInv'
  <2>1. /\ OnceTypes /\ AtMostOnce
        /\ \A t \in Sessions : HostOrder(t) /\ QueueOrder(t) /\ NewestKnown(t)
    BY DEF OnceInv
  <2>2. OnceTypes' /\ AtMostOnce'
    BY <1>4, <2>1 DEF OnceTypes, AtMostOnce
  <2>3. \A t \in Sessions : HostOrder(t)' /\ QueueOrder(t)'
    BY <1>4, <2>1, HostStays
  <2>4. \A t \in Sessions : NewestKnown(t)'
    <3>1. CASE UNCHANGED <<last, newest>>
      BY <1>4, <2>1, <3>1, NewestStays
    <3>2. CASE last' = NoSession
      BY <3>2, SessionAssumption DEF NewestKnown
    <3> QED BY <1>4, <3>1, <3>2
  <2> QED BY <1>1, <2>2, <2>3, <2>4 DEF OnceInv
<1>5. CASE Poll
  BY <1>4, <1>5 DEF Poll, lapse, tableVars, hostVars
<1>6. CASE Tick \/ replacePlan
  BY <1>4, <1>6 DEF Tick, replacePlan, lockVars, tableVars, hostVars
<1>7. CASE PowerLoss
  BY <1>4, <1>7 DEF PowerLoss, PowerOn, hostVars
<1>8. CASE UNCHANGED vars
  BY <1>4, <1>8 DEF vars, lockVars, tableVars, hostVars
<1> QED BY <1>2, <1>3, <1>5, <1>6, <1>7, <1>8 DEF Next

\* Nothing is sent, waited for or run at first.
LEMMA InitOnce == Init => OnceInv
<1> SUFFICES ASSUME Init PROVE OnceInv
  OBVIOUS
<1>1. /\ locked = FALSE /\ last = NoSession
      /\ subscribed = [f \in Fns |-> NoSession]
      /\ planned = [f \in Fns |-> NoSession]
  BY DEF Init
<1>2. HeldInv
  BY <1>1, SessionAssumption DEF HeldInv, FnTypes, NothingOutlivesItsSession
<1>3. /\ sent = [s \in Sessions |-> {}] /\ waiting = [s \in Sessions |-> {}]
      /\ reqQ = [s \in Sessions |-> <<>>]
      /\ ran = [s \in Sessions |-> [n \in Numbers |-> 0]]
  BY DEF Init
<1>4. OnceTypes /\ AtMostOnce
  BY <1>1, <1>3 DEF OnceTypes, AtMostOnce
<1>5. \A s \in Sessions : HostOrder(s) /\ QueueOrder(s) /\ NewestKnown(s)
  BY <1>1, <1>3, SessionAssumption DEF HostOrder, QueueOrder, NewestKnown, IsRun
<1> QED BY <1>2, <1>4, <1>5 DEF OnceInv

\* A host that waits for its opens has no request run twice: not by a resend, not
\* over a take-over of its session, a lapse or a restart, and not where its numbers
\* wrap (src/src/OepEndpoint.cpp: handleMessage, "never run twice").
THEOREM NothingRunsTwice == ASSUME OpenAlone PROVE Spec => []AtMostOnce
<1>1. Init => OnceInv
  BY InitOnce
<1>2. OnceInv /\ [Next]_vars => OnceInv'
  BY StepOnce
<1>3. OnceInv => AtMostOnce
  BY DEF OnceInv
<1> QED BY <1>1, <1>2, <1>3, PTL DEF Spec
-----------------------------------------------------------------------------
(* The lease.  Where millis() wraps, it is still the time since the holder   *)
(* was last answered that decides.                                           *)

ClockTypes ==
  /\ now \in 0..(ClockTurn - 1) /\ expires \in 0..(ClockTurn - 1)
  /\ quiet \in 0..QuietCap /\ restarts \in Nat

\* Less than a lease after its last answer, the holder's lease ends what is left
\* of it from now.
LeaseLeft == locked /\ quiet < Lease => expires = (now + Lease - quiet) % ClockTurn

LeaseInv == ClockTypes /\ LeaseLeft

\* The remainder does not see whole turns.
LEMMA WholeTurns ==
  ASSUME NEW a \in Int, NEW T \in Nat \ {0}, NEW k \in Int
  PROVE  (a + T * k) % T = a % T
<1> DEFINE b == a + T * k
           r == a % T
           t == b % T
<1>1. PICK q \in Int : a = T * q + r
  <2>1. a \div T \in Int /\ a = T * (a \div T) + r
    BY Remainder
  <2> HIDE DEF r
  <2> QED BY <2>1
<1>2. b \in Int
  OBVIOUS
<1>3. r \in 0..(T - 1)
  BY Remainder
<1> HIDE DEF b, r
<1>4. PICK p \in Int : b = T * p + t
  <2>1. b \div T \in Int /\ b = T * (b \div T) + t
    BY <1>2, Remainder
  <2> HIDE DEF t
  <2> QED BY <2>1
<1>5. t \in 0..(T - 1)
  BY <1>2, Remainder
<1> HIDE DEF t
<1>6. b = a + T * k
  BY DEF b
<1>7. T * (p - q - k) = r - t
  <2>1. T * (p - q - k) = T * p - T * q - T * k
    OBVIOUS
  <2>2. T * p \in Int /\ T * q \in Int /\ T * k \in Int
    OBVIOUS
  <2> QED BY <1>1, <1>3, <1>4, <1>5, <1>6, <2>1, <2>2
<1>8. p - q - k = 0
  <2>1. p - q - k >= 1 => T * (p - q - k) >= T
    OBVIOUS
  <2>2. p - q - k <= -1 => T * (p - q - k) <= -T
    OBVIOUS
  <2>3. r - t < T /\ r - t > -T
    BY <1>3, <1>5
  <2>4. T * (p - q - k) \in Int /\ p - q - k \in Int
    OBVIOUS
  <2> HIDE DEF b, r, t
  <2> QED BY <1>3, <1>5, <1>7, <2>1, <2>2, <2>3, <2>4
<1>9. r = t
  BY <1>3, <1>5, <1>7, <1>8
<1> QED BY <1>9 DEF r, t, b

\* The clock and the lease, as numbers.
LEMMA ClockIs == /\ ClockTurn \in Nat \ {0} /\ Lease \in Nat \ {0} /\ MaxGap \in Nat /\ MaxOp \in Nat
                 /\ ClockTurn > 2 * Lease /\ QuietCap \in Nat /\ QuietCap >= Lease
BY NumberAssumption DEF QuietCap

\* A remainder taken before a sum changes nothing.
LEMMA InnerRemainder ==
  ASSUME NEW a \in Int, NEW b \in Int, NEW T \in Nat \ {0}
  PROVE  ((a % T) + b) % T = (a + b) % T
<1> DEFINE r == a % T
           c == a + b
<1>1. r \in 0..(T - 1)
  BY Remainder
<1>2. PICK k \in Int : a = T * k + r
  <2>1. a \div T \in Int /\ a = T * (a \div T) + r
    BY Remainder
  <2> HIDE DEF r
  <2> QED BY <2>1
<1> HIDE DEF r
<1>3. r + b = c + T * (-k)
  <2>1. T * (-k) = -(T * k) /\ T * k \in Int
    OBVIOUS
  <2> QED BY <1>1, <1>2, <2>1
<1>4. c \in Int /\ -k \in Int
  OBVIOUS
<1> HIDE DEF c
<1>5. (c + T * (-k)) % T = c % T
  BY <1>4, WholeTurns
<1> QED BY <1>3, <1>5 DEF c, r

\* A number below the turn is its own remainder.
LEMMA SmallRemainder ==
  ASSUME NEW T \in Nat \ {0}, NEW a \in 0..(T - 1)
  PROVE  a % T = a
OBVIOUS

\* A request that completes gives its holder a whole lease.
LEMMA CompletedLease ==
  ASSUME ClockTypes, NEW d \in Nat, Completed(d), UNCHANGED restarts
  PROVE  LeaseInv'
<1> DEFINE a == now + d
<1>1. a \in Int /\ Lease \in Int /\ ClockTurn \in Nat \ {0}
  BY ClockIs DEF ClockTypes
<1>2. now' = a % ClockTurn /\ expires' = (a + Lease) % ClockTurn /\ quiet' = 0
  BY DEF Completed
<1> HIDE DEF a
<1>3. now' \in 0..(ClockTurn - 1) /\ expires' \in 0..(ClockTurn - 1)
  <2>1. a + Lease \in Int
    BY <1>1
  <2> QED BY <1>1, <1>2, <2>1, Remainder
<1>4. expires' = (now' + Lease) % ClockTurn
  BY <1>1, <1>2, InnerRemainder
<1>5. now' + Lease - quiet' = now' + Lease
  BY <1>2, <1>3, ClockIs
<1> QED BY <1>2, <1>3, <1>4, <1>5, ClockIs DEF LeaseInv, ClockTypes, LeaseLeft

\* A tick takes one from the lease.
LEMMA TickLease == ASSUME LeaseInv, Tick PROVE LeaseInv'
<1>1. now \in 0..(ClockTurn - 1) /\ expires \in 0..(ClockTurn - 1) /\ quiet \in 0..QuietCap
  BY DEF LeaseInv, ClockTypes
<1>2. /\ now' = (now + 1) % ClockTurn /\ expires' = expires /\ (locked' <=> locked)
      /\ quiet' = IF quiet < QuietCap THEN quiet + 1 ELSE quiet
      /\ restarts' = restarts
  BY DEF Tick, lockVars
<1>3. now' \in 0..(ClockTurn - 1)
  <2>1. now + 1 \in Int
    BY <1>1, ClockIs
  <2> QED BY <1>2, <2>1, ClockIs, Remainder
<1>4. quiet' \in 0..QuietCap /\ (quiet' < Lease => quiet < Lease /\ quiet' = quiet + 1)
  BY <1>1, <1>2, ClockIs
<1>5. ASSUME locked, quiet' < Lease
      PROVE  expires' = (now' + Lease - quiet') % ClockTurn
  <2>1. expires = (now + Lease - quiet) % ClockTurn
    BY <1>4, <1>5 DEF LeaseInv, LeaseLeft
  <2> DEFINE b == Lease - quiet'
  <2>2. b \in Int /\ now + 1 \in Int /\ ClockTurn \in Nat \ {0}
    BY <1>1, <1>4, ClockIs
  <2>3. now + Lease - quiet = (now + 1) + b /\ now' + Lease - quiet' = now' + b
    BY <1>1, <1>3, <1>4, <1>5, ClockIs
  <2> HIDE DEF b
  <2>4. (((now + 1) % ClockTurn) + b) % ClockTurn = ((now + 1) + b) % ClockTurn
    BY <2>2, InnerRemainder
  <2> QED BY <1>2, <2>1, <2>3, <2>4
<1> QED BY <1>1, <1>2, <1>3, <1>4, <1>5 DEF LeaseInv, ClockTypes, LeaseLeft

\* The lease of a holder answered less than a lease ago is not over.
LEMMA NotExpired == ASSUME LeaseInv, locked, quiet < Lease PROVE ~Expired
<1> DEFINE L == Lease - quiet
<1>1. /\ now \in 0..(ClockTurn - 1) /\ L \in 1..Lease /\ ClockTurn \in Nat \ {0}
      /\ ClockTurn > 2 * L /\ now + L \in Int
  BY ClockIs DEF LeaseInv, ClockTypes
<1>2. expires = (now + L) % ClockTurn
  <2>1. now + Lease - quiet = now + L
    BY ClockIs DEF LeaseInv, ClockTypes
  <2> QED BY <2>1 DEF LeaseInv, LeaseLeft
<1>3. expires \in 0..(ClockTurn - 1)
  BY DEF LeaseInv, ClockTypes
<1> HIDE DEF L
<1>4. PICK k \in Int : now + L = ClockTurn * k + expires
  <2>1. (now + L) \div ClockTurn \in Int /\ now + L = ClockTurn * ((now + L) \div ClockTurn) + expires
    BY <1>1, <1>2, Remainder
  <2> QED BY <2>1
<1> DEFINE x == ClockTurn - L
<1>5. x \in 0..(ClockTurn - 1) /\ x \in Int /\ k - 1 \in Int
  BY <1>1
<1>6. now - expires = x + ClockTurn * (k - 1)
  <2>1. ClockTurn * (k - 1) = ClockTurn * k - ClockTurn /\ ClockTurn * k \in Int
    BY <1>1
  <2> QED BY <1>1, <1>3, <1>4, <2>1
<1>7. ClockTurn \div 2 <= x
  BY <1>1
<1>8. ClockTurn \div 2 \in Int
  BY <1>1
<1> HIDE DEF x
<1>9. (x + ClockTurn * (k - 1)) % ClockTurn = x % ClockTurn
  BY <1>1, <1>5, WholeTurns
<1>10. x % ClockTurn = x
  BY <1>1, <1>5, SmallRemainder
<1> QED BY <1>5, <1>6, <1>7, <1>8, <1>9, <1>10 DEF Expired

\* A step that does not move the clock nor grant a lease leaves it what is left.
LEMMA NoLease ==
  ASSUME LeaseInv, UNCHANGED <<now, quiet, expires, restarts>>, locked' => locked
  PROVE  LeaseInv'
BY DEF LeaseInv, ClockTypes, LeaseLeft

\* Every step keeps what is left of the lease.
LEMMA StepLease == ASSUME LeaseInv, [Next]_vars PROVE LeaseInv'
<1>1. CASE \E s \in Sessions : handleMessage(s)
  <2>1. PICK s \in Sessions, m \in Requests :
          \/ Resent(s, m) \/ ResultLost(s, m) \/ Refused(s, m)
          \/ OpenAgain(s, m) \/ OpenNew(s, m)
          \/ Run(s, m) \/ End(s, m) \/ Restart(s, m)
    BY <1>1 DEF handleMessage
  <2>2. CASE Resent(s, m) \/ ResultLost(s, m) \/ Refused(s, m)
    BY <2>2, NoLease DEF Resent, ResentAnswer, ResultLost, Refused, lapse, Live, NoTime, send
  <2>3. CASE OpenAgain(s, m) \/ OpenNew(s, m)
    BY <2>3, CompletedLease DEF OpenAgain, OpenNew, LeaseInv, send
  <2>4. CASE Run(s, m)
    <3>1. PICK d \in 0..(IF m.op \in Big THEN MaxOp ELSE 0) : Completed(d)
      BY <2>4 DEF Run
    <3>2. d \in Nat
      BY ClockIs
    <3> QED BY <2>4, <3>1, <3>2, CompletedLease DEF LeaseInv, Run, send
  <2>5. CASE End(s, m)
    BY <2>5, NoLease DEF End, releaseLock, NoTime, send
  <2>6. CASE Restart(s, m)
    BY <2>6, ClockIs DEF Restart, PowerOn, LeaseInv, ClockTypes, LeaseLeft
  <2> QED BY <2>1, <2>2, <2>3, <2>4, <2>5, <2>6
<1>2. CASE \E s \in Sessions : \/ HostOpen(s) \/ HostRequest(s) \/ HostResend(s)
                               \/ HostReceive(s) \/ Lose(s)
  <2>1. UNCHANGED probeVars
    BY <1>2 DEF HostOpen, HostRequest, HostResend, HostReceive, Lose, Submit
  <2> QED BY <2>1, NoLease DEF probeVars, lockVars, timeVars
<1>3. CASE Poll
  BY <1>3, NoLease DEF Poll, lapse, Live, NoTime
<1>4. CASE Tick
  BY <1>4, TickLease
<1>5. CASE replacePlan
  BY <1>5, NoLease DEF replacePlan, lockVars, timeVars
<1>6. CASE PowerLoss
  BY <1>6, ClockIs DEF PowerLoss, PowerOn, LeaseInv, ClockTypes, LeaseLeft
<1>7. CASE UNCHANGED vars
  BY <1>7, NoLease DEF vars, lockVars, timeVars
<1> QED BY <1>1, <1>2, <1>3, <1>4, <1>5, <1>6, <1>7 DEF Next

\* Less than a lease after its last answer the holder loses the lock to force, to
\* its own end and to a restart only.
LEMMA LostByForce ==
  ASSUME LeaseInv, OnceTypes, [Next]_vars, locked, quiet < Lease,
         ~(locked' /\ holder' = holder), restarts' = restarts
  PROVE  EndedOrForced
<1>1. Live /\ ~Lapsing
  BY NotExpired DEF Live, Lapsing
<1>2. lapse => locked' /\ holder' = holder
  BY <1>1 DEF lapse
<1>3. ~PowerOn
  BY DEF PowerOn, LeaseInv, ClockTypes
<1>4. CASE \E s \in Sessions : handleMessage(s)
  <2>1. PICK s \in Sessions, m \in Requests :
          \/ Resent(s, m) \/ ResultLost(s, m) \/ Refused(s, m)
          \/ OpenAgain(s, m) \/ OpenNew(s, m)
          \/ Run(s, m) \/ End(s, m) \/ Restart(s, m)
    BY <1>4 DEF handleMessage
  <2>2. OpenNew(s, m) \/ End(s, m)
    BY <1>2, <1>3, <2>1 DEF Resent, ResultLost, Refused, OpenAgain, Run, Restart
  <2>3. reqQ[s] # <<>> /\ reqQ'[s] = Tail(reqQ[s]) /\ m = Head(reqQ[s])
    BY <2>2 DEF OpenNew, End, send, Take, OnceTypes
  <2>4. m.op = "force" \/ (m.op = "end" /\ s = holder)
    BY <1>1, <2>2 DEF OpenNew, End
  <2> QED BY <2>3, <2>4 DEF EndedOrForced
<1>5. CASE \E s \in Sessions : \/ HostOpen(s) \/ HostRequest(s) \/ HostResend(s)
                               \/ HostReceive(s) \/ Lose(s)
  <2>1. UNCHANGED probeVars
    BY <1>5 DEF HostOpen, HostRequest, HostResend, HostReceive, Lose, Submit
  <2> QED BY <2>1 DEF probeVars, lockVars
<1>6. CASE Poll \/ Tick \/ replacePlan \/ PowerLoss \/ UNCHANGED vars
  BY <1>2, <1>3, <1>6 DEF Poll, Tick, replacePlan, PowerLoss, vars, lockVars
<1> QED BY <1>4, <1>5, <1>6 DEF Next

\* The holder's lease starts again only as a request of its is run.
LEMMA RenewedByRun ==
  ASSUME OnceInv, [Next]_vars, locked, locked', holder' = holder, expires' # expires
  PROVE  ran' # ran
<1>1. CASE \E s \in Sessions : handleMessage(s)
  <2>1. PICK s \in Sessions, m \in Requests :
          \/ Resent(s, m) \/ ResultLost(s, m) \/ Refused(s, m)
          \/ OpenAgain(s, m) \/ OpenNew(s, m)
          \/ Run(s, m) \/ End(s, m) \/ Restart(s, m)
    BY <1>1 DEF handleMessage
  <2>2. OpenAgain(s, m) \/ OpenNew(s, m) \/ Run(s, m)
    BY <2>1 DEF Resent, ResultLost, Refused, lapse, End, Restart, PowerOn
  <2>3. ~OpenNew(s, m)
    BY SessionAssumption
       DEF OpenNew, mine, OnceInv, HeldInv, NothingOutlivesItsSession
  <2>4. /\ last = s /\ Take(s, m) /\ Fresh(s, m) /\ Ran(s, m)
    BY <2>2, <2>3 DEF OpenAgain, Run, Live, OnceInv, HeldInv, NothingOutlivesItsSession
  <2>5. \A n \in Numbers : IsRun(s, n) => n < m.n
    BY <2>4, HeldIsPast DEF Take
  <2>6. m.n \in Numbers /\ m.n \in Nat /\ ran[s][m.n] \in 0..2
    BY NumberAssumption DEF Requests, OnceInv, OnceTypes
  <2>7. ran[s][m.n] = 0
    BY <2>5, <2>6 DEF IsRun
  <2>8. ran'[s][m.n] = 1
    BY <2>4, <2>6, <2>7 DEF Ran, OnceInv, OnceTypes
  <2> QED BY <2>7, <2>8
<1>2. CASE \E s \in Sessions : \/ HostOpen(s) \/ HostRequest(s) \/ HostResend(s)
                               \/ HostReceive(s) \/ Lose(s)
  <2>1. UNCHANGED probeVars
    BY <1>2 DEF HostOpen, HostRequest, HostResend, HostReceive, Lose, Submit
  <2> QED BY <2>1 DEF probeVars, lockVars
<1>3. CASE Poll \/ Tick \/ replacePlan \/ PowerLoss \/ UNCHANGED vars
  BY <1>3 DEF Poll, lapse, Tick, replacePlan, PowerLoss, PowerOn, vars, lockVars
<1> QED BY <1>1, <1>2, <1>3 DEF Next

\* A session whose host waits for its opens lives by its new requests: it loses
\* the lock only by force, its end, a restart or a whole lease without an answer,
\* wherever millis() wraps, and answers from the record do not extend it
\* (src/src/OepEndpoint.cpp: lapse, handleMessage, open).
THEOREM SessionsLiveByRequests == ASSUME OpenAlone PROVE Spec => LeaseIsKept
<1>1. Init => OnceInv /\ LeaseInv
  BY InitOnce, ClockIs DEF Init, LeaseInv, ClockTypes, LeaseLeft
<1>2. OnceInv /\ LeaseInv /\ [Next]_vars => OnceInv' /\ LeaseInv'
  BY StepOnce, StepLease
<1>3. OnceInv /\ LeaseInv /\ [Next]_vars =>
        [ locked /\ ~(locked' /\ holder' = holder) =>
            quiet >= Lease \/ restarts' # restarts \/ EndedOrForced ]_vars
  <2> SUFFICES ASSUME OnceInv, LeaseInv, [Next]_vars, locked, ~(locked' /\ holder' = holder),
                      ~(quiet >= Lease), restarts' = restarts
               PROVE  EndedOrForced
    OBVIOUS
  <2>1. quiet < Lease
    BY ClockIs DEF LeaseInv, ClockTypes
  <2> QED BY <2>1, LostByForce DEF OnceInv
<1>4. OnceInv /\ LeaseInv /\ [Next]_vars =>
        [ locked /\ locked' /\ holder' = holder /\ expires' # expires => ran' # ran ]_vars
  BY RenewedByRun
<1> QED BY <1>1, <1>2, <1>3, <1>4, PTL
        DEF Spec, LeaseIsKept, LapseOnlyWhenQuiet, OnlyNewRequestsRenew
-----------------------------------------------------------------------------
(* The resend record.  A host waits for few numbers at a time and goes on from   *)
(* what was answered, so all it has on its way lies within a turn; the record    *)
(* holds the last numbers recorded, and one it has lost was followed by as many  *)
(* others as it has entries.                                                     *)

\* Numbers with one remainder, less than a turn apart, are one number.
LEMMA OneNumber ==
  ASSUME NEW a \in Nat, NEW b \in Nat, corr(a) = corr(b), a < b + Turn, b < a + Turn
  PROVE  a = b
<1> DEFINE r == a % Turn
<1>1. PICK k \in Int : a = Turn * k + r
  <2>1. a \in Int /\ Turn \in Nat \ {0}
    BY HalfTurn
  <2>2. a \div Turn \in Int /\ a = Turn * (a \div Turn) + r
    BY <2>1, Remainder
  <2> HIDE DEF r
  <2> QED BY <2>2
<1>2. PICK l \in Int : b = Turn * l + r
  <2>1. b \in Int /\ Turn \in Nat \ {0}
    BY HalfTurn
  <2>2. b \div Turn \in Int /\ b = Turn * (b \div Turn) + (b % Turn)
    BY <2>1, Remainder
  <2>3. b % Turn = r
    BY DEF corr
  <2> HIDE DEF r
  <2> QED BY <2>2, <2>3
<1>3. r \in Int
  BY HalfTurn, Remainder
<1> HIDE DEF r
<1>4. Turn * (k - l) = a - b /\ Turn * (k - l) \in Int /\ k - l \in Int
  <2>1. Turn * (k - l) = Turn * k - Turn * l /\ Turn * k \in Int /\ Turn * l \in Int
    BY HalfTurn
  <2> QED BY <1>1, <1>2, <1>3, <2>1
<1>5. k - l >= 1 => Turn * (k - l) >= Turn
  BY <1>4, HalfTurn
<1>6. k - l <= -1 => Turn * (k - l) <= -Turn
  BY <1>4, HalfTurn
<1>7. k - l = 0
  BY <1>4, <1>5, <1>6, HalfTurn
<1> QED BY <1>4, <1>7, HalfTurn

\* How far a number is past another, less than a turn, is seen in their remainders.
LEMMA FarIs ==
  ASSUME NEW a \in Nat, NEW b \in Nat, NEW c \in Nat, b + c <= a, a < b + c + Turn
  PROVE  (corr(a) - corr(b) - c) % Turn = a - b - c
<1> DEFINE s == b % Turn
<1>1. PICK l \in Int : b = Turn * l + s
  <2>1. b \in Int /\ Turn \in Nat \ {0}
    BY HalfTurn
  <2>2. b \div Turn \in Int /\ b = Turn * (b \div Turn) + s
    BY <2>1, Remainder
  <2> HIDE DEF s
  <2> QED BY <2>2
<1>2. s \in Int
  BY HalfTurn, Remainder
<1> HIDE DEF s
<1>3. a \in Int /\ -s - c \in Int /\ Turn \in Nat \ {0} /\ l \in Int
  BY <1>2, HalfTurn
<1>4. ((a % Turn) + (-s - c)) % Turn = (a + (-s - c)) % Turn
  BY <1>3, InnerRemainder
<1>5. a + (-s - c) = (a - b - c) + Turn * l /\ a - b - c \in Int
  <2>1. Turn * l \in Int
    BY HalfTurn
  <2> QED BY <1>1, <1>2, <2>1
<1>6. ((a - b - c) + Turn * l) % Turn = (a - b - c) % Turn
  BY <1>3, <1>5, WholeTurns
<1>7. a - b - c \in 0..(Turn - 1)
  BY HalfTurn
<1>8. (a - b - c) % Turn = a - b - c
  BY <1>3, <1>7, SmallRemainder
<1>9. (a % Turn) + (-s - c) = (a % Turn) - s - c
  <2>1. a % Turn \in Int
    BY <1>3, Remainder
  <2> QED BY <1>2, <2>1
<1> QED BY <1>4, <1>5, <1>6, <1>8, <1>9 DEF corr, s

\* A set of numbers below a bound has a greatest one.
LEMMA GreatestNumber ==
  ASSUME NEW S \in SUBSET Nat, S # {}, NEW M \in Nat, \A n \in S : n <= M
  PROVE  \E g \in S : \A n \in S : n <= g
<1> DEFINE U == {u \in Nat : \A n \in S : n <= u}
           R == {ss \in Nat \X Nat : ss[1] < ss[2]}
<1>1. IsWellFoundedOn(R, Nat)
  BY NatLessThanWellFounded DEF OpToRel
<1>2. U \subseteq Nat /\ U # {}
  OBVIOUS
<1>3. PICK u \in U : \A v \in U : ~(<<v, u>> \in R)
  BY <1>1, <1>2, WFMin
<1>4. u \in S
  <2> SUFFICES ASSUME u \notin S PROVE FALSE
    OBVIOUS
  <2>1. \A n \in S : n < u
    BY <1>3
  <2>n. PICK n \in S : TRUE
    OBVIOUS
  <2>2. u # 0
    BY <2>1, <2>n
  <2>3. u - 1 \in U
    BY <1>3, <2>1, <2>2
  <2>4. <<u - 1, u>> \in R
    BY <1>3, <2>2
  <2> QED BY <1>3, <2>3, <2>4
<1> QED BY <1>3, <1>4

\* What a host has on its way: what it waits for, and what is on its queue.
Queued(s) == {reqQ[s][i] : i \in 1..Len(reqQ[s])}
OnWay(s) == waiting[s] \cup Queued(s)
\* The numbers whose answers a host has, and those whose answers are on their way.
Answered(s) == {n \in sent[s] : \A r \in waiting[s] : r.n # n}
Replied(s) == {ansQ[s][i].n : i \in 1..Len(ansQ[s])}
Handled(s) == Answered(s) \cup Replied(s)

\* A number names one request.
OneOf(R) == \A r, q \in R : r.n = q.n => r = q

\* An answer is its request's own, and no number of S or A is too far past it.
AnswerFits(a, S, A) ==
  /\ a.n \in S /\ a.by = a.n /\ a.res # "malformed"
  /\ \A n \in A : n < a.n + Half
  /\ \A n \in S : n < a.n + Turn
AnswersFit(q, S, A) ==
  \A i \in 1..Len(q) : /\ AnswerFits(q[i], S, A)
                       /\ \A j \in 1..(i - 1) : q[j].n < q[i].n + Half

\* What was handled may precede what is queued; nothing used is a turn past it.
RequestsFit(Q, S, H) ==
  \A r \in Q : (\A n \in H : MayPrecede(n, r)) /\ (\A n \in S : n < r.n + Turn)

\* An open on its way is the oldest a host waits for, and nothing is far past it.
OpensFit(W, Q, S) ==
  \A r \in W \cup Q : r.op \in Opens => /\ \A w \in W : r.n <= w.n
                                        /\ \A n \in S : n < r.n + Half

From(n, S) == {i \in S : i >= n}
FewFrom(W, S) == \A r \in W : Cardinality(From(r.n, S)) <= MaxInflight

Pipe(s) ==
  /\ \E M \in Nat : \A n \in sent[s] : n <= M
  /\ OneOf(OnWay(s)) /\ Queued(s) \subseteq Requests
  /\ \A r \in OnWay(s) : r.n \in sent[s]
  /\ AnswersFit(ansQ[s], sent[s], Answered(s))
  /\ RequestsFit(Queued(s), sent[s], Handled(s))
  /\ OpensFit(waiting[s], Queued(s), sent[s])
  /\ FewFrom(waiting[s], sent[s])

\* How many entries were written after entry k, when x is the next to be written.
Later(k, x) == IF k < x THEN x - 1 - k ELSE x - 1 - k + Entries

EntrySet == [used : {TRUE}, corr : Nat, kept : BOOLEAN, op : Ops, fn : Fns, n : Numbers, res : Results]

Between(n, N, S) == {i \in S : n <= i /\ i <= N}

\* An entry is of its own number, no newer than the newest, and of its request.
EntryFits(e, R, S, N) ==
  /\ e.n \in S /\ e.n <= N /\ e.corr = corr(e.n) /\ e.res # "malformed"
  /\ \A r \in R : r.n = e.n => r.op = e.op /\ r.fn = e.fn

\* An entry was followed by others of newer numbers, one for each written since.
TableFits(T, x, R, S, N) ==
  \A k \in Slots : T[k].used =>
    EntryFits(T[k], R, S, N) /\ Cardinality(Between(T[k].n, N, S)) > Later(k, x)

Has(T, n) == \E k \in Slots : T[k].used /\ T[k].n = n

\* The record of s with N its newest number: nothing handled is past it, it is
\* there, and so is all that was run and is waited for.
RecordIs(s, N) ==
  /\ corr(N) = newest
  /\ \A n \in Handled(s) : n <= N
  /\ \A n \in sent[s] : n < N + Half
  /\ \A r \in Queued(s) : N < r.n + Half
  /\ Has(dedup, N)
  /\ TableFits(dedup, dedup_next, OnWay(s), sent[s], N)
  /\ \A r \in waiting[s] : IsRun(s, r.n) /\ r.op \notin Opens => Has(dedup, r.n)

RecordTypes ==
  /\ ansQ \in [Sessions -> Seq(Answers)]
  /\ dedup \in [Slots -> {Unused} \cup EntrySet] /\ dedup_next \in Slots

RecordKnown(s) == last = s => \E N \in sent[s] : RecordIs(s, N)

RecordInv == RecordTypes /\ \A s \in Sessions : Pipe(s) /\ RecordKnown(s)

\* What is queued, when its head is taken and when a request is put behind it.
LEMMA QueuedTail ==
  ASSUME NEW R, NEW q \in Seq(R), q # <<>>
  PROVE  /\ {Tail(q)[i] : i \in 1..Len(Tail(q))} \subseteq {q[i] : i \in 1..Len(q)}
         /\ Head(q) \in {q[i] : i \in 1..Len(q)}
<1>1. /\ Head(q) = q[1] /\ Len(q) \in Nat \ {0} /\ Len(Tail(q)) = Len(q) - 1
      /\ \A i \in 1..Len(Tail(q)) : i + 1 \in 2..Len(q) /\ Tail(q)[i] = q[i + 1]
  BY TailIs
<1>2. 1 \in 1..Len(q) /\ \A i \in 1..Len(Tail(q)) : i + 1 \in 1..Len(q)
  BY <1>1
<1> QED BY <1>1, <1>2

LEMMA QueuedAppend ==
  ASSUME NEW R, NEW q \in Seq(R), NEW r \in R
  PROVE  {Append(q, r)[i] : i \in 1..Len(Append(q, r))} = {q[i] : i \in 1..Len(q)} \cup {r}
<1> DEFINE p == Append(q, r)
<1>1. /\ Len(q) \in Nat /\ Len(p) = Len(q) + 1
      /\ \A i \in 1..Len(q) : p[i] = q[i]
      /\ p[Len(q) + 1] = r
  BY AppendIs
<1> HIDE DEF p
<1>2. 1..Len(p) = (1..Len(q)) \cup {Len(q) + 1}
  BY <1>1
<1>3. ASSUME NEW x PROVE x \in {p[i] : i \in 1..Len(p)} <=> x \in {q[i] : i \in 1..Len(q)} \cup {r}
  BY <1>1, <1>2
<1>4. {p[i] : i \in 1..Len(p)} = {q[i] : i \in 1..Len(q)} \cup {r}
  BY <1>3
<1> QED BY <1>4 DEF p

\* The answers left when the first is taken fit, its number among the answered.
LEMMA AnswersTail ==
  ASSUME NEW q \in Seq(Answers), q # <<>>, NEW S, NEW A, NEW B,
         AnswersFit(q, S, A), B \subseteq A \cup {Head(q).n}
  PROVE  AnswersFit(Tail(q), S, B) /\ AnswerFits(Head(q), S, A)
<1>1. /\ Head(q) = q[1] /\ Len(q) \in Nat \ {0} /\ Len(Tail(q)) = Len(q) - 1
      /\ \A i \in 1..Len(Tail(q)) : i + 1 \in 2..Len(q) /\ Tail(q)[i] = q[i + 1]
  BY TailIs
<1>2. ASSUME NEW i \in 1..Len(Tail(q))
      PROVE  /\ AnswerFits(Tail(q)[i], S, B)
             /\ \A j \in 1..(i - 1) : Tail(q)[j].n < Tail(q)[i].n + Half
  <2>1. i + 1 \in 1..Len(q) /\ Tail(q)[i] = q[i + 1] /\ 1 \in 1..((i + 1) - 1)
    BY <1>1
  <2>2. \A j \in 1..(i - 1) : j \in 1..Len(Tail(q)) /\ j + 1 \in 1..((i + 1) - 1)
    BY <1>1
  <2>3. /\ AnswerFits(q[i + 1], S, A)
        /\ \A j \in 1..((i + 1) - 1) : q[j].n < q[i + 1].n + Half
    BY <2>1 DEF AnswersFit
  <2>4. q[1].n < q[i + 1].n + Half
    BY <2>1, <2>3
  <2>5. \A n \in B : n < q[i + 1].n + Half
    BY <1>1, <2>3, <2>4 DEF AnswerFits
  <2>6. \A j \in 1..(i - 1) : Tail(q)[j] = q[j + 1] /\ q[j + 1].n < q[i + 1].n + Half
    BY <1>1, <2>2, <2>3
  <2> QED BY <2>1, <2>3, <2>5, <2>6 DEF AnswerFits
<1>3. 1 \in 1..Len(q)
  BY <1>1
<1> QED BY <1>1, <1>2, <1>3 DEF AnswersFit

\* An answer put behind those that fit.
LEMMA AnswersAppend ==
  ASSUME NEW q \in Seq(Answers), NEW a \in Answers, NEW S, NEW A,
         AnswersFit(q, S, A), AnswerFits(a, S, A),
         \A n \in {q[i].n : i \in 1..Len(q)} : n < a.n + Half
  PROVE  AnswersFit(Append(q, a), S, A)
<1> DEFINE p == Append(q, a)
<1>1. /\ Len(q) \in Nat /\ Len(p) = Len(q) + 1
      /\ \A i \in 1..Len(q) : p[i] = q[i]
      /\ p[Len(q) + 1] = a
  BY AppendIs
<1> HIDE DEF p
<1>2. ASSUME NEW i \in 1..Len(p)
      PROVE  /\ AnswerFits(p[i], S, A)
             /\ \A j \in 1..(i - 1) : p[j].n < p[i].n + Half
  <2>1. \A j \in 1..(i - 1) : j \in 1..Len(q) /\ p[j] = q[j]
    BY <1>1
  <2>2. CASE i \in 1..Len(q)
    BY <1>1, <2>1, <2>2 DEF AnswersFit
  <2>3. CASE i = Len(q) + 1
    BY <1>1, <2>1, <2>3
  <2> QED BY <1>1, <2>2, <2>3
<1>3. AnswersFit(p, S, A)
  BY <1>2 DEF AnswersFit
<1> QED BY <1>3 DEF p

\* Answers fit with a number more that was used.
LEMMA AnswersMore ==
  ASSUME NEW q, NEW S, NEW A, NEW n, AnswersFit(q, S, A),
         \A i \in 1..Len(q) : n < q[i].n + Turn
  PROVE  AnswersFit(q, S \cup {n}, A)
BY DEF AnswersFit, AnswerFits

\* A host that a step leaves alone is as before.
LEMMA PipeStays ==
  ASSUME NEW s \in Sessions, Pipe(s),
         waiting'[s] = waiting[s], sent'[s] = sent[s], reqQ'[s] = reqQ[s], ansQ'[s] = ansQ[s]
  PROVE  Pipe(s)' /\ Handled(s)' = Handled(s) /\ OnWay(s)' = OnWay(s)
<1>1. /\ Queued(s)' = Queued(s) /\ Answered(s)' = Answered(s) /\ Replied(s)' = Replied(s)
  BY DEF Queued, Answered, Replied
<1>2. Handled(s)' = Handled(s) /\ OnWay(s)' = OnWay(s)
  BY <1>1 DEF Handled, OnWay
<1>3. \A M : (\A n \in sent[s] : n <= M) => (\A n \in sent'[s] : n <= M)
  OBVIOUS
<1>4. AnswersFit(ansQ'[s], sent'[s], Answered(s)')
  BY <1>1 DEF Pipe
<1>5. RequestsFit(Queued(s)', sent'[s], Handled(s)')
  BY <1>1, <1>2 DEF Pipe
<1>6. OpensFit(waiting'[s], Queued(s)', sent'[s]) /\ FewFrom(waiting'[s], sent'[s])
  BY <1>1 DEF Pipe
<1> QED BY <1>1, <1>2, <1>3, <1>4, <1>5, <1>6 DEF Pipe, OneOf

\* With less on the way, and handled no more than what may precede it, a host's
\* order stays.
LEMMA PipeShrinks ==
  ASSUME NEW s \in Sessions, Pipe(s), sent'[s] = sent[s], waiting'[s] \subseteq waiting[s],
         Queued(s)' \subseteq Queued(s), AnswersFit(ansQ'[s], sent[s], Answered(s)'),
         \A n \in Handled(s)' : n \in Handled(s) \/ \A r \in Queued(s)' : MayPrecede(n, r)
  PROVE  Pipe(s)'
<1>1. OnWay(s)' \subseteq OnWay(s)
  BY DEF OnWay
<1>2. OneOf(OnWay(s)') /\ Queued(s)' \subseteq Requests /\ \A r \in OnWay(s)' : r.n \in sent'[s]
  BY <1>1 DEF Pipe, OneOf
<1>3. RequestsFit(Queued(s)', sent'[s], Handled(s)')
  BY DEF Pipe, RequestsFit
<1>4. OpensFit(waiting'[s], Queued(s)', sent'[s])
  BY DEF Pipe, OpensFit
<1>5. FewFrom(waiting'[s], sent'[s])
  BY DEF Pipe, FewFrom
<1>6. \E M \in Nat : \A n \in sent'[s] : n <= M
  BY DEF Pipe
<1>7. (OneOf(OnWay(s)))'
  BY <1>2 DEF OneOf
<1>8. AnswersFit(ansQ'[s], sent'[s], Answered(s)')
  OBVIOUS
<1>9. (\A r \in OnWay(s) : r.n \in sent[s])'
  BY <1>2
<1> QED BY <1>2, <1>3, <1>4, <1>5, <1>6, <1>7, <1>8, <1>9 DEF Pipe

\* A request is taken and answered with an answer of its own.
LEMMA PipeAnswered ==
  ASSUME OnceTypes, RecordTypes, NEW s \in Sessions, Pipe(s), QueueOrder(s), HostOrder(s),
         reqQ[s] # <<>>, reqQ'[s] = Tail(reqQ[s]), waiting'[s] = waiting[s], sent'[s] = sent[s],
         NEW a \in Answers, ansQ'[s] = Append(ansQ[s], a),
         a.n = Head(reqQ[s]).n, a.by = a.n, a.res # "malformed"
  PROVE  /\ Pipe(s)' /\ Handled(s)' = Handled(s) \cup {a.n} /\ OnWay(s)' \subseteq OnWay(s)
         /\ \A r \in Queued(s)' : a.n < r.n + Half
<1>1. Queued(s)' \subseteq Queued(s) /\ Head(reqQ[s]) \in Queued(s)
  <2>1. reqQ[s] \in Seq(Requests)
    BY DEF OnceTypes
  <2> QED BY <2>1, QueuedTail DEF Queued
<1>2. Answered(s)' = Answered(s)
  BY DEF Answered
<1>3. ansQ[s] \in Seq(Answers)
  BY DEF RecordTypes
<1>4. Replied(s)' = Replied(s) \cup {a.n}
  <2> DEFINE q == ansQ[s]
  <2>1. {Append(q, a)[i] : i \in 1..Len(Append(q, a))} = {q[i] : i \in 1..Len(q)} \cup {a}
    BY <1>3, QueuedAppend
  <2>2. Replied(s)' = {Append(q, a)[i].n : i \in 1..Len(Append(q, a))}
    BY DEF Replied
  <2>3. Replied(s) = {q[i].n : i \in 1..Len(q)}
    BY DEF Replied
  <2> DEFINE p == Append(q, a)
  <2>4. \A x : x \in {p[i].n : i \in 1..Len(p)} <=> \E y \in {p[i] : i \in 1..Len(p)} : x = y.n
    OBVIOUS
  <2>5. \A x : x \in {q[i].n : i \in 1..Len(q)} <=> \E y \in {q[i] : i \in 1..Len(q)} : x = y.n
    OBVIOUS
  <2> HIDE DEF p, q
  <2>6. \A x : x \in {p[i].n : i \in 1..Len(p)} <=> x \in {q[i].n : i \in 1..Len(q)} \cup {a.n}
    BY <2>1, <2>4, <2>5 DEF p
  <2> QED BY <2>2, <2>3, <2>6 DEF p
<1>5. Handled(s)' = Handled(s) \cup {a.n}
  BY <1>2, <1>4 DEF Handled
<1>6. AnswerFits(a, sent[s], Answered(s))
  <2>1. /\ \A n \in Handled(s) : MayPrecede(n, Head(reqQ[s]))
        /\ \A n \in sent[s] : n < a.n + Turn
    BY <1>1 DEF Pipe, RequestsFit
  <2>2. a.n \in sent[s]
    BY <1>1 DEF Pipe, OnWay
  <2> QED BY <2>1, <2>2 DEF AnswerFits, MayPrecede, Handled
<1>7. \A n \in {ansQ[s][i].n : i \in 1..Len(ansQ[s])} : n < a.n + Half
  <2>1. \A n \in Handled(s) : MayPrecede(n, Head(reqQ[s]))
    BY <1>1 DEF Pipe, RequestsFit
  <2> QED BY <2>1 DEF MayPrecede, Handled, Replied
<1>8. AnswersFit(ansQ'[s], sent[s], Answered(s)')
  <2>1. AnswersFit(ansQ[s], sent[s], Answered(s))
    BY DEF Pipe
  <2> QED BY <1>2, <1>3, <1>6, <1>7, <2>1, AnswersAppend
<1>9. \A r \in Queued(s)' : MayPrecede(a.n, r)
  <2>1. \A i \in 1..Len(Tail(reqQ[s])) : MayPrecede(Head(reqQ[s]).n, Tail(reqQ[s])[i])
    <3> DEFINE q == reqQ[s]
    <3>1. /\ Head(q) = q[1] /\ Len(q) \in Nat \ {0} /\ Len(Tail(q)) = Len(q) - 1
          /\ \A i \in 1..Len(Tail(q)) : i + 1 \in 2..Len(q) /\ Tail(q)[i] = q[i + 1]
      <4>1. q \in Seq(Requests) /\ q # <<>>
        BY DEF OnceTypes
      <4> HIDE DEF q
      <4> QED BY <4>1, TailIs
    <3>2. \A i \in 1..Len(q) : \A j \in 1..(i - 1) : MayPrecede(q[j].n, q[i])
      BY DEF QueueOrder
    <3> HIDE DEF q
    <3>3. \A i \in 1..Len(Tail(q)) : MayPrecede(q[1].n, q[i + 1])
      <4> TAKE i \in 1..Len(Tail(q))
      <4>1. i + 1 \in 1..Len(q) /\ 1 \in 1..((i + 1) - 1)
        BY <3>1
      <4> QED BY <3>2, <4>1
    <3>4. \A i \in 1..Len(Tail(q)) : MayPrecede(Head(q).n, Tail(q)[i])
      BY <3>1, <3>3
    <3> QED BY <3>4 DEF q
  <2>2. Queued(s)' = {Tail(reqQ[s])[i] : i \in 1..Len(Tail(reqQ[s]))}
    BY DEF Queued
  <2> QED BY <2>1, <2>2
<1>10. Pipe(s)'
  BY <1>1, <1>5, <1>8, <1>9, PipeShrinks
<1>11. OnWay(s)' \subseteq OnWay(s)
  BY <1>1 DEF OnWay
<1> QED BY <1>5, <1>9, <1>10, <1>11 DEF MayPrecede

\* A request or an answer is lost.
LEMMA PipeLoses ==
  ASSUME OnceTypes, RecordTypes, NEW s \in Sessions, Pipe(s),
         waiting'[s] = waiting[s], sent'[s] = sent[s],
         \/ reqQ[s] # <<>> /\ reqQ'[s] = Tail(reqQ[s]) /\ ansQ'[s] = ansQ[s]
         \/ ansQ[s] # <<>> /\ ansQ'[s] = Tail(ansQ[s]) /\ reqQ'[s] = reqQ[s]
  PROVE  Pipe(s)' /\ Handled(s)' \subseteq Handled(s) /\ OnWay(s)' \subseteq OnWay(s)
<1>1. Answered(s)' = Answered(s)
  BY DEF Answered
<1>2. reqQ[s] \in Seq(Requests) /\ ansQ[s] \in Seq(Answers) /\ AnswersFit(ansQ[s], sent[s], Answered(s))
  BY DEF OnceTypes, RecordTypes, Pipe
<1>3. CASE reqQ[s] # <<>> /\ reqQ'[s] = Tail(reqQ[s]) /\ ansQ'[s] = ansQ[s]
  <2>1. Queued(s)' \subseteq Queued(s)
    BY <1>2, <1>3, QueuedTail DEF Queued
  <2>2. Handled(s)' = Handled(s)
    BY <1>1, <1>3 DEF Handled, Replied
  <2>3. AnswersFit(ansQ'[s], sent[s], Answered(s)')
    BY <1>1, <1>2, <1>3
  <2>4. Pipe(s)'
    BY <2>1, <2>2, <2>3, PipeShrinks
  <2> QED BY <2>1, <2>2, <2>4 DEF OnWay
<1>4. CASE ansQ[s] # <<>> /\ ansQ'[s] = Tail(ansQ[s]) /\ reqQ'[s] = reqQ[s]
  <2>1. Queued(s)' = Queued(s)
    BY <1>4 DEF Queued
  <2>2. Replied(s)' \subseteq Replied(s)
    <3> DEFINE q == ansQ[s]
    <3>1. {Tail(q)[i] : i \in 1..Len(Tail(q))} \subseteq {q[i] : i \in 1..Len(q)}
      BY <1>2, <1>4, QueuedTail
    <3>2. Replied(s)' = {Tail(q)[i].n : i \in 1..Len(Tail(q))} /\ Replied(s) = {q[i].n : i \in 1..Len(q)}
      BY <1>4 DEF Replied
    <3> HIDE DEF q
    <3>3. ASSUME NEW i \in 1..Len(Tail(q)) PROVE Tail(q)[i].n \in {q[j].n : j \in 1..Len(q)}
      <4>1. Tail(q)[i] \in {q[j] : j \in 1..Len(q)}
        BY <3>1
      <4> QED BY <4>1
    <3> QED BY <3>2, <3>3
  <2>3. AnswersFit(ansQ'[s], sent[s], Answered(s)')
    BY <1>1, <1>2, <1>4, AnswersTail
  <2>4. Handled(s)' \subseteq Handled(s)
    BY <1>1, <2>2 DEF Handled
  <2>5. Pipe(s)'
    BY <2>1, <2>3, <2>4, PipeShrinks
  <2> QED BY <2>1, <2>4, <2>5 DEF OnWay
<1> QED BY <1>3, <1>4

\* The first answer on its way is its request's own, and of no other waited for.
LEMMA AskedIsOwn ==
  ASSUME OnceTypes, RecordTypes, NEW s \in Sessions, Pipe(s), HostOrder(s), ansQ[s] # <<>>
  PROVE  LET a == Head(ansQ[s])
         IN  /\ AnswerFits(a, sent[s], Answered(s)) /\ a.n \in Replied(s)
             /\ \A r \in Asked(s, a) : r.n = a.n
<1> DEFINE a == Head(ansQ[s])
<1>1. ansQ[s] \in Seq(Answers) /\ AnswersFit(ansQ[s], sent[s], Answered(s))
  BY DEF RecordTypes, Pipe
<1>2. AnswerFits(a, sent[s], Answered(s)) /\ a \in Answers
  BY <1>1, AnswersTail, TailIs
<1>3. a.n \in Replied(s) /\ a.n \in sent[s]
  <2>1. a = ansQ[s][1] /\ 1 \in 1..Len(ansQ[s])
    BY <1>1, TailIs
  <2>2. a.n \in sent[s]
    BY <1>2 DEF AnswerFits
  <2> HIDE DEF a
  <2> QED BY <2>1, <2>2 DEF Replied
<1>4. \A r \in Asked(s, a) : r.n = a.n
  <2> SUFFICES ASSUME NEW r \in Asked(s, a) PROVE r.n = a.n
    OBVIOUS
  <2>1. r \in waiting[s] /\ corr(r.n) = corr(a.n)
    BY DEF Asked
  <2>2. r.n \in sent[s] /\ a.n < r.n + Half
    BY <1>3, <2>1 DEF HostOrder, MayPrecede
  <2>3. r.n < a.n + Turn
    BY <1>2, <2>2 DEF AnswerFits
  <2>4. r.n \in Nat /\ a.n \in Nat
    <3>1. sent[s] \subseteq Nat
      BY NumberAssumption DEF OnceTypes
    <3> HIDE DEF a
    <3> QED BY <1>3, <2>2, <3>1
  <2> HIDE DEF a
  <2>5. a.n < r.n + Turn
    BY <2>2, <2>4, HalfTurn
  <2> QED BY <2>1, <2>3, <2>4, <2>5, OneNumber
<1> QED BY <1>2, <1>3, <1>4

\* A host takes an answer: the request it is of, and no other, is waited for no more.
LEMMA PipeReceives ==
  ASSUME OnceTypes, RecordTypes, NEW s \in Sessions, Pipe(s), HostOrder(s),
         ansQ[s] # <<>>, ansQ'[s] = Tail(ansQ[s]), reqQ'[s] = reqQ[s], sent'[s] = sent[s],
         waiting'[s] = waiting[s] \ Asked(s, Head(ansQ[s]))
  PROVE  /\ Pipe(s)' /\ Handled(s)' \subseteq Handled(s) /\ OnWay(s)' \subseteq OnWay(s)
<1> DEFINE a == Head(ansQ[s])
<1>1. ansQ[s] \in Seq(Answers) /\ AnswersFit(ansQ[s], sent[s], Answered(s))
  BY DEF RecordTypes, Pipe
<1>3. a.n \in Replied(s)
  BY AskedIsOwn
<1>4. \A r \in Asked(s, a) : r.n = a.n
  BY AskedIsOwn
<1>5. Answered(s)' \subseteq Answered(s) \cup {a.n}
  <2> HIDE DEF a
  <2> QED BY <1>4 DEF Answered, a
<1>6. AnswersFit(ansQ'[s], sent[s], Answered(s)')
  BY <1>1, <1>5, AnswersTail
<1>7. Replied(s)' \subseteq Replied(s)
  <2> DEFINE q == ansQ[s]
  <2>1. {Tail(q)[i] : i \in 1..Len(Tail(q))} \subseteq {q[i] : i \in 1..Len(q)}
    BY <1>1, QueuedTail
  <2>2. Replied(s)' = {Tail(q)[i].n : i \in 1..Len(Tail(q))} /\ Replied(s) = {q[i].n : i \in 1..Len(q)}
    BY DEF Replied
  <2> HIDE DEF q
  <2>3. ASSUME NEW i \in 1..Len(Tail(q)) PROVE Tail(q)[i].n \in {q[j].n : j \in 1..Len(q)}
    <3>1. Tail(q)[i] \in {q[j] : j \in 1..Len(q)}
      BY <2>1
    <3> QED BY <3>1
  <2> QED BY <2>2, <2>3
<1>8. Handled(s)' \subseteq Handled(s)
  BY <1>3, <1>5, <1>7 DEF Handled
<1>9. Queued(s)' = Queued(s) /\ waiting'[s] \subseteq waiting[s]
  BY DEF Queued
<1>10. Pipe(s)'
  BY <1>6, <1>8, <1>9, PipeShrinks
<1> QED BY <1>8, <1>9, <1>10 DEF OnWay

\* A new number is less than half a turn past a number used that is waited for, and
\* else past the greatest one answered.
LEMMA NumberNear ==
  ASSUME OnceTypes, NEW s \in Sessions, Pipe(s), NEW n \in NextNumbers(s), NEW c \in sent[s]
  PROVE  \/ n < c + Half
         \/ c \in Answered(s) /\ \E g \in Answered(s) : n < g + Half /\ c <= g
<1>1. n \in Numbers /\ \A b \in Base(s) : n < b + Half
  BY DEF NextNumbers
<1>2. CASE \E r \in waiting[s] : r.n = c
  BY <1>1, <1>2 DEF Base
<1>3. CASE \A r \in waiting[s] : r.n # c
  <2>1. c \in Answered(s)
    BY <1>3 DEF Answered
  <2>2. PICK M \in Nat : \A i \in sent[s] : i <= M
    BY DEF Pipe
  <2>3. Answered(s) \subseteq sent[s] /\ sent[s] \subseteq Nat
    BY NumberAssumption DEF Answered, OnceTypes
  <2>4. PICK g \in Answered(s) : \A i \in Answered(s) : i <= g
    BY <2>1, <2>2, <2>3, GreatestNumber
  <2>5. Answered(s) = sent[s] \ {r.n : r \in waiting[s]}
    BY DEF Answered
  <2>6. g \in Base(s)
    BY <2>4, <2>5 DEF Base
  <2> QED BY <1>1, <2>1, <2>4, <2>6
<1> QED BY <1>2, <1>3

\* A number more among those past a number.
LEMMA OneMore ==
  ASSUME NEW S \in SUBSET Nat, NEW M \in Nat, \A i \in S : i <= M, NEW a \in Nat, NEW n \in Nat
  PROVE  /\ IsFiniteSet(From(a, S)) /\ Cardinality(From(a, S)) \in Nat
         /\ Cardinality(From(a, S \cup {n})) <= Cardinality(From(a, S)) + 1
<1>1. From(a, S) \in SUBSET Nat /\ \A i \in From(a, S) : i <= M
  BY DEF From
<1>2. IsFiniteSet(From(a, S)) /\ Cardinality(From(a, S)) \in Nat
  BY <1>1, FS_BoundedSetOfNaturals, FS_CardinalityType
<1>3. /\ IsFiniteSet(From(a, S) \cup {n})
      /\ Cardinality(From(a, S) \cup {n}) <= Cardinality(From(a, S)) + 1
      /\ Cardinality(From(a, S) \cup {n}) \in Nat
  BY <1>2, FS_AddElement, FS_CardinalityType
<1>4. From(a, S \cup {n}) = From(a, S) \cup {n} \/ From(a, S \cup {n}) = From(a, S)
  BY DEF From
<1> QED BY <1>2, <1>3, <1>4

\* A host that waits for its opens puts a new request behind what is on its way.
LEMMA PipeSubmits ==
  ASSUME OpenAlone, OnceTypes, RecordTypes, NEW s \in Sessions, Pipe(s), HostOrder(s),
         NEW op \in Ops, NEW f \in Fns, NEW n \in NextNumbers(s), Waits(s, op),
         NEW r, r = [n |-> n, op |-> op, fn |-> f],
         waiting'[s] = waiting[s] \cup {r}, reqQ'[s] = Append(reqQ[s], r),
         sent'[s] = sent[s] \cup {n}, ansQ'[s] = ansQ[s]
  PROVE  /\ Pipe(s)' /\ Handled(s)' = Handled(s) /\ OnWay(s)' = OnWay(s) \cup {r}
         /\ n \in Nat /\ \A i \in sent[s] : i < n
<1>1. /\ waiting[s] \subseteq Requests /\ sent[s] \subseteq Nat /\ n \in Nat /\ r \in Requests
      /\ r.n = n /\ r.op = op
      /\ \A i \in sent[s] : i < n
  BY NumberAssumption DEF OnceTypes, NextNumbers, Requests
<1>2. PICK M \in Nat : \A i \in sent[s] : i <= M
  BY DEF Pipe
<1>3. Queued(s)' = Queued(s) \cup {r} /\ OnWay(s)' = OnWay(s) \cup {r}
  <2>1. reqQ[s] \in Seq(Requests)
    BY DEF OnceTypes
  <2>2. Queued(s)' = Queued(s) \cup {r}
    BY <1>1, <2>1, QueuedAppend DEF Queued
  <2> QED BY <2>2 DEF OnWay
<1>4. Answered(s)' = Answered(s) /\ Replied(s)' = Replied(s) /\ Handled(s)' = Handled(s)
  <2>1. \A i \in sent[s] : i # n
    BY <1>1
  <2>2. Answered(s)' = Answered(s)
    BY <1>1, <2>1 DEF Answered
  <2> QED BY <2>2 DEF Handled, Replied
<1>5. \A x \in OnWay(s) : x.n \in sent[s]
  BY DEF Pipe
<1>6. (OneOf(OnWay(s)))' /\ Queued(s)' \subseteq Requests /\ (\A x \in OnWay(s) : x.n \in sent[s])'
  <2>1. \A x \in OnWay(s) : x.n # n
    BY <1>1, <1>5
  <2>2. OneOf(OnWay(s)) /\ Queued(s) \subseteq Requests
    BY DEF Pipe
  <2>3. OneOf(OnWay(s) \cup {r})
    BY <1>1, <2>1, <2>2 DEF OneOf
  <2> QED BY <1>1, <1>3, <1>5, <2>2, <2>3 DEF OneOf
<1>7. AnswersFit(ansQ'[s], sent'[s], Answered(s)')
  <2>1. AnswersFit(ansQ[s], sent[s], Answered(s))
    BY DEF Pipe
  <2>2. ASSUME NEW i \in 1..Len(ansQ[s]) PROVE n < ansQ[s][i].n + Turn
    <3>1. AnswerFits(ansQ[s][i], sent[s], Answered(s))
      BY <2>1 DEF AnswersFit
    <3>2. PICK c \in sent[s] : c = ansQ[s][i].n
      BY <3>1 DEF AnswerFits
    <3>3. \A g \in Answered(s) : g \in sent[s] /\ g < c + Half
      BY <3>1, <3>2 DEF AnswerFits, Answered
    <3>4. n < c + Turn
      BY <1>1, <3>3, NumberNear, HalfTurn
    <3> QED BY <3>2, <3>4
  <2>3. AnswersFit(ansQ[s], sent[s] \cup {n}, Answered(s))
    BY <2>1, <2>2, AnswersMore
  <2> QED BY <1>4, <2>3
<1>8. \A i \in Handled(s) : i \in sent[s]
  BY DEF Pipe, AnswersFit, AnswerFits, Handled, Answered, Replied
<1>9. RequestsFit(Queued(s)', sent'[s], Handled(s)')
  <2>1. RequestsFit(Queued(s), sent[s], Handled(s))
    BY DEF Pipe
  <2>2. ASSUME NEW x \in Queued(s) PROVE n < x.n + Turn
    <3>1. PICK c \in sent[s] : c = x.n
      BY <1>5 DEF OnWay
    <3>2. \A g \in Answered(s) : g \in sent[s] /\ g < c + Half
      BY <2>1, <3>1 DEF RequestsFit, MayPrecede, Handled, Answered
    <3>3. n < c + Turn
      BY <1>1, <3>2, NumberNear, HalfTurn
    <3> QED BY <3>1, <3>3
  <2>3. \A i \in Handled(s) : MayPrecede(i, r)
    <3>1. \A i \in Handled(s) : i < n /\ i \in Nat
      BY <1>1, <1>8
    <3>2. \A i \in Handled(s) : i < n + Half /\ i <= n
      BY <1>1, <3>1, HalfTurn
    <3> QED BY <1>1, <3>2 DEF MayPrecede
  <2>4. \A i \in sent'[s] : i < n + Turn
    BY <1>1, HalfTurn
  <2>5. RequestsFit(Queued(s) \cup {r}, sent[s] \cup {n}, Handled(s))
    BY <1>1, <2>1, <2>2, <2>3, <2>4 DEF RequestsFit
  <2> QED BY <1>3, <1>4, <2>5
<1>10. OpensFit(waiting'[s], Queued(s)', sent'[s])
  <2>1. /\ \A w \in waiting[s] : w.op \notin Opens
        /\ op \in Opens => waiting[s] = {}
    BY DEF Waits
  <2>2. OpensFit(waiting[s], Queued(s), sent[s])
    BY DEF Pipe
  <2>3. ASSUME NEW x \in Queued(s), x.op \in Opens
        PROVE  (\A w \in waiting'[s] : x.n <= w.n) /\ (\A i \in sent'[s] : i < x.n + Half)
    <3>1. PICK c \in sent[s] : c = x.n
      BY <1>5 DEF OnWay
    <3>2. \A g \in Answered(s) : g \in sent[s] /\ g <= c
      BY <2>3, <3>1 DEF Pipe, RequestsFit, MayPrecede, Handled, Answered
    <3>3. n < c + Half
      BY <1>1, <3>2, NumberNear, HalfTurn
    <3>4. (\A w \in waiting[s] : c <= w.n) /\ (\A i \in sent[s] : i < c + Half)
      BY <2>2, <2>3, <3>1 DEF OpensFit
    <3> QED BY <1>1, <3>1, <3>3, <3>4
  <2>4. ASSUME op \in Opens
        PROVE  (\A w \in waiting'[s] : n <= w.n) /\ (\A i \in sent'[s] : i < n + Half)
    BY <1>1, <2>1, <2>4, HalfTurn
  <2> QED BY <1>1, <1>3, <2>1, <2>3, <2>4 DEF OpensFit
<1>11. FewFrom(waiting'[s], sent'[s])
  <2>1. ASSUME NEW w \in waiting[s] PROVE Cardinality(From(w.n, sent'[s])) <= MaxInflight
    <3>1. w.n \in sent[s]
      BY DEF HostOrder
    <3>2. ~(Cardinality(From(w.n, sent[s])) >= MaxInflight)
      BY <3>1 DEF NextNumbers, From
    <3>3. /\ Cardinality(From(w.n, sent[s])) \in Nat
          /\ IsFiniteSet(From(w.n, sent[s]))
          /\ Cardinality(From(w.n, sent[s] \cup {n})) <= Cardinality(From(w.n, sent[s])) + 1
      BY <1>1, <1>2, <3>1, OneMore
    <3>4. From(w.n, sent[s] \cup {n}) = From(w.n, sent[s]) \cup {n}
      BY <1>1, <3>1 DEF From
    <3>5. Cardinality(From(w.n, sent[s] \cup {n})) \in Nat
      BY <3>3, <3>4, FS_AddElement, FS_CardinalityType
    <3> QED BY <3>2, <3>3, <3>5, NumberAssumption
  <2>2. From(n, sent'[s]) = {n}
    BY <1>1 DEF From
  <2>3. Cardinality(From(n, sent'[s])) <= MaxInflight
    <3>1. Cardinality({n}) = 1
      BY FS_Singleton
    <3>2. 1 <= MaxInflight
      BY NumberAssumption
    <3> QED BY <2>2, <3>1, <3>2
  <2> QED BY <1>1, <2>1, <2>3 DEF FewFrom
<1>12. \E L \in Nat : \A i \in sent'[s] : i <= L
  <2>1. \A i \in sent'[s] : i <= n
    BY <1>1
  <2> QED BY <1>1, <2>1
<1>13. Pipe(s)'
  BY <1>6, <1>7, <1>9, <1>10, <1>11, <1>12 DEF Pipe
<1> QED BY <1>1, <1>3, <1>4, <1>13

\* A request waited for is put on its way again.
LEMMA PipeResends ==
  ASSUME OnceTypes, NEW s \in Sessions, Pipe(s), HostOrder(s), NEW r \in waiting[s],
         waiting'[s] = waiting[s], sent'[s] = sent[s], ansQ'[s] = ansQ[s],
         reqQ'[s] = Append(reqQ[s], r)
  PROVE  Pipe(s)' /\ Handled(s)' = Handled(s) /\ OnWay(s)' = OnWay(s)
<1>1. r \in Requests /\ reqQ[s] \in Seq(Requests) /\ sent[s] \subseteq Nat
  BY NumberAssumption DEF OnceTypes
<1>2. Queued(s)' = Queued(s) \cup {r} /\ OnWay(s)' = OnWay(s)
  <2>1. Queued(s)' = Queued(s) \cup {r}
    BY <1>1, QueuedAppend DEF Queued
  <2> QED BY <2>1 DEF OnWay
<1>3. Answered(s)' = Answered(s) /\ Handled(s)' = Handled(s)
  BY DEF Answered, Handled, Replied
<1>4. r.n \in sent[s] /\ \A i \in sent[s] : MayPrecede(i, r)
  BY DEF HostOrder
<1>5. RequestsFit(Queued(s)', sent'[s], Handled(s)')
  <2>1. \A i \in Handled(s) : i \in sent[s]
    BY DEF Pipe, AnswersFit, AnswerFits, Handled, Answered, Replied
  <2>2. PICK c \in sent[s] : c = r.n
    BY <1>4
  <2>3. \A i \in sent[s] : i < c + Half
    BY <1>4, <2>2 DEF MayPrecede
  <2>4. \A i \in sent[s] : i < r.n + Turn
    BY <1>1, <2>2, <2>3, HalfTurn
  <2>5. RequestsFit(Queued(s), sent[s], Handled(s))
    BY DEF Pipe
  <2> QED BY <1>2, <1>3, <1>4, <2>1, <2>4, <2>5 DEF RequestsFit
<1>6. OpensFit(waiting'[s], Queued(s)', sent'[s])
  BY <1>2 DEF Pipe, OpensFit
<1>7. (OneOf(OnWay(s)))' /\ Queued(s)' \subseteq Requests /\ (\A x \in OnWay(s) : x.n \in sent[s])'
  BY <1>1, <1>2 DEF Pipe, OneOf
<1>8. AnswersFit(ansQ'[s], sent'[s], Answered(s)') /\ FewFrom(waiting'[s], sent'[s])
  BY <1>3 DEF Pipe
<1>9. \E L \in Nat : \A i \in sent'[s] : i <= L
  BY DEF Pipe
<1>10. Pipe(s)'
  BY <1>5, <1>6, <1>7, <1>8, <1>9 DEF Pipe
<1> QED BY <1>2, <1>3, <1>10

\* The record, its newest number N known, and what it knows of its host.
Recording(s, N) ==
  /\ OnceTypes /\ RecordTypes /\ s \in Sessions /\ Pipe(s) /\ HostOrder(s) /\ QueueOrder(s)
  /\ N \in sent[s] /\ RecordIs(s, N)

\* The numbers of a host and of its entries are numbers.
LEMMA RecordNumbers ==
  ASSUME NEW s, NEW N, Recording(s, N)
  PROVE  /\ sent[s] \subseteq Nat /\ N \in Nat /\ N % Turn # 0 /\ newest = corr(N) /\ newest # 0
         /\ \A k \in Slots : dedup[k].used =>
              /\ dedup[k].n \in Nat /\ dedup[k].n <= N /\ dedup[k].n \in sent[s]
              /\ dedup[k].corr = corr(dedup[k].n)
<1>1. sent[s] \subseteq Nat /\ N \in Nat /\ N % Turn # 0
  BY NumberAssumption DEF Recording, OnceTypes
<1>2. newest = corr(N) /\ newest # 0
  BY <1>1 DEF Recording, RecordIs, corr
<1>3. ASSUME NEW k \in Slots, dedup[k].used
      PROVE  EntryFits(dedup[k], OnWay(s), sent[s], N)
  BY <1>3 DEF Recording, RecordIs, TableFits
<1> QED BY <1>1, <1>2, <1>3 DEF EntryFits

\* An entry less than half a turn behind the newest is not old; one less than a
\* turn behind it and not old is.
LEMMA OldIsHalf ==
  ASSUME NEW s, NEW N, Recording(s, N), NEW k \in Slots, dedup[k].used, N < dedup[k].n + Turn
  PROVE  Old(k) <=> N >= dedup[k].n + Half
<1> DEFINE d == dedup[k].n
<1>1. /\ d \in Nat /\ N \in Nat /\ d <= N
      /\ newest = corr(N) /\ newest # 0 /\ dedup[k].corr = corr(d)
  BY RecordNumbers
<1>2. N < d + Turn
  OBVIOUS
<1> HIDE DEF d
<1>3. (corr(N) - corr(d) - 0) % Turn = N - d - 0
  <2>1. d + 0 <= N /\ N < d + 0 + Turn /\ 0 \in Nat
    BY <1>1, <1>2, HalfTurn
  <2> QED BY <1>1, <2>1, FarIs
<1>4. corr(N) - corr(d) - 0 = corr(N) - corr(d)
  <2>1. N % Turn \in Int /\ d % Turn \in Int
    BY <1>1, HalfTurn, Remainder
  <2> QED BY <2>1 DEF corr
<1>5. (newest - dedup[k].corr) % Turn = N - d
  BY <1>1, <1>3, <1>4
<1>6. Old(k) <=> N - d >= Half
  BY <1>1, <1>5 DEF Old
<1>7. N - d >= Half <=> N >= d + Half
  BY <1>1, HalfTurn
<1> QED BY <1>6, <1>7 DEF d

\* What drops old entries keeps those less than half a turn behind the newest.
LEMMA DropKeeps ==
  ASSUME NEW s, NEW N, Recording(s, N), NEW m
  PROVE  /\ DropOld(m) \in [Slots -> {Unused} \cup EntrySet]
         /\ \A k \in Slots : DropOld(m)[k] \in {Unused, dedup[k]}
         /\ TableFits(DropOld(m), dedup_next, OnWay(s), sent[s], N)
         /\ \A n \in Nat : Has(dedup, n) /\ N < n + Half => Has(DropOld(m), n)
<1>1. dedup \in [Slots -> {Unused} \cup EntrySet]
  BY DEF Recording, RecordTypes
<1>2. \A k \in Slots : DropOld(m)[k] \in {Unused, dedup[k]}
  BY DEF DropOld
<1>3. DropOld(m) \in [Slots -> {Unused} \cup EntrySet]
  BY <1>1 DEF DropOld
<1>4. ~Unused.used
  BY DEF Unused
<1>5. TableFits(DropOld(m), dedup_next, OnWay(s), sent[s], N)
  <2>1. TableFits(dedup, dedup_next, OnWay(s), sent[s], N)
    BY DEF Recording, RecordIs
  <2>2. \A k \in Slots : DropOld(m)[k].used => DropOld(m)[k] = dedup[k]
    BY <1>2, <1>4
  <2> QED BY <2>1, <2>2 DEF TableFits
<1>6. ASSUME NEW n \in Nat, Has(dedup, n), N < n + Half PROVE Has(DropOld(m), n)
  <2>1. PICK k \in Slots : dedup[k].used /\ dedup[k].n = n
    BY <1>6 DEF Has
  <2>2. N \in Nat
    BY RecordNumbers
  <2>3. ~(N >= dedup[k].n + Half) /\ N < dedup[k].n + Turn
    BY <1>6, <2>1, <2>2, HalfTurn
  <2>4. ~Old(k)
    BY <2>1, <2>3, OldIsHalf
  <2>5. DropOld(m)[k] = dedup[k]
    BY <2>4 DEF DropOld
  <2> QED BY <2>1, <2>5 DEF Has
<1> QED BY <1>2, <1>3, <1>5, <1>6

\* A host's requests, waited for or queued, are less than half a turn behind the newest.
LEMMA NearNewest ==
  ASSUME NEW s, NEW N, Recording(s, N), NEW r \in OnWay(s)
  PROVE  r.n \in Nat /\ N < r.n + Half /\ r.n < N + Half /\ r.n \in sent[s]
<1>1. r.n \in sent[s] /\ r.n \in Nat
  BY RecordNumbers DEF Recording, Pipe
<1>2. r.n < N + Half
  BY <1>1 DEF Recording, RecordIs
<1>3. N < r.n + Half
  BY DEF Recording, RecordIs, HostOrder, MayPrecede, OnWay
<1> QED BY <1>1, <1>2, <1>3

\* A table fits what is less on the way.
LEMMA TableLess ==
  ASSUME NEW T, NEW x, NEW R, NEW Q, NEW S, NEW N, TableFits(T, x, R, S, N), Q \subseteq R
  PROVE  TableFits(T, x, Q, S, N)
BY DEF TableFits, EntryFits

\* The record stays while a step leaves it, its session's numbers and runs alone,
\* hands nothing to it, and puts nothing new on the way.
LEMMA RecordStays ==
  ASSUME OnceTypes, RecordTypes, NEW s \in Sessions, Pipe(s), HostOrder(s), QueueOrder(s), RecordKnown(s),
         last' = s => last = s, UNCHANGED <<newest, dedup, dedup_next>>,
         sent'[s] = sent[s], ran'[s] = ran[s], waiting'[s] \subseteq waiting[s],
         Handled(s)' \subseteq Handled(s), OnWay(s)' \subseteq OnWay(s)
  PROVE  RecordKnown(s)'
<1> SUFFICES ASSUME last' = s PROVE \E N \in sent'[s] : RecordIs(s, N)'
  BY DEF RecordKnown
<1>1. PICK N \in sent[s] : RecordIs(s, N)
  BY DEF RecordKnown
<1>2. Recording(s, N)
  BY <1>1 DEF Recording
<1>3. \A r \in Queued(s)' : N < r.n + Half
  BY <1>2, NearNewest DEF OnWay
<1>4. TableFits(dedup', dedup_next', OnWay(s)', sent'[s], N)
  BY <1>1, TableLess DEF RecordIs
<1>5. Has(dedup', N) /\ \A r \in waiting'[s] : IsRun(s, r.n)' /\ r.op \notin Opens => Has(dedup', r.n)
  BY <1>1 DEF RecordIs, IsRun
<1>6. corr(N)' = newest' /\ (\A n \in Handled(s)' : n <= N) /\ \A n \in sent'[s] : n < N + Half
  BY <1>1 DEF RecordIs, corr
<1>7. RecordIs(s, N)'
  BY <1>3, <1>4, <1>5, <1>6 DEF RecordIs, corr, Has
<1> QED BY <1>1, <1>7

\* A new request leaves the record as it is.
LEMMA RecordSubmits ==
  ASSUME OnceTypes, RecordTypes, NEW s \in Sessions, Pipe(s), HostOrder(s), QueueOrder(s), RecordKnown(s),
         UNCHANGED <<last, newest, dedup, dedup_next, ran>>,
         NEW n \in NextNumbers(s), NEW r, r.n = n,
         waiting'[s] = waiting[s] \cup {r}, sent'[s] = sent[s] \cup {n},
         Handled(s)' = Handled(s), OnWay(s)' = OnWay(s) \cup {r},
         n \in Nat, \A i \in sent[s] : i < n
  PROVE  RecordKnown(s)'
<1> SUFFICES ASSUME last' = s PROVE \E N \in sent'[s] : RecordIs(s, N)'
  BY DEF RecordKnown
<1>1. PICK N \in sent[s] : RecordIs(s, N)
  BY DEF RecordKnown
<1>2. Recording(s, N)
  BY <1>1 DEF Recording
<1>3. N \in Nat /\ N < n /\ sent[s] \subseteq Nat
  BY <1>2, RecordNumbers
<1>4. n < N + Half
  <2>1. \A g \in Answered(s) : g <= N /\ g \in Nat
    BY <1>1, <1>3 DEF RecordIs, Handled, Answered
  <2> QED BY <1>3, <2>1, NumberNear, HalfTurn
<1>5. \A x \in Queued(s)' : N < x.n + Half
  <2>1. N < r.n + Half
    BY <1>3, HalfTurn
  <2>2. \A x \in OnWay(s)' : N < x.n + Half
    BY <1>2, <2>1, NearNewest
  <2> QED BY <2>2 DEF OnWay
<1>6. TableFits(dedup', dedup_next', OnWay(s)', sent'[s], N)
  <2>1. TableFits(dedup, dedup_next, OnWay(s), sent[s], N)
    BY <1>1 DEF RecordIs
  <2>2. ASSUME NEW k \in Slots, dedup[k].used
        PROVE  /\ EntryFits(dedup[k], OnWay(s) \cup {r}, sent[s] \cup {n}, N)
               /\ Cardinality(Between(dedup[k].n, N, sent[s] \cup {n})) > Later(k, dedup_next)
    <3>1. EntryFits(dedup[k], OnWay(s), sent[s], N)
      BY <2>1, <2>2 DEF TableFits
    <3>2. r.n # dedup[k].n
      BY <3>1 DEF EntryFits
    <3>3. Between(dedup[k].n, N, sent[s] \cup {n}) = Between(dedup[k].n, N, sent[s])
      BY <1>3 DEF Between
    <3>4. Cardinality(Between(dedup[k].n, N, sent[s])) > Later(k, dedup_next)
      BY <2>1, <2>2 DEF TableFits
    <3> QED BY <3>1, <3>2, <3>3, <3>4 DEF EntryFits
  <2> QED BY <2>2 DEF TableFits
<1>7. \A w \in waiting'[s] : IsRun(s, w.n)' /\ w.op \notin Opens => Has(dedup', w.n)
  <2>1. n \in Numbers
    BY DEF NextNumbers
  <2>2. ~IsRun(s, n)
    BY <2>1 DEF QueueOrder
  <2> QED BY <1>1, <2>2 DEF RecordIs, IsRun
<1>8. corr(N)' = newest' /\ (\A i \in Handled(s)' : i <= N) /\ \A i \in sent'[s] : i < N + Half
  BY <1>1, <1>4 DEF RecordIs, corr
<1>9. RecordIs(s, N)'
  BY <1>1, <1>5, <1>6, <1>7, <1>8 DEF RecordIs, corr, Has
<1> QED BY <1>1, <1>9

\* A number judged out of order is none past the newest.
LEMMA OutOfOrderIsPast ==
  ASSUME NEW s, NEW N, Recording(s, N), NEW m \in OnWay(s), OutOfOrder(m)
  PROVE  m.n <= N
<1>1. m.n \in Nat /\ N \in Nat /\ m.n < N + Half /\ newest = corr(N)
  BY NearNewest, RecordNumbers
<1>n. PICK k \in Nat : k = m.n
  BY <1>1
<1> SUFFICES ASSUME k > N PROVE FALSE
  BY <1>1, <1>n
<1>2. (corr(k) - corr(N) - 1) % Turn = k - N - 1
  <2>1. N + 1 <= k /\ k < N + 1 + Turn /\ 1 \in Nat
    BY <1>1, <1>n, HalfTurn
  <2> QED BY <1>1, <2>1, FarIs
<1>3. (corr(k) - corr(N) - 1) % Turn >= Half - 1
  BY <1>1, <1>n DEF OutOfOrder
<1> QED BY <1>1, <1>2, <1>3, <1>n, HalfTurn

\* One judged in order is past it.
LEMMA InOrderIsPast ==
  ASSUME NEW s, NEW N, Recording(s, N), NEW m \in OnWay(s), ~OutOfOrder(m)
  PROVE  N < m.n
<1>1. m.n \in Nat /\ N \in Nat /\ N < m.n + Half /\ newest = corr(N) /\ newest # 0
  BY NearNewest, RecordNumbers
<1>n. PICK k \in Nat : k = m.n
  BY <1>1
<1>2. ~((corr(k) - corr(N) - 1) % Turn >= Half - 1)
  BY <1>1, <1>n DEF OutOfOrder
<1>3. (corr(k) - corr(N) - 1) % Turn \in Int
  <2>1. k % Turn \in Int /\ N % Turn \in Int
    BY <1>1, HalfTurn, Remainder
  <2>2. corr(k) - corr(N) - 1 \in Int
    BY <2>1 DEF corr
  <2> QED BY <2>2, HalfTurn, Remainder
<1>4. (corr(k) - corr(N) - 1) % Turn < Half - 1
  BY <1>2, <1>3, HalfTurn
<1> QED BY <1>1, <1>4, <1>n, PastNewest

\* While the record spans less than a turn, the entry a resend finds is its own.
LEMMA RecordedIsOwn ==
  ASSUME NEW s, NEW N, Recording(s, N), RecordSpans, NEW m \in OnWay(s), NEW k \in Recorded(m)
  PROVE  /\ dedup[k].n = m.n /\ m.n <= N /\ dedup[k].res # "malformed"
         /\ dedup[k].op = m.op /\ dedup[k].fn = m.fn
<1>1. k \in Slots /\ dedup[k].used /\ dedup[k].corr = corr(m.n) /\ ~Old(k)
  BY DEF Recorded, OfCorr
<1>2. PICK l \in Slots : dedup[l].used /\ dedup[l].n = N
  BY DEF Recording, RecordIs, Has
<1>3. N < dedup[k].n + Turn
  BY <1>1, <1>2 DEF RecordSpans
<1>4. /\ dedup[k].n \in Nat /\ dedup[k].n <= N /\ N \in Nat /\ dedup[k].corr = corr(dedup[k].n)
  BY <1>1, RecordNumbers
<1>5. N < dedup[k].n + Half
  BY <1>1, <1>3, <1>4, OldIsHalf, HalfTurn
<1>6. m.n \in Nat /\ N < m.n + Half /\ m.n < N + Half
  BY NearNewest
<1>7. dedup[k].n < m.n + Turn /\ m.n < dedup[k].n + Turn
  BY <1>4, <1>5, <1>6, HalfTurn
<1>8. dedup[k].n = m.n
  BY <1>1, <1>4, <1>6, <1>7, OneNumber
<1>9. EntryFits(dedup[k], OnWay(s), sent[s], N)
  BY <1>1 DEF Recording, RecordIs, TableFits
<1> QED BY <1>4, <1>8, <1>9 DEF EntryFits

\* A request answered from the record, or with result_lost, leaves it in place.
LEMMA RecordDrops ==
  ASSUME NEW s \in Sessions, NEW N, Recording(s, N), NEW m, m.n <= N,
         dedup' = DropOld(m), UNCHANGED <<newest, dedup_next, ran>>,
         sent'[s] = sent[s], waiting'[s] = waiting[s],
         Handled(s)' = Handled(s) \cup {m.n}, OnWay(s)' \subseteq OnWay(s)
  PROVE  RecordKnown(s)'
<1>1. RecordIs(s, N) /\ N \in sent[s] /\ N \in Nat
  BY RecordNumbers DEF Recording
<1>2. \A r \in Queued(s)' : N < r.n + Half
  BY NearNewest DEF OnWay
<1>3. /\ TableFits(DropOld(m), dedup_next, OnWay(s), sent[s], N)
      /\ \A n \in Nat : Has(dedup, n) /\ N < n + Half => Has(DropOld(m), n)
  BY DropKeeps
<1>4. TableFits(dedup', dedup_next', OnWay(s)', sent'[s], N)
  BY <1>3, TableLess
<1>5. Has(dedup', N)
  <2>1. N < N + Half
    BY <1>1, HalfTurn
  <2> QED BY <1>1, <1>3, <2>1 DEF RecordIs
<1>6. \A w \in waiting'[s] : IsRun(s, w.n)' /\ w.op \notin Opens => Has(dedup', w.n)
  <2> SUFFICES ASSUME NEW w \in waiting[s], IsRun(s, w.n), w.op \notin Opens PROVE Has(DropOld(m), w.n)
    BY DEF IsRun
  <2>1. w.n \in Nat /\ N < w.n + Half
    BY NearNewest DEF OnWay
  <2>2. Has(dedup, w.n)
    BY <1>1 DEF RecordIs
  <2> QED BY <1>3, <2>1, <2>2
<1>7. corr(N)' = newest' /\ (\A i \in Handled(s)' : i <= N) /\ \A i \in sent'[s] : i < N + Half
  BY <1>1 DEF RecordIs, corr
<1>8. RecordIs(s, N)'
  BY <1>2, <1>4, <1>5, <1>6, <1>7 DEF RecordIs, corr, Has
<1> QED BY <1>1, <1>8 DEF RecordKnown

\* The slot after the last one written, and how much later every entry is then.
LEMMA LaterByOne ==
  ASSUME Entries \in Nat \ {0}, NEW x \in Slots, NEW k \in Slots
  PROVE  /\ (x + 1) % Entries \in Slots /\ Later(x, (x + 1) % Entries) = 0
         /\ k # x => Later(k, (x + 1) % Entries) = Later(k, x) + 1
         /\ Later(x, x) = Entries - 1 /\ Later(k, x) \in Nat
<1>1. x \in Nat /\ x < Entries /\ k \in Nat /\ k < Entries
  BY DEF Slots
<1>2. CASE x + 1 < Entries
  <2>1. (x + 1) % Entries = x + 1
    BY <1>1, <1>2, SmallRemainder
  <2> HIDE DEF Slots
  <2>2. x + 1 \in Slots
    BY <1>1, <1>2 DEF Slots
  <2> QED BY <1>1, <1>2, <2>1, <2>2 DEF Later
<1>3. CASE x + 1 = Entries
  <2>1. (x + 1) % Entries = 0
    BY <1>1, <1>3
  <2>2. 0 \in Slots
    BY <1>1, <1>3 DEF Slots
  <2> QED BY <1>1, <1>3, <2>1, <2>2 DEF Later
<1> QED BY <1>1, <1>2, <1>3

\* The table with the entry of m put where the oldest was.
Written(T, m, res) == [T EXCEPT ![dedup_next] = Entry(m, res)]

\* The entry of a request put where the oldest was: what was run before and is
\* waited for is another entry's, and every entry left has one newer after it.
LEMMA TableWrites ==
  ASSUME NEW s \in Sessions, NEW N, Recording(s, N), MaxInflight <= Entries,
         NEW m \in Requests, m \in OnWay(s), N < m.n,
         NEW T, \A k \in Slots : T[k] \in {Unused, dedup[k]}, T \in [Slots -> {Unused} \cup EntrySet],
         TableFits(T, dedup_next, OnWay(s), sent[s], N),
         NEW res \in Results, res # "malformed"
  PROVE  /\ Written(T, m, res) \in [Slots -> {Unused} \cup EntrySet] /\ (dedup_next + 1) % Entries \in Slots
         /\ Has(Written(T, m, res), m.n)
         /\ TableFits(Written(T, m, res), (dedup_next + 1) % Entries, OnWay(s), sent[s], m.n)
         /\ \A w \in waiting[s] : Has(T, w.n) => Has(Written(T, m, res), w.n)
<1> DEFINE U == Written(T, m, res)
           x == dedup_next
           y == (dedup_next + 1) % Entries
           e == Entry(m, res)
           K == m.n
<1>1. x \in Slots /\ Entries \in Nat \ {0} /\ MaxInflight \in Nat \ {0}
  BY NumberAssumption DEF Recording, RecordTypes
<1>2. K \in Nat /\ K \in sent[s] /\ N \in Nat /\ sent[s] \subseteq Nat /\ K \in Numbers
  BY NearNewest, RecordNumbers DEF Requests
<1>3. e \in EntrySet /\ e.n = K /\ e.used /\ e.corr = corr(K) /\ e.op = m.op /\ e.fn = m.fn /\ e.res = res
  <2>k. PICK k \in Nat : k = m.n
    BY <1>2
  <2>1. k % Turn \in 0..(Turn - 1)
    BY HalfTurn, Remainder
  <2>2. corr(m.n) \in Nat
    BY <2>k, <2>1, HalfTurn DEF corr
  <2> QED BY <2>2 DEF Entry, EntrySet, Requests
<1>4. y \in Slots /\ Later(x, y) = 0 /\ Later(x, x) = Entries - 1
      /\ \A k \in Slots : Later(k, x) \in Nat /\ (k # x => Later(k, y) = Later(k, x) + 1)
  BY <1>1, LaterByOne
<1> HIDE DEF e, y, U
<1>5. U[x] = e /\ (\A k \in Slots : k # x => U[k] = T[k]) /\ U \in [Slots -> {Unused} \cup EntrySet]
  BY <1>1, <1>3 DEF e, U, Written
<1>6. Has(U, K)
  BY <1>1, <1>3, <1>5 DEF Has
<1>7. EntryFits(e, OnWay(s), sent[s], K) /\ Cardinality(Between(e.n, K, sent[s])) > Later(x, y)
  <2>1. \A r \in OnWay(s) : r.n = K => r = m
    BY DEF Recording, Pipe, OneOf
  <2>2. EntryFits(e, OnWay(s), sent[s], K)
    BY <1>2, <1>3, <2>1 DEF EntryFits
  <2>3. Between(K, K, sent[s]) = {K}
    BY <1>2 DEF Between
  <2>4. Cardinality({K}) = 1
    BY FS_Singleton
  <2> QED BY <1>3, <1>4, <2>2, <2>3, <2>4
<1>8. ASSUME NEW k \in Slots, T[k].used
      PROVE  /\ EntryFits(T[k], OnWay(s), sent[s], K) /\ T[k].n \in Nat
             /\ IsFiniteSet(Between(T[k].n, N, sent[s]) \cup {K})
             /\ Cardinality(Between(T[k].n, N, sent[s]) \cup {K}) \in Nat
             /\ Cardinality(Between(T[k].n, N, sent[s]) \cup {K}) > Later(k, x) + 1
             /\ Between(T[k].n, N, sent[s]) \cup {K} \in SUBSET Between(T[k].n, K, sent[s])
  <2>1. /\ EntryFits(T[k], OnWay(s), sent[s], N)
        /\ Cardinality(Between(T[k].n, N, sent[s])) > Later(k, x)
    BY <1>8 DEF TableFits
  <2>2. T[k].n \in Nat /\ T[k].n <= N /\ T[k].n < K
    BY <1>2, <2>1 DEF EntryFits
  <2> DEFINE B == Between(T[k].n, N, sent[s])
  <2>3. B \in SUBSET Nat /\ \A i \in B : i <= N
    BY <1>2 DEF Between
  <2>4. IsFiniteSet(B) /\ Cardinality(B) \in Nat
    BY <1>2, <2>3, FS_BoundedSetOfNaturals, FS_CardinalityType
  <2>5. K \notin B
    BY <1>2 DEF Between
  <2>6. B \subseteq Between(T[k].n, K, sent[s]) /\ K \in Between(T[k].n, K, sent[s])
    BY <1>2, <2>2 DEF Between
  <2> HIDE DEF B
  <2>7. IsFiniteSet(B \cup {K}) /\ Cardinality(B \cup {K}) = Cardinality(B) + 1
    BY <2>4, <2>5, FS_AddElement
  <2>8. Cardinality(B \cup {K}) > Later(k, x) + 1 /\ Cardinality(B \cup {K}) \in Nat
    BY <1>4, <2>1, <2>4, <2>7 DEF B
  <2>9. EntryFits(T[k], OnWay(s), sent[s], K)
    BY <1>2, <2>1, <2>2 DEF EntryFits
  <2> QED BY <2>2, <2>6, <2>7, <2>8, <2>9 DEF B
<1>9. ASSUME NEW k \in Slots, U[k].used
      PROVE  EntryFits(U[k], OnWay(s), sent[s], K) /\ Cardinality(Between(U[k].n, K, sent[s])) > Later(k, y)
  <2>1. CASE k = x
    BY <1>5, <1>7, <2>1
  <2>2. CASE k # x
    <3>1. U[k] = T[k] /\ Later(k, y) = Later(k, x) + 1 /\ Later(k, x) \in Nat
      BY <1>4, <1>5, <2>2
    <3> DEFINE A == Between(T[k].n, N, sent[s]) \cup {K}
               B == Between(T[k].n, K, sent[s])
    <3>2. /\ EntryFits(T[k], OnWay(s), sent[s], K)
          /\ IsFiniteSet(A) /\ Cardinality(A) \in Nat /\ Cardinality(A) > Later(k, x) + 1 /\ A \in SUBSET B
      BY <1>8, <1>9, <3>1
    <3>3. B \in SUBSET Nat /\ \A i \in B : i <= K
      BY <1>2 DEF Between
    <3> HIDE DEF A, B
    <3>4. IsFiniteSet(B) /\ Cardinality(B) \in Nat
      BY <1>2, <3>3, FS_BoundedSetOfNaturals, FS_CardinalityType
    <3>5. Cardinality(A) <= Cardinality(B)
      BY <3>2, <3>4, FS_Subset
    <3>6. Cardinality(B) > Later(k, y)
      BY <3>1, <3>2, <3>4, <3>5
    <3> QED BY <3>1, <3>2, <3>6 DEF B
  <2> QED BY <2>1, <2>2
<1>10. TableFits(U, y, OnWay(s), sent[s], K)
  BY <1>9 DEF TableFits
<1>11. ASSUME NEW w \in waiting[s], Has(T, w.n) PROVE Has(U, w.n)
  <2>1. PICK k \in Slots : T[k].used /\ T[k].n = w.n
    BY <1>11 DEF Has
  <2>2. k # x
    <3> SUFFICES ASSUME k = x PROVE FALSE
      OBVIOUS
    <3> DEFINE A == Between(w.n, N, sent[s]) \cup {K}
               B == From(w.n, sent[s])
    <3>1. IsFiniteSet(A) /\ Cardinality(A) \in Nat /\ Cardinality(A) > Entries
      <4>1. Later(k, x) + 1 = Entries
        BY <1>1, <1>4
      <4> QED BY <1>8, <2>1, <4>1
    <3>2. A \in SUBSET B
      <4>1. w.n \in Nat /\ w.n <= N
        BY <1>2, <2>1 DEF TableFits, EntryFits
      <4> QED BY <1>2, <4>1 DEF Between, From
    <3>3. Cardinality(B) <= MaxInflight
      BY DEF Recording, Pipe, FewFrom
    <3>4. IsFiniteSet(B) /\ Cardinality(B) \in Nat
      <4>1. PICK M \in Nat : \A i \in sent[s] : i <= M
        BY DEF Recording, Pipe
      <4>2. B \in SUBSET Nat /\ \A i \in B : i <= M
        BY <1>2, <4>1 DEF From
      <4> HIDE DEF B
      <4> QED BY <4>1, <4>2, FS_BoundedSetOfNaturals, FS_CardinalityType
    <3> HIDE DEF A, B
    <3>5. Cardinality(A) <= Cardinality(B)
      BY <3>2, <3>4, FS_Subset
    <3> QED BY <1>1, <3>1, <3>3, <3>4, <3>5
  <2>3. U[k] = T[k]
    BY <1>5, <2>2
  <2> QED BY <2>1, <2>3 DEF Has
<1> QED BY <1>4, <1>5, <1>6, <1>10, <1>11 DEF y, U

\* A request of the last session recorded is the newest then.
LEMMA RecordWrites ==
  ASSUME NEW s \in Sessions, NEW N, Recording(s, N), MaxInflight <= Entries,
         NEW m \in Requests, m \in OnWay(s), N < m.n, NEW res \in Results, res # "malformed",
         record(DropOld(m), m, res),
         \A n \in Numbers : IsRun(s, n)' => IsRun(s, n) \/ n = m.n,
         sent'[s] = sent[s], waiting'[s] = waiting[s],
         Handled(s)' = Handled(s) \cup {m.n}, OnWay(s)' \subseteq OnWay(s),
         \A r \in Queued(s)' : m.n < r.n + Half
  PROVE  RecordKnown(s)' /\ dedup' \in [Slots -> {Unused} \cup EntrySet] /\ dedup_next' \in Slots
<1>1. RecordIs(s, N) /\ N \in sent[s] /\ N \in Nat /\ sent[s] \subseteq Nat
  BY RecordNumbers DEF Recording
<1>2. m.n \in Nat /\ m.n \in sent[s]
  BY NearNewest
<1>3. Entries # 0
  BY NumberAssumption
<1>4. /\ newest' = corr(m.n) /\ dedup_next' = (dedup_next + 1) % Entries
      /\ dedup' = [DropOld(m) EXCEPT ![dedup_next] = Entry(m, res)]
  BY <1>3 DEF record
<1>5. /\ DropOld(m) \in [Slots -> {Unused} \cup EntrySet]
      /\ \A k \in Slots : DropOld(m)[k] \in {Unused, dedup[k]}
      /\ TableFits(DropOld(m), dedup_next, OnWay(s), sent[s], N)
      /\ \A n \in Nat : Has(dedup, n) /\ N < n + Half => Has(DropOld(m), n)
  BY DropKeeps
<1>6. /\ dedup' \in [Slots -> {Unused} \cup EntrySet] /\ dedup_next' \in Slots
      /\ Has(dedup', m.n)
      /\ TableFits(dedup', dedup_next', OnWay(s), sent[s], m.n)
      /\ \A w \in waiting[s] : Has(DropOld(m), w.n) => Has(dedup', w.n)
  <2>1. dedup' = Written(DropOld(m), m, res)
    BY <1>4 DEF Written
  <2>2. /\ Written(DropOld(m), m, res) \in [Slots -> {Unused} \cup EntrySet]
        /\ (dedup_next + 1) % Entries \in Slots
        /\ Has(Written(DropOld(m), m, res), m.n)
        /\ TableFits(Written(DropOld(m), m, res), (dedup_next + 1) % Entries, OnWay(s), sent[s], m.n)
        /\ \A w \in waiting[s] : Has(DropOld(m), w.n) => Has(Written(DropOld(m), m, res), w.n)
    BY <1>5, TableWrites
  <2> QED BY <1>4, <2>1, <2>2
<1>7. TableFits(dedup', dedup_next', OnWay(s)', sent'[s], m.n)
  BY <1>6, TableLess
<1>8. ASSUME NEW w \in waiting'[s], IsRun(s, w.n)', w.op \notin Opens PROVE Has(dedup', w.n)
  <2>1. w \in waiting[s] /\ w.n \in Nat /\ N < w.n + Half
    BY NearNewest DEF OnWay
  <2>2. w.n \in Numbers
    BY <2>1 DEF Recording, OnceTypes, Requests
  <2>3. CASE w.n = m.n
    BY <1>6, <2>3
  <2>4. CASE IsRun(s, w.n)
    <3>1. Has(dedup, w.n)
      BY <1>1, <1>8, <2>1, <2>4 DEF RecordIs
    <3> QED BY <1>5, <1>6, <2>1, <3>1
  <2> QED BY <1>8, <2>2, <2>3, <2>4
<1>9. (\A i \in Handled(s)' : i <= m.n) /\ \A i \in sent'[s] : i < m.n + Half
  <2>1. \A i \in Handled(s) : i \in sent[s]
    BY DEF Recording, Pipe, AnswersFit, AnswerFits, Handled, Answered, Replied
  <2>2. (\A i \in Handled(s) : i <= N /\ i \in Nat) /\ \A i \in sent[s] : i < N + Half /\ i \in Nat
    BY <1>1, <2>1 DEF RecordIs
  <2>3. N < m.n
    OBVIOUS
  <2>k. PICK K \in Nat : K = m.n
    BY <1>2
  <2>4. (\A i \in Handled(s) : i <= K) /\ \A i \in sent[s] : i < K + Half
    BY <1>1, <2>2, <2>3, <2>k, HalfTurn
  <2> QED BY <2>4, <2>k
<1>k. PICK K \in sent[s] : K = m.n
  BY <1>2
<1>10. RecordIs(s, K)'
  BY <1>4, <1>6, <1>7, <1>8, <1>9, <1>k DEF RecordIs, corr, Has
<1> QED BY <1>6, <1>10, <1>k DEF RecordKnown

\* A new session's open is all its record holds: nothing it waits for ran before it.
LEMMA RecordOpens ==
  ASSUME OnceTypes, RecordTypes, NEW s \in Sessions, Pipe(s), QueueOrder(s), MaxInflight <= Entries,
         NEW m \in Requests, m \in Queued(s), m.op \in Opens,
         record([k \in Slots |-> Unused], m, "success"), ran' = ran,
         sent'[s] = sent[s], waiting'[s] = waiting[s],
         Handled(s)' = Handled(s) \cup {m.n}, OnWay(s)' \subseteq OnWay(s),
         \A r \in Queued(s)' : m.n < r.n + Half
  PROVE  RecordKnown(s)' /\ dedup' \in [Slots -> {Unused} \cup EntrySet] /\ dedup_next' \in Slots
<1> DEFINE x == dedup_next
           y == (dedup_next + 1) % Entries
           e == Entry(m, "success")
<1>1. x \in Slots /\ Entries \in Nat \ {0} /\ ~Unused.used
  BY NumberAssumption DEF RecordTypes, Unused
<1>2. m \in OnWay(s) /\ m.n \in sent[s] /\ m.n \in Nat /\ sent[s] \subseteq Nat /\ m.n \in Numbers
  BY NumberAssumption DEF Pipe, OnWay, Requests, OnceTypes
<1>3. y \in Slots /\ Later(x, y) = 0
  BY <1>1, LaterByOne
<1>4. newest' = corr(m.n) /\ dedup_next' = y /\ dedup' = [[k \in Slots |-> Unused] EXCEPT ![x] = e]
  BY <1>1 DEF record
<1>5. /\ e \in EntrySet /\ e.n = m.n /\ e.used /\ e.corr = corr(m.n)
      /\ e.op = m.op /\ e.fn = m.fn /\ e.res = "success"
  <2>k. PICK k \in Nat : k = m.n
    BY <1>2
  <2>1. k % Turn \in 0..(Turn - 1)
    BY HalfTurn, Remainder
  <2>2. corr(m.n) \in Nat
    BY <2>k, <2>1, HalfTurn DEF corr
  <2>3. "success" \in Results
    BY DEF Results
  <2> QED BY <1>2, <2>2, <2>3 DEF Entry, EntrySet, Requests
<1> HIDE DEF e, y
<1>6. /\ dedup' \in [Slots -> {Unused} \cup EntrySet] /\ dedup'[x] = e
      /\ \A k \in Slots : k # x => dedup'[k] = Unused
  BY <1>1, <1>4, <1>5
<1>7. TableFits(dedup', dedup_next', OnWay(s)', sent'[s], m.n)
  <2>1. \A r \in OnWay(s) : r.n = m.n => r = m
    BY <1>2 DEF Pipe, OneOf
  <2>2. EntryFits(e, OnWay(s)', sent[s], m.n)
    BY <1>2, <1>5, <2>1 DEF EntryFits
  <2>3. Between(m.n, m.n, sent[s]) = {m.n}
    BY <1>2 DEF Between
  <2>4. Cardinality({m.n}) = 1
    BY FS_Singleton
  <2>5. Cardinality(Between(e.n, m.n, sent[s])) > Later(x, y)
    BY <1>3, <1>5, <2>3, <2>4
  <2>6. \A k \in Slots : dedup'[k].used => k = x /\ dedup'[k] = e
    BY <1>1, <1>6
  <2> QED BY <1>4, <2>2, <2>5, <2>6 DEF TableFits
<1>8. \A w \in waiting'[s] : ~(IsRun(s, w.n)' /\ w.op \notin Opens)
  <2> SUFFICES ASSUME NEW w \in waiting[s], IsRun(s, w.n), w.op \notin Opens PROVE FALSE
    BY DEF IsRun
  <2>1. w \in OnWay(s) /\ w.n \in sent[s] /\ w.n \in Nat /\ w.n \in Numbers
    BY <1>2 DEF OnWay, Pipe, OnceTypes, Requests
  <2>2. w.n <= m.n
    <3>1. PICK i \in 1..Len(reqQ[s]) : m = reqQ[s][i]
      BY DEF Queued
    <3>2. MayPrecede(w.n, m)
      BY <2>1, <3>1 DEF QueueOrder
    <3> QED BY <3>2 DEF MayPrecede
  <2>3. m.n <= w.n
    BY DEF Pipe, OpensFit
  <2>4. w = m
    BY <1>2, <2>1, <2>2, <2>3 DEF Pipe, OneOf
  <2> QED BY <2>4
<1>9. (\A i \in Handled(s)' : i <= m.n) /\ \A i \in sent'[s] : i < m.n + Half
  <2>1. \A i \in Handled(s) : i <= m.n
    BY DEF Pipe, RequestsFit, MayPrecede
  <2>2. \A i \in sent[s] : i < m.n + Half
    BY DEF Pipe, OpensFit
  <2> QED BY <1>2, <2>1, <2>2
<1>10. Has(dedup', m.n)
  BY <1>1, <1>5, <1>6 DEF Has
<1>k. PICK K \in sent[s] : K = m.n
  BY <1>2
<1>11. RecordIs(s, K)'
  BY <1>4, <1>7, <1>8, <1>9, <1>10, <1>k DEF RecordIs, corr, Has
<1> QED BY <1>3, <1>4, <1>6, <1>11, <1>k DEF RecordKnown

\* A message answered with an answer of its own keeps every host's order.
LEMMA AnswerKeeps ==
  ASSUME OnceInv, RecordInv, NEW s \in Sessions, NEW m \in Requests, Take(s, m),
         reqQ' = [reqQ EXCEPT ![s] = Tail(@)], UNCHANGED hostVars,
         NEW a \in Answers, ansQ' = [ansQ EXCEPT ![s] = Append(@, a)],
         a.n = m.n, a.by = m.n, a.res # "malformed"
  PROVE  /\ \A t \in Sessions : Pipe(t)'
         /\ ansQ' \in [Sessions -> Seq(Answers)]
         /\ m \in Queued(s) /\ Handled(s)' = Handled(s) \cup {m.n} /\ OnWay(s)' \subseteq OnWay(s)
         /\ \A r \in Queued(s)' : m.n < r.n + Half
         /\ \A t \in Sessions : t # s => Handled(t)' = Handled(t) /\ OnWay(t)' = OnWay(t)
<1>1. /\ OnceTypes /\ RecordTypes
      /\ \A t \in Sessions : HostOrder(t) /\ QueueOrder(t) /\ Pipe(t)
  BY DEF OnceInv, RecordInv
<1>2. /\ reqQ[s] # <<>> /\ m = Head(reqQ[s]) /\ waiting' = waiting /\ sent' = sent
      /\ reqQ'[s] = Tail(reqQ[s]) /\ ansQ'[s] = Append(ansQ[s], a)
      /\ \A t \in Sessions : t # s => reqQ'[t] = reqQ[t] /\ ansQ'[t] = ansQ[t]
  BY <1>1 DEF Take, OnceTypes, RecordTypes, hostVars
<1>3. /\ Pipe(s)' /\ Handled(s)' = Handled(s) \cup {m.n} /\ OnWay(s)' \subseteq OnWay(s)
      /\ \A r \in Queued(s)' : m.n < r.n + Half
  <2>1. a.n = Head(reqQ[s]).n /\ a.by = a.n
    BY <1>2
  <2> QED BY <1>1, <1>2, <2>1, PipeAnswered
<1>4. \A t \in Sessions : t # s => Pipe(t)' /\ Handled(t)' = Handled(t) /\ OnWay(t)' = OnWay(t)
  BY <1>1, <1>2, PipeStays
<1>5. ansQ' \in [Sessions -> Seq(Answers)]
  <2>1. ansQ[s] \in Seq(Answers)
    BY <1>1 DEF RecordTypes
  <2>2. Append(ansQ[s], a) \in Seq(Answers)
    BY <2>1, AppendIs
  <2> QED BY <1>1, <2>2 DEF RecordTypes
<1>6. m \in Queued(s)
  <2>1. reqQ[s] \in Seq(Requests)
    BY <1>1 DEF OnceTypes
  <2> QED BY <1>2, <2>1, QueuedTail DEF Queued
<1> QED BY <1>3, <1>4, <1>5, <1>6

\* What send puts on the way is the request's own answer.
LEMMA SendIs ==
  ASSUME NEW s \in Sessions, NEW m \in Requests, NEW res \in Results, send(s, m, m.n, res)
  PROVE  /\ reqQ' = [reqQ EXCEPT ![s] = Tail(@)] /\ UNCHANGED hostVars
         /\ \E a \in Answers : /\ ansQ' = [ansQ EXCEPT ![s] = Append(@, a)]
                               /\ a.n = m.n /\ a.by = m.n /\ a.res = res
<1>1. [n |-> m.n, by |-> m.n, res |-> res] \in Answers
  BY DEF Answers, Requests
<1> QED BY <1>1 DEF send

\* The others' records are as before, or are no more.
LEMMA OthersStay ==
  ASSUME OnceInv, RecordInv, NEW s \in Sessions, NEW t \in Sessions, t # s, UNCHANGED hostVars,
         Handled(t)' = Handled(t), OnWay(t)' = OnWay(t), ran'[t] = ran[t],
         UNCHANGED <<last, newest, dedup, dedup_next>> \/ last' \in {s, NoSession}
  PROVE  RecordKnown(t)'
<1>1. CASE last' \in {s, NoSession}
  BY <1>1, SessionAssumption DEF RecordKnown
<1>2. CASE UNCHANGED <<last, newest, dedup, dedup_next>>
  <2>1. /\ OnceTypes /\ RecordTypes /\ HostOrder(t) /\ QueueOrder(t) /\ Pipe(t) /\ RecordKnown(t)
    BY DEF OnceInv, RecordInv
  <2>2. waiting'[t] \subseteq waiting[t] /\ sent'[t] = sent[t]
    BY DEF hostVars
  <2> QED BY <1>2, <2>1, <2>2, RecordStays
<1> QED BY <1>1, <1>2

\* A request is counted for its own session only.
LEMMA RanIs ==
  ASSUME OnceTypes, NEW s \in Sessions, NEW m \in Requests, ran' = ran \/ Ran(s, m)
  PROVE  /\ \A t \in Sessions : t # s => ran'[t] = ran[t]
         /\ \A n \in Numbers : IsRun(s, n)' => IsRun(s, n) \/ n = m.n
<1>1. m.n \in Numbers /\ ran \in [Sessions -> [Numbers -> 0..2]]
  BY DEF Requests, OnceTypes
<1>2. CASE ran' = ran
  BY <1>2 DEF IsRun
<1>3. CASE Ran(s, m)
  <2>1. ran' = [ran EXCEPT ![s][m.n] = IF ran[s][m.n] = 0 THEN 1 ELSE 2]
    BY <1>3 DEF Ran
  <2>2. \A t \in Sessions : t # s => ran'[t] = ran[t]
    BY <1>1, <2>1
  <2>3. \A n \in Numbers : n # m.n => ran'[s][n] = ran[s][n]
    BY <1>1, <2>1
  <2> QED BY <2>2, <2>3 DEF IsRun
<1> QED BY <1>2, <1>3

\* The last session's record, its newest number known.
LEMMA RecordOf ==
  ASSUME OnceInv, RecordInv, NEW s \in Sessions, last = s
  PROVE  \E N \in sent[s] : Recording(s, N)
BY DEF OnceInv, RecordInv, RecordKnown, Recording

\* A new request of the last session, answered and recorded.
LEMMA WriteKeeps ==
  ASSUME OnceInv, RecordInv, MaxInflight <= Entries, NEW s \in Sessions, NEW m \in Requests,
         Take(s, m), Fresh(s, m), last = s, last' = s,
         NEW res \in Results, res # "malformed", recordMine(s, m, res), send(s, m, m.n, res),
         ran' = ran \/ Ran(s, m)
  PROVE  RecordInv'
<1>1. PICK a \in Answers : /\ ansQ' = [ansQ EXCEPT ![s] = Append(@, a)]
                           /\ a.n = m.n /\ a.by = m.n /\ a.res = res
  BY SendIs
<1>2. reqQ' = [reqQ EXCEPT ![s] = Tail(@)] /\ UNCHANGED hostVars
  BY SendIs
<1>3. /\ \A t \in Sessions : Pipe(t)'
      /\ ansQ' \in [Sessions -> Seq(Answers)]
      /\ m \in Queued(s) /\ Handled(s)' = Handled(s) \cup {m.n} /\ OnWay(s)' \subseteq OnWay(s)
      /\ \A r \in Queued(s)' : m.n < r.n + Half
      /\ \A t \in Sessions : t # s => Handled(t)' = Handled(t) /\ OnWay(t)' = OnWay(t)
  BY <1>1, <1>2, AnswerKeeps
<1>4. OnceTypes
  BY DEF OnceInv
<1>5. /\ \A t \in Sessions : t # s => ran'[t] = ran[t]
      /\ \A n \in Numbers : IsRun(s, n)' => IsRun(s, n) \/ n = m.n
  BY <1>4, RanIs
<1>6. \A t \in Sessions : t # s => RecordKnown(t)'
  BY <1>2, <1>3, <1>5, OthersStay
<1>7. PICK N \in sent[s] : Recording(s, N)
  BY RecordOf
<1>8. m \in OnWay(s) /\ N < m.n
  BY <1>3, <1>7, InOrderIsPast DEF OnWay, Fresh, mine
<1>9. record(DropOld(m), m, res)
  BY DEF recordMine, mine
<1>10. sent'[s] = sent[s] /\ waiting'[s] = waiting[s]
  BY <1>2 DEF hostVars
<1>11. RecordKnown(s)' /\ dedup' \in [Slots -> {Unused} \cup EntrySet] /\ dedup_next' \in Slots
  BY <1>3, <1>5, <1>7, <1>8, <1>9, <1>10, RecordWrites
<1> QED BY <1>3, <1>6, <1>11 DEF RecordInv, RecordTypes

\* A request of the last session that is not run, its answer recorded before or lost.
LEMMA DropStepKeeps ==
  ASSUME OnceInv, RecordInv, NEW s \in Sessions, NEW m \in Requests, Take(s, m), last = s, last' = s,
         NEW N \in sent[s], Recording(s, N), m.n <= N,
         NEW res \in Results, res # "malformed", send(s, m, m.n, res),
         dedup' = DropOld(m), UNCHANGED <<newest, dedup_next, ran>>
  PROVE  RecordInv'
<1>1. PICK a \in Answers : /\ ansQ' = [ansQ EXCEPT ![s] = Append(@, a)]
                           /\ a.n = m.n /\ a.by = m.n /\ a.res = res
  BY SendIs
<1>2. reqQ' = [reqQ EXCEPT ![s] = Tail(@)] /\ UNCHANGED hostVars
  BY SendIs
<1>3. /\ \A t \in Sessions : Pipe(t)'
      /\ ansQ' \in [Sessions -> Seq(Answers)]
      /\ Handled(s)' = Handled(s) \cup {m.n} /\ OnWay(s)' \subseteq OnWay(s)
      /\ \A t \in Sessions : t # s => Handled(t)' = Handled(t) /\ OnWay(t)' = OnWay(t)
  BY <1>1, <1>2, AnswerKeeps
<1>4. \A t \in Sessions : t # s => RecordKnown(t)'
  BY <1>2, <1>3, OthersStay
<1>5. sent'[s] = sent[s] /\ waiting'[s] = waiting[s]
  BY <1>2 DEF hostVars
<1>6. RecordKnown(s)'
  BY <1>3, <1>5, RecordDrops
<1>7. dedup' \in [Slots -> {Unused} \cup EntrySet] /\ dedup_next' \in Slots
  BY DropKeeps DEF RecordInv, RecordTypes
<1> QED BY <1>3, <1>4, <1>6, <1>7 DEF RecordInv, RecordTypes

\* Every message handled keeps the record: one case per way out.
LEMMA MessageRecord ==
  ASSUME OnceInv, RecordInv, RecordSpans, MaxInflight <= Entries, NEW s \in Sessions, handleMessage(s)
  PROVE  RecordInv'
<1>1. PICK m \in Requests :
        \/ Resent(s, m) \/ ResultLost(s, m) \/ Refused(s, m)
        \/ OpenAgain(s, m) \/ OpenNew(s, m)
        \/ Run(s, m) \/ End(s, m) \/ Restart(s, m)
  BY DEF handleMessage
<1>2. Live /\ holder = s => last = s
  BY DEF OnceInv, HeldInv, NothingOutlivesItsSession, Live
<1>3. Take(s, m)
  BY <1>1 DEF Resent, ResentAnswer, ResultLost, Refused, OpenAgain, OpenNew, Run, End, Restart
<1>4. m \in Queued(s) /\ m \in OnWay(s)
  <2>1. reqQ[s] \in Seq(Requests)
    BY DEF OnceInv, OnceTypes
  <2> QED BY <1>3, <2>1, QueuedTail DEF Queued, OnWay, Take
<1>5. /\ "success" \in Results /\ "unavailable" \in Results /\ "locked" \in Results
      /\ "no_session" \in Results /\ "result_lost" \in Results
  BY DEF Results
<1>6. OnceTypes /\ RecordTypes /\ \A t \in Sessions : Pipe(t) /\ HostOrder(t) /\ QueueOrder(t)
  BY DEF OnceInv, RecordInv
<1>7. CASE Resent(s, m)
  <2>1. /\ last = s /\ last' = s /\ Recorded(m) # {} /\ dedup' = DropOld(m)
        /\ UNCHANGED <<newest, dedup_next, ran>>
    BY <1>7 DEF Resent, ResentAnswer, mine, lapse
  <2>2. PICK N \in sent[s] : Recording(s, N)
    BY <2>1, RecordOf
  <2> DEFINE k == CHOOSE j \in Recorded(m) : TRUE
             res == IF ~dedup[k].kept THEN "result_lost"
                    ELSE IF dedup[k].op # m.op \/ dedup[k].fn # m.fn THEN "malformed" ELSE dedup[k].res
  <2>3. send(s, m, dedup[k].n, res)
    BY <1>7 DEF Resent, ResentAnswer
  <2>4. k \in Recorded(m)
    BY <2>1
  <2> HIDE DEF k
  <2>5. /\ dedup[k].n = m.n /\ m.n <= N /\ dedup[k].res # "malformed"
        /\ dedup[k].op = m.op /\ dedup[k].fn = m.fn
    BY <1>4, <2>2, <2>4, RecordedIsOwn
  <2>6. dedup[k].res \in Results
    <3>1. k \in Slots /\ dedup[k].used
      BY <2>4 DEF Recorded, OfCorr
    <3>2. dedup[k] \in {Unused} \cup EntrySet
      BY <1>6, <3>1 DEF RecordTypes
    <3>3. ~Unused.used
      BY DEF Unused
    <3>4. dedup[k] \in EntrySet
      BY <3>1, <3>2, <3>3
    <3> QED BY <3>4 DEF EntrySet
  <2>7. res \in Results /\ res # "malformed"
    BY <1>5, <2>5, <2>6
  <2> HIDE DEF res
  <2>8. send(s, m, m.n, res)
    BY <2>3, <2>5
  <2> QED BY <1>3, <2>1, <2>2, <2>5, <2>7, <2>8, DropStepKeeps
<1>8. CASE ResultLost(s, m)
  <2>1. /\ last = s /\ last' = s /\ OutOfOrder(m) /\ dedup' = DropOld(m)
        /\ send(s, m, m.n, "result_lost") /\ UNCHANGED <<newest, dedup_next, ran>>
    BY <1>8 DEF ResultLost, mine, lapse
  <2>2. PICK N \in sent[s] : Recording(s, N)
    BY <2>1, RecordOf
  <2>3. m.n <= N
    BY <1>4, <2>1, <2>2, OutOfOrderIsPast
  <2> QED BY <1>3, <1>5, <2>1, <2>2, <2>3, DropStepKeeps
<1>9. CASE Refused(s, m)
  <2>1. last' = last /\ ran' = ran /\ Fresh(s, m)
    BY <1>9 DEF Refused, lapse
  <2>2. PICK res \in {"locked", "no_session"} : recordMine(s, m, res) /\ send(s, m, m.n, res)
    BY <1>9 DEF Refused
  <2>3. res \in Results /\ res # "malformed"
    BY <1>5
  <2>4. CASE last = s
    BY <1>3, <2>1, <2>2, <2>3, <2>4, WriteKeeps
  <2>5. CASE last # s
    <3>1. UNCHANGED <<newest, dedup, dedup_next>>
      BY <2>2, <2>5 DEF recordMine, mine, tableVars
    <3>2. PICK a \in Answers : /\ ansQ' = [ansQ EXCEPT ![s] = Append(@, a)]
                               /\ a.n = m.n /\ a.by = m.n /\ a.res = res
      BY <2>2, <2>3, SendIs
    <3>3. reqQ' = [reqQ EXCEPT ![s] = Tail(@)] /\ UNCHANGED hostVars
      BY <2>2, <2>3, SendIs
    <3>4. /\ \A t \in Sessions : Pipe(t)'
          /\ ansQ' \in [Sessions -> Seq(Answers)]
          /\ \A t \in Sessions : t # s => Handled(t)' = Handled(t) /\ OnWay(t)' = OnWay(t)
      BY <1>3, <2>3, <3>2, <3>3, AnswerKeeps
    <3>5. \A t \in Sessions : t # s => RecordKnown(t)'
      BY <2>1, <3>1, <3>3, <3>4, OthersStay
    <3>6. RecordKnown(s)'
      BY <2>1, <2>5 DEF RecordKnown
    <3> QED BY <1>6, <3>1, <3>4, <3>5, <3>6 DEF RecordInv, RecordTypes
  <2> QED BY <2>4, <2>5
<1>10. CASE OpenAgain(s, m) \/ Run(s, m) \/ End(s, m)
  <2>1. last = s /\ last' = s /\ Fresh(s, m) /\ Ran(s, m)
    BY <1>2, <1>10 DEF OpenAgain, Run, End
  <2>2. PICK res \in {"success", "unavailable"} : recordMine(s, m, res) /\ send(s, m, m.n, res)
    BY <1>10 DEF OpenAgain, Run, End
  <2>3. res \in Results /\ res # "malformed"
    BY <1>5
  <2> QED BY <1>3, <2>1, <2>2, <2>3, WriteKeeps
<1>11. CASE OpenNew(s, m)
  <2>1. /\ last' = s /\ ran' = ran /\ m.op \in Opens /\ send(s, m, m.n, "success")
        /\ record([k \in Slots |-> Unused], m, "success")
    BY <1>11 DEF OpenNew, Opens
  <2>2. PICK a \in Answers : /\ ansQ' = [ansQ EXCEPT ![s] = Append(@, a)]
                             /\ a.n = m.n /\ a.by = m.n /\ a.res = "success"
    BY <1>5, <2>1, SendIs
  <2>3. reqQ' = [reqQ EXCEPT ![s] = Tail(@)] /\ UNCHANGED hostVars
    BY <1>5, <2>1, SendIs
  <2>4. /\ \A t \in Sessions : Pipe(t)'
        /\ ansQ' \in [Sessions -> Seq(Answers)]
        /\ Handled(s)' = Handled(s) \cup {m.n} /\ OnWay(s)' \subseteq OnWay(s)
        /\ \A r \in Queued(s)' : m.n < r.n + Half
        /\ \A t \in Sessions : t # s => Handled(t)' = Handled(t) /\ OnWay(t)' = OnWay(t)
    BY <1>3, <2>2, <2>3, AnswerKeeps
  <2>5. \A t \in Sessions : t # s => RecordKnown(t)'
    BY <2>1, <2>3, <2>4, OthersStay
  <2>6. sent'[s] = sent[s] /\ waiting'[s] = waiting[s]
    BY <2>3 DEF hostVars
  <2>7. RecordKnown(s)' /\ dedup' \in [Slots -> {Unused} \cup EntrySet] /\ dedup_next' \in Slots
    BY <1>4, <1>6, <2>1, <2>4, <2>6, RecordOpens
  <2> QED BY <2>4, <2>5, <2>7 DEF RecordInv, RecordTypes
<1>12. CASE Restart(s, m)
  <2>1. /\ last' = NoSession /\ dedup' = [k \in Slots |-> Unused] /\ dedup_next' = 0
        /\ reqQ' = [reqQ EXCEPT ![s] = Tail(@)] /\ UNCHANGED hostVars
        /\ ansQ' = [ansQ EXCEPT ![s] = Append(@, [n |-> m.n, by |-> m.n, res |-> "success"])]
    BY <1>12 DEF Restart, PowerOn
  <2>2. [n |-> m.n, by |-> m.n, res |-> "success"] \in Answers
    BY <1>5 DEF Answers, Requests
  <2>3. (\A t \in Sessions : Pipe(t)') /\ ansQ' \in [Sessions -> Seq(Answers)]
    BY <1>3, <2>1, <2>2, AnswerKeeps
  <2>4. 0 \in Slots
    BY NumberAssumption DEF Slots
  <2> QED BY <2>1, <2>3, <2>4, SessionAssumption DEF RecordInv, RecordTypes, RecordKnown
<1> QED BY <1>1, <1>7, <1>8, <1>9, <1>10, <1>11, <1>12

\* The hosts and the transports keep it.
LEMMA HostRecord ==
  ASSUME OpenAlone, OnceInv, RecordInv, NEW s \in Sessions,
         HostOpen(s) \/ HostRequest(s) \/ HostResend(s) \/ HostReceive(s) \/ Lose(s)
  PROVE  RecordInv'
<1>1. /\ OnceTypes /\ RecordTypes
      /\ \A t \in Sessions : HostOrder(t) /\ QueueOrder(t) /\ Pipe(t) /\ RecordKnown(t)
  BY DEF OnceInv, RecordInv
<1>2. UNCHANGED <<last, newest, dedup, dedup_next, ran>>
  BY DEF HostOpen, HostRequest, HostResend, HostReceive, Lose, Submit, probeVars, lockVars, tableVars
<1>3. ASSUME Pipe(s)', RecordKnown(s)', ansQ' \in [Sessions -> Seq(Answers)],
             \A t \in Sessions : t # s => /\ waiting'[t] = waiting[t] /\ sent'[t] = sent[t]
                                          /\ reqQ'[t] = reqQ[t] /\ ansQ'[t] = ansQ[t]
      PROVE  RecordInv'
  <2>1. ASSUME NEW t \in Sessions, t # s PROVE Pipe(t)' /\ RecordKnown(t)'
    <3>1. Pipe(t)' /\ Handled(t)' = Handled(t) /\ OnWay(t)' = OnWay(t)
      BY <1>1, <1>3, <2>1, PipeStays
    <3>2. waiting'[t] \subseteq waiting[t] /\ sent'[t] = sent[t]
      BY <1>3, <2>1
    <3> QED BY <1>1, <1>2, <3>1, <3>2, RecordStays
  <2>2. RecordTypes'
    BY <1>1, <1>2, <1>3 DEF RecordTypes
  <2> QED BY <1>3, <2>1, <2>2 DEF RecordInv
<1>4. CASE HostOpen(s) \/ HostRequest(s)
  <2>1. PICK op \in Ops, f \in Fns : Submit(s, op, f) /\ Waits(s, op)
    BY <1>4 DEF HostOpen, HostRequest, Waits
  <2>2. PICK n \in NextNumbers(s) :
          /\ waiting' = [waiting EXCEPT ![s] = @ \cup {[n |-> n, op |-> op, fn |-> f]}]
          /\ reqQ' = [reqQ EXCEPT ![s] = Append(@, [n |-> n, op |-> op, fn |-> f])]
          /\ sent' = [sent EXCEPT ![s] = @ \cup {n}]
    BY <2>1 DEF Submit
  <2>3. ansQ' = ansQ
    BY <2>1 DEF Submit
  <2> DEFINE r == [n |-> n, op |-> op, fn |-> f]
  <2>4. /\ waiting'[s] = waiting[s] \cup {r} /\ reqQ'[s] = Append(reqQ[s], r)
        /\ sent'[s] = sent[s] \cup {n}
        /\ \A t \in Sessions : t # s => /\ waiting'[t] = waiting[t] /\ sent'[t] = sent[t]
                                        /\ reqQ'[t] = reqQ[t]
    BY <1>1, <2>2 DEF OnceTypes
  <2>5. r = [n |-> n, op |-> op, fn |-> f] /\ r.n = n
    OBVIOUS
  <2> HIDE DEF r
  <2>6. /\ Pipe(s)' /\ Handled(s)' = Handled(s) /\ OnWay(s)' = OnWay(s) \cup {r}
        /\ n \in Nat /\ \A i \in sent[s] : i < n
    BY <1>1, <2>1, <2>3, <2>4, <2>5, PipeSubmits
  <2>7. RecordKnown(s)'
    BY <1>1, <1>2, <2>4, <2>5, <2>6, RecordSubmits
  <2> QED BY <1>1, <1>3, <2>3, <2>4, <2>6, <2>7 DEF RecordTypes
<1>5. CASE HostResend(s)
  <2>1. PICK r \in waiting[s] : reqQ' = [reqQ EXCEPT ![s] = Append(@, r)]
    BY <1>5 DEF HostResend
  <2>2. UNCHANGED <<waiting, sent, ansQ>>
    BY <1>5 DEF HostResend, hostVars
  <2>3. reqQ'[s] = Append(reqQ[s], r) /\ \A t \in Sessions : t # s => reqQ'[t] = reqQ[t]
    BY <1>1, <2>1 DEF OnceTypes
  <2>4. Pipe(s)' /\ Handled(s)' = Handled(s) /\ OnWay(s)' = OnWay(s)
    BY <1>1, <2>2, <2>3, PipeResends
  <2>5. RecordKnown(s)'
    BY <1>1, <1>2, <2>2, <2>4, RecordStays
  <2> QED BY <1>1, <1>3, <2>2, <2>3, <2>4, <2>5 DEF RecordTypes
<1>6. CASE HostReceive(s)
  <2>1. /\ ansQ[s] # <<>> /\ ansQ' = [ansQ EXCEPT ![s] = Tail(@)] /\ UNCHANGED <<sent, reqQ>>
        /\ waiting' = [waiting EXCEPT ![s] = @ \ Asked(s, Head(ansQ[s]))]
    BY <1>6 DEF HostReceive
  <2>2. /\ ansQ'[s] = Tail(ansQ[s]) /\ waiting'[s] = waiting[s] \ Asked(s, Head(ansQ[s]))
        /\ \A t \in Sessions : t # s => waiting'[t] = waiting[t] /\ ansQ'[t] = ansQ[t]
    BY <1>1, <2>1 DEF OnceTypes, RecordTypes
  <2>3. Tail(ansQ[s]) \in Seq(Answers)
    BY <1>1, <2>1, TailIs DEF RecordTypes
  <2>4. ansQ' \in [Sessions -> Seq(Answers)]
    BY <1>1, <2>1, <2>3 DEF RecordTypes
  <2>5. Pipe(s)' /\ Handled(s)' \subseteq Handled(s) /\ OnWay(s)' \subseteq OnWay(s)
    BY <1>1, <2>1, <2>2, PipeReceives
  <2>6. RecordKnown(s)'
    BY <1>1, <1>2, <2>1, <2>2, <2>5, RecordStays
  <2> QED BY <1>3, <2>1, <2>2, <2>4, <2>5, <2>6
<1>7. CASE Lose(s)
  <2>1. UNCHANGED <<waiting, sent>>
    BY <1>7 DEF Lose, hostVars
  <2>2. /\ \/ reqQ[s] # <<>> /\ reqQ'[s] = Tail(reqQ[s]) /\ ansQ'[s] = ansQ[s]
           \/ ansQ[s] # <<>> /\ ansQ'[s] = Tail(ansQ[s]) /\ reqQ'[s] = reqQ[s]
        /\ \A t \in Sessions : t # s => reqQ'[t] = reqQ[t] /\ ansQ'[t] = ansQ[t]
    BY <1>1, <1>7 DEF Lose, OnceTypes, RecordTypes
  <2>3. ansQ' \in [Sessions -> Seq(Answers)]
    <3>1. CASE ansQ' = ansQ
      BY <1>1, <3>1 DEF RecordTypes
    <3>2. CASE ansQ[s] # <<>> /\ ansQ' = [ansQ EXCEPT ![s] = Tail(@)]
      <4>1. Tail(ansQ[s]) \in Seq(Answers)
        BY <1>1, <3>2, TailIs DEF RecordTypes
      <4> QED BY <1>1, <3>2, <4>1 DEF RecordTypes
    <3> QED BY <1>7, <3>1, <3>2 DEF Lose
  <2>4. Pipe(s)' /\ Handled(s)' \subseteq Handled(s) /\ OnWay(s)' \subseteq OnWay(s)
    BY <1>1, <2>1, <2>2, PipeLoses
  <2>5. RecordKnown(s)'
    BY <1>1, <1>2, <2>1, <2>4, RecordStays
  <2> QED BY <1>3, <2>1, <2>2, <2>3, <2>4, <2>5
<1> QED BY <1>4, <1>5, <1>6, <1>7

\* Every step keeps it, from a state whose record spans less than a turn.
LEMMA StepRecord ==
  ASSUME OpenAlone, MaxInflight <= Entries, OnceInv, RecordInv, RecordSpans, [Next]_vars
  PROVE  RecordInv'
<1>1. CASE \E s \in Sessions : handleMessage(s)
  BY <1>1, MessageRecord
<1>2. CASE \E s \in Sessions : \/ HostOpen(s) \/ HostRequest(s) \/ HostResend(s)
                               \/ HostReceive(s) \/ Lose(s)
  BY <1>2, HostRecord
<1>3. ASSUME UNCHANGED <<hostVars, reqQ, ansQ, ran>>,
             \/ UNCHANGED <<last, newest, dedup, dedup_next>>
             \/ last' = NoSession /\ dedup' = [k \in Slots |-> Unused] /\ dedup_next' = 0
      PROVE  RecordInv'
  <2>1. /\ OnceTypes /\ RecordTypes
        /\ \A t \in Sessions : HostOrder(t) /\ QueueOrder(t) /\ Pipe(t) /\ RecordKnown(t)
    BY DEF OnceInv, RecordInv
  <2>2. \A t \in Sessions : Pipe(t)' /\ Handled(t)' = Handled(t) /\ OnWay(t)' = OnWay(t)
    BY <1>3, <2>1, PipeStays DEF hostVars
  <2>3. \A t \in Sessions : RecordKnown(t)'
    <3>1. CASE UNCHANGED <<last, newest, dedup, dedup_next>>
      <4> SUFFICES ASSUME NEW t \in Sessions PROVE RecordKnown(t)'
        OBVIOUS
      <4>1. waiting'[t] \subseteq waiting[t] /\ sent'[t] = sent[t] /\ ran'[t] = ran[t]
        BY <1>3 DEF hostVars
      <4> QED BY <2>1, <2>2, <3>1, <4>1, RecordStays
    <3>2. CASE last' = NoSession
      BY <3>2, SessionAssumption DEF RecordKnown
    <3> QED BY <1>3, <3>1, <3>2
  <2>4. RecordTypes'
    <3>1. 0 \in Slots
      BY NumberAssumption DEF Slots
    <3>2. CASE UNCHANGED <<last, newest, dedup, dedup_next>>
      BY <1>3, <2>1, <3>2 DEF RecordTypes
    <3>3. CASE dedup' = [k \in Slots |-> Unused] /\ dedup_next' = 0
      BY <1>3, <2>1, <3>1, <3>3 DEF RecordTypes
    <3> QED BY <1>3, <3>2, <3>3
  <2> QED BY <2>2, <2>3, <2>4 DEF RecordInv
<1>4. CASE Poll
  BY <1>3, <1>4 DEF Poll, lapse, tableVars
<1>5. CASE Tick \/ replacePlan
  BY <1>3, <1>5 DEF Tick, replacePlan, lockVars, tableVars
<1>6. CASE PowerLoss
  BY <1>3, <1>6 DEF PowerLoss, PowerOn
<1>7. CASE UNCHANGED vars
  BY <1>3, <1>7 DEF vars, lockVars, tableVars
<1> QED BY <1>1, <1>2, <1>4, <1>5, <1>6, <1>7 DEF Next

\* Nothing is sent, answered or recorded at first.
LEMMA InitRecord == ASSUME MaxInflight <= Entries PROVE Init => RecordInv
<1> SUFFICES ASSUME Init PROVE RecordInv
  OBVIOUS
<1>1. /\ last = NoSession /\ dedup = [k \in Slots |-> Unused] /\ dedup_next = 0
      /\ sent = [s \in Sessions |-> {}] /\ waiting = [s \in Sessions |-> {}]
      /\ reqQ = [s \in Sessions |-> <<>>] /\ ansQ = [s \in Sessions |-> <<>>]
  BY DEF Init
<1>2. RecordTypes
  <2>1. 0 \in Slots
    BY NumberAssumption DEF Slots
  <2> QED BY <1>1, <2>1 DEF RecordTypes
<1>3. ASSUME NEW s \in Sessions PROVE Pipe(s) /\ RecordKnown(s)
  <2>1. sent[s] = {} /\ waiting[s] = {} /\ reqQ[s] = <<>> /\ ansQ[s] = <<>>
    BY <1>1
  <2>2. Queued(s) = {} /\ OnWay(s) = {} /\ Answered(s) = {} /\ Len(ansQ[s]) = 0
    BY <2>1 DEF Queued, OnWay, Answered
  <2>3. \E M \in Nat : \A n \in sent[s] : n <= M
    BY <2>1
  <2>4. Pipe(s)
    BY <2>1, <2>2, <2>3 DEF Pipe, OneOf, AnswersFit, RequestsFit, OpensFit, FewFrom
  <2>5. RecordKnown(s)
    BY <1>1, SessionAssumption DEF RecordKnown
  <2> QED BY <2>4, <2>5
<1> QED BY <1>2, <1>3 DEF RecordInv

\* What the record holds answers a resend with its own result, and is there.
LEMMA RecordInvServes == ASSUME OnceInv, RecordInv PROVE RecordServes
<1>1. OnceTypes /\ RecordTypes /\ \A s \in Sessions : Pipe(s) /\ HostOrder(s)
  BY DEF OnceInv, RecordInv
<1>2. OwnAnswer
  <2> SUFFICES ASSUME NEW s \in Sessions, ansQ[s] # <<>>, NEW r \in Asked(s, Head(ansQ[s]))
               PROVE  LET a == Head(ansQ[s])
                      IN  r.n = a.n /\ a.by = a.n /\ a.res # "malformed"
    BY DEF OwnAnswer
  <2> QED BY <1>1, AskedIsOwn DEF AnswerFits
<1>3. RecordCoversInflight
  <2> SUFFICES ASSUME NEW s \in Sessions, NEW r \in waiting[s], last = s, ran[s][r.n] > 0, r.op \notin Opens
               PROVE  \E k \in Slots : dedup[k].used /\ dedup[k].n = r.n /\ ~Old(k)
    BY DEF RecordCoversInflight, Opens
  <2>1. PICK N \in sent[s] : Recording(s, N)
    BY RecordOf
  <2>2. PICK k \in Slots : dedup[k].used /\ dedup[k].n = r.n
    BY <2>1 DEF Recording, RecordIs, IsRun, Has
  <2>3. N \in Nat /\ r.n \in Nat /\ N < r.n + Half
    BY <2>1, NearNewest, RecordNumbers DEF OnWay
  <2>4. ~Old(k)
    BY <2>1, <2>2, <2>3, OldIsHalf, HalfTurn
  <2> QED BY <2>2, <2>4
<1> QED BY <1>2, <1>3 DEF RecordServes

\* While the record spans less than a turn of corr, and has an entry for every
\* request a host may keep unanswered (OepEndpoint.h: bounded), a request sent
\* again is answered with its own result, and one that ran is in the record until
\* its answer came - whatever is lost, sent again or recorded in between, and over
\* the wrap of corr (src/src/OepEndpoint.cpp: handleMessage, resent, record).
THEOREM RecordServesResends ==
  ASSUME OpenAlone, MaxInflight <= Entries
  PROVE  Spec /\ []RecordSpans => []RecordServes
<1>1. Init => OnceInv /\ RecordInv
  BY InitOnce, InitRecord
<1>2. OnceInv /\ RecordInv /\ RecordSpans /\ [Next]_vars => OnceInv' /\ RecordInv'
  BY StepOnce, StepRecord
<1>3. OnceInv /\ RecordInv => RecordServes
  BY RecordInvServes
<1> QED BY <1>1, <1>2, <1>3, PTL DEF Spec
=============================================================================
