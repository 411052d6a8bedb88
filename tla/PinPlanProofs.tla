--------------------------- MODULE PinPlanProofs ---------------------------
(* What of the plan and the pin table is proved, for any fns, channels and *)
(* limits, whether requests repeat a plan or not; and of the parts beside  *)
(* them: the memo's objects, for any names, sizes and contents, and a      *)
(* position stream and its host, for any sizes and any wrap of the serials;*)
(* a UART's receive ledger between its driver and loop(), for any batches, *)
(* queues and losses; the words of a target's mailbox, for any frames and  *)
(* input, of which a poll misses one access.                               *)
EXTENDS MCPinPlan, FiniteSetTheorems, SequenceTheorems, NaturalsInduction, WellFoundedInduction, TLAPS

Blinkless == \A c \in Channels : pad[c] = "set" /\ pad'[c] = "idle" => owner'[c] = NoOne

(* A release settled idles no pad that has an owner. *)
LEMMA SettledIdlesFree ==
  ASSUME NEW own, NEW idled, NEW c \in Channels,
         pad[c] = "set", settleIdle(own, idled)[c] = "idle"
  PROVE  own[c] = NoOne
BY DEF settleIdle

(* An operation that ends in a settled table blinks no pad. *)
LEMMA BecomesBlinkless ==
  ASSUME NEW s, NEW bag, NEW held, NEW who, NEW answer,
         Becomes(s, bag, held, who, answer)
  PROVE  Blinkless
BY SettledIdlesFree DEF Becomes, Blinkless

(* A request refused before anything changed. *)
LEMMA UnavailableBlinkless ==
  ASSUME NEW who, Unavailable(who)
  PROVE  Blinkless
BY DEF Unavailable, Blinkless

(* replaceFns, whichever way it ends: refused, undone or done. *)
LEMMA ReplaceBlinkless ==
  ASSUME NEW R, NEW F, NEW held, NEW who, replaceFns(R, F, held, who)
  PROVE  Blinkless
<1>1. CASE Unavailable(who)
  BY <1>1, UnavailableBlinkless
<1>2. CASE \E A : Put(R, A, held, who)
  <2> PICK A : Put(R, A, held, who)
    BY <1>2
  <2>1. \E s, bag, keep, answer : Becomes(s, bag, keep, who, answer)
    BY DEF Put, Undone
  <2> QED
    BY <2>1, BecomesBlinkless
<1> QED
  BY <1>1, <1>2 DEF replaceFns

(* plan_release and the session's end. *)
LEMMA ReleaseBlinkless ==
  /\ \A F : planReleaseRequest(F) => Blinkless
  /\ loseSession => Blinkless
<1>1. ASSUME NEW F, planReleaseRequest(F) PROVE Blinkless
  <2>1. CASE Unavailable("host")
    BY <2>1, UnavailableBlinkless
  <2>2. CASE \E mine : LetGo(mine, "host")
    BY <2>2, BecomesBlinkless DEF LetGo
  <2> QED
    BY <1>1, <2>1, <2>2 DEF planReleaseRequest
<1>2. ASSUME loseSession PROVE Blinkless
  BY <1>2, SettledIdlesFree DEF loseSession, Blinkless
<1> QED
  BY <1>1, <1>2

(* The rest: what sets pads, and the settings. *)
LEMMA OthersBlinkless ==
  /\ \A f, c : SetPad(f, c) => Blinkless
  /\ \A f : Capture(f) => Blinkless
  /\ \A F : Bind(F) => Blinkless
  /\ \A C : Attach(C) => Blinkless
  /\ Detach => Blinkless
  /\ \A D : setDisabled(D) => Blinkless
<1>1. \A f, c : SetPad(f, c) => Blinkless
  BY DEF SetPad, Blinkless
<1>2. \A f : Capture(f) => Blinkless
  BY DEF Capture, Blinkless
<1>3. \A F : Bind(F) => Blinkless
  BY DEF Bind, Blinkless
<1>4. \A C : Attach(C) => Blinkless
  BY DEF Attach, Blinkless
<1>5. Detach => Blinkless
  BY SettledIdlesFree DEF Detach, Blinkless
<1>6. \A D : setDisabled(D) => Blinkless
  BY DEF setDisabled, Blinkless
<1> QED
  BY <1>1, <1>2, <1>3, <1>4, <1>5, <1>6

(* A channel in the old plan and the new one is never blinked, whatever    *)
(* the replacement does with it meanwhile: a pad is idled only when its    *)
(* channel is left without an owner (deferIdle, settleIdle).               *)
THEOREM NoBlink == Spec => NeverBlinks
<1>1. Next => Blinkless
  <2>1. ASSUME NEW R, planApply(R) PROVE Blinkless
    BY <2>1, UnavailableBlinkless, ReplaceBlinkless DEF planApply
  <2>2. ASSUME NEW R, NEW F, replacePlan(R, F) PROVE Blinkless
    BY <2>2, ReplaceBlinkless DEF replacePlan
  <2> QED
    BY <2>1, <2>2, ReleaseBlinkless, OthersBlinkless DEF Next
<1>2. [Next]_vars => [Blinkless]_vars
  BY <1>1
<1> QED
  BY <1>2, PTL DEF Spec, NeverBlinks, Blinkless
-----------------------------------------------------------------------------
(* Tables, interfaces and owners agree, and a replacement is all or        *)
(* nothing: of requests that do not repeat a plan a fn has, over channels  *)
(* the settings have not disabled.                                         *)

PlanTypes ==
  /\ plan \in [Roles -> {0, 1}]
  /\ planned \in SUBSET Fns /\ persistent \in SUBSET Fns
  /\ pins \in [Fns -> SUBSET Channels]
  /\ bound \in SUBSET Fns
  /\ owner \in [Channels -> Fns \cup {Wire, NoOne}]
  /\ pad \in [Channels -> {"idle", "set"}]

(* No fn owns a disabled channel. *)
DisabledAreFree == \A c \in Channels : owner[c] \in Fns => c \notin disabled

PlanInv == PlanTypes /\ PlanAgrees /\ DisabledAreFree

(* The fns, kind by kind. *)
LEMMA Kinds ==
  /\ Fns \subseteq Nat /\ Wire \notin Fns /\ NoOne \notin Fns /\ Wire # NoOne
  /\ \A f \in Fns : \/ f \in Drivers /\ f \notin Listeners /\ f \notin Analogs
                    \/ f \in Listeners /\ f \notin Drivers /\ f \notin Analogs
                    \/ f \in Analogs /\ f \notin Drivers /\ f \notin Listeners
  /\ Drivers \subseteq Fns /\ Listeners \subseteq Fns /\ Analogs \subseteq Fns
BY FnsAssumption DEF Fns, Tracks

(* Who has a channel is who works on it. *)
LEMMA OwnerIs ==
  ASSUME PlanInv
  PROVE  /\ \A f \in Fns : RolesOf(plan, f) = pins[f] /\ (f \in planned <=> pins[f] # {})
         /\ persistent \subseteq planned
         /\ \A f \in Fns \ Listeners, c \in Channels : owner[c] = f <=> c \in pins[f]
         /\ \A f \in Listeners, c \in Channels : owner[c] # f
BY Kinds DEF PlanInv, PlanAgrees, PlanIsWhatIsHeld, PlanTypes

(* With each role once, the copies of a fn's roles are its channels.       *)
LEMMA CopiesOnce ==
  ASSUME PlanTypes, NEW f \in Fns
  PROVE  /\ IsFiniteSet(RolesOf(plan, f))
         /\ Cardinality(Copies(plan, f)) = Cardinality(RolesOf(plan, f))
<1> DEFINE S == RolesOf(plan, f)
           T == Copies(plan, f)
           h == [c \in S |-> <<c, 1>>]
<1>1. S \in SUBSET Channels
  BY DEF RolesOf
<1>2. IsFiniteSet(S)
  <2> HIDE DEF S
  <2> QED BY <1>1, FnsAssumption, FS_Subset
<1>3. 1 \in 1 .. MaxRoles /\ 1 .. MaxRoles \subseteq Nat \ {0}
  BY FnsAssumption
<1>4. \A c \in Channels : plan[<<f, c>>] \in {0, 1}
  BY DEF PlanTypes, Roles
<1>5. T = {<<c, 1>> : c \in S}
  <2>1. \A e \in T : e[1] \in Channels /\ e[2] \in Nat \ {0} /\ e[2] <= plan[<<f, e[1]>>] /\ e = <<e[1], e[2]>>
    BY <1>3 DEF Copies
  <2>2. \A e \in T : e[1] \in S /\ e[2] = 1 /\ e = <<e[1], 1>>
    BY <1>4, <2>1 DEF RolesOf
  <2>3. \A c \in S : <<c, 1>> \in T
    BY <1>3, <1>4 DEF RolesOf, Copies
  <2> HIDE DEF S, T
  <2>4. \A e \in T : e \in {<<c, 1>> : c \in S}
    BY <2>2
  <2>5. \A e \in {<<c, 1>> : c \in S} : e \in T
    BY <2>3
  <2> QED BY <2>4, <2>5
<1>6. h \in Bijection(S, T)
  <2> HIDE DEF S, T
  <2>1. h \in [S -> T]
    BY <1>5
  <2>2. \A a, b \in S : h[a] = h[b] => a = b
    OBVIOUS
  <2>3. \A t \in T : \E a \in S : h[a] = t
    BY <1>5
  <2> HIDE DEF h
  <2> QED BY <2>1, <2>2, <2>3 DEF Bijection, Injection, Surjection, IsInjective
<1>7. ExistsBijection(S, T)
  BY <1>6 DEF ExistsBijection
<1> HIDE DEF S, T
<1> QED BY <1>2, <1>7, FS_Bijection DEF S, T

(* A fn asked for with another set than it has is one that changes.        *)
LEMMA FreshChanges ==
  ASSUME PlanTypes, NEW R \in SUBSET Roles, NEW f \in Fns, Wanted(R, f) # RolesOf(plan, f)
  PROVE  ~SameSet(R, f)
<1> SUFFICES ASSUME SameSet(R, f) PROVE FALSE
  OBVIOUS
<1>1. /\ RolesOf(plan, f) \in SUBSET Wanted(R, f)
      /\ Cardinality(Wanted(R, f)) = Cardinality(RolesOf(plan, f))
  BY CopiesOnce DEF SameSet
<1>2. IsFiniteSet(Wanted(R, f))
  <2>1. Wanted(R, f) \in SUBSET Channels
    BY DEF Wanted
  <2> QED BY <2>1, FnsAssumption, FS_Subset
<1> QED BY <1>1, <1>2, FS_Subset

(* The fns F let go and their roles in a bag applied, with no two of them  *)
(* on a channel but listeners, and every channel of theirs free: each is   *)
(* the owner of its channels, and no other owner has changed.              *)
LEMMA ApplyWell ==
  ASSUME PlanInv, NEW F \in SUBSET Fns, NEW bag \in [Roles -> {0, 1}],
         \A f \in F \ Listeners : \A c \in RolesOf(bag, f) : free(release(owner, F), c),
         \A f, g \in F \ Listeners : RolesOf(bag, f) \cap RolesOf(bag, g) # {} => f = g,
         NEW s, s = applyAll(Released(F), F, bag)
  PROVE  /\ s.ok
         /\ DOMAIN s.owner = Channels /\ DOMAIN s.pins = Fns
         /\ s.owner = [c \in Channels |-> s.owner[c]]
         /\ \A f \in F \ Listeners : \A c \in RolesOf(bag, f) :
              s.owner[c] = f /\ c \notin s.marked
         /\ \A c \in Channels : (\A f \in F \ Listeners : c \notin RolesOf(bag, f)) =>
              /\ s.owner[c] = release(owner, F)[c]
              /\ c \in s.marked <=> owner[c] \in F
         /\ s.pins = [f \in Fns |-> IF f \in F THEN RolesOf(bag, f) ELSE pins[f]]
         /\ s.planned = (planned \ F) \cup {f \in F : RolesOf(bag, f) # {}}
<1> DEFINE own == release(owner, F)
           fails == Fails(own, F, bag)
           applied == {f \in F : RolesOf(bag, f) # {} /\ \A g \in fails : f < g}
           took == {c \in Channels : free(own, c) /\ Wanting(applied, bag, c) # {}}
           givenUp == {c \in Channels \ took : free(own, c)
                         /\ \E f \in fails : c \in RolesOf(bag, f) /\ \A g \in fails : f <= g}
<1>1. fails = {}
  <2> SUFFICES ASSUME NEW f \in fails PROVE FALSE
    OBVIOUS
  <2>1. f \in F \cap Drivers /\ f \in F \ Listeners
    BY Kinds DEF Fails
  <2>2. PICK c \in RolesOf(bag, f) : \/ ~free(own, c) \/ bag[<<f, c>>] > 1
                                     \/ \E g \in Wanting(F, bag, c) : g < f
    BY DEF Fails
  <2>3. free(own, c)
    BY <2>1
  <2>4. ~(bag[<<f, c>>] > 1)
    BY <2>1 DEF RolesOf, Roles
  <2>5. \A g \in Wanting(F, bag, c) : ~(g < f)
    <3> SUFFICES ASSUME NEW g \in Wanting(F, bag, c) PROVE ~(g < f)
      OBVIOUS
    <3>1. g \in F \ Listeners /\ c \in RolesOf(bag, g)
      BY DEF Wanting
    <3>2. g = f
      BY <2>1, <3>1
    <3> QED BY <2>1, <3>2, Kinds
  <2> HIDE DEF own
  <2> QED BY <2>2, <2>3, <2>4, <2>5
<1>2. /\ s.ok = (fails = {})
      /\ s.owner = [c \in Channels |-> IF c \in took THEN Min(Wanting(applied, bag, c)) ELSE own[c]]
      /\ s.marked = (Held(owner, F) \ took) \cup givenUp
      /\ s.pins = [f \in Fns |-> IF f \in applied THEN RolesOf(bag, f) ELSE IF f \in F THEN {} ELSE pins[f]]
      /\ s.planned = (planned \ F) \cup applied
  BY DEF applyAll, Released
<1>3. applied = {f \in F : RolesOf(bag, f) # {}} /\ givenUp = {}
  BY <1>1
<1>4. ASSUME NEW f \in F \ Listeners, NEW c \in RolesOf(bag, f)
      PROVE  Wanting(applied, bag, c) = {f} /\ c \in Channels /\ free(own, c)
  <2>1. f \in applied
    BY <1>3
  <2>2. \A g \in Wanting(applied, bag, c) : g = f
    BY <1>3 DEF Wanting
  <2>3. f \in Wanting(applied, bag, c)
    BY <2>1 DEF Wanting
  <2> HIDE DEF applied, own
  <2>4. Wanting(applied, bag, c) = {f}
    BY <2>2, <2>3
  <2>5. c \in Channels
    BY DEF RolesOf
  <2> QED BY <2>4, <2>5 DEF own
<1>5. \A c \in Channels : (\A f \in F \ Listeners : c \notin RolesOf(bag, f)) => Wanting(applied, bag, c) = {}
  BY <1>3 DEF Wanting
<1>6. \A f \in F \ Listeners : Min({f}) = f
  <2> SUFFICES ASSUME NEW f \in F \ Listeners PROVE Min({f}) = f
    OBVIOUS
  <2>1. f \in Nat
    BY Kinds
  <2> QED BY <2>1 DEF Min
<1>7. \A c \in Channels : c \in took <=> (free(own, c) /\ Wanting(applied, bag, c) # {})
  OBVIOUS
<1>8. \A c \in Channels : c \in Held(owner, F) <=> owner[c] \in F
  BY DEF Held
<1> HIDE DEF own, fails, applied, took, givenUp
<1>9. ASSUME NEW f \in F \ Listeners, NEW c \in RolesOf(bag, f)
      PROVE  s.owner[c] = f /\ c \notin s.marked
  <2>1. c \in took /\ c \in Channels /\ Wanting(applied, bag, c) = {f}
    BY <1>4, <1>7
  <2>2. s.owner[c] = Min({f})
    BY <1>2, <2>1
  <2> QED BY <1>2, <1>3, <1>6, <2>1, <2>2
<1>10. ASSUME NEW c \in Channels, \A f \in F \ Listeners : c \notin RolesOf(bag, f)
       PROVE  s.owner[c] = own[c] /\ (c \in s.marked <=> owner[c] \in F)
  BY <1>2, <1>3, <1>5, <1>7, <1>8, <1>10
<1>11. s.pins = [f \in Fns |-> IF f \in F THEN RolesOf(bag, f) ELSE pins[f]]
  BY <1>2, <1>3
<1>12. DOMAIN s.owner = Channels /\ s.owner = [c \in Channels |-> s.owner[c]] /\ s.ok
  BY <1>1, <1>2
<1> QED BY <1>2, <1>3, <1>9, <1>10, <1>11, <1>12 DEF own

(* A replacement undone: every plan, owner and pad is as it was.           *)
LEMMA UndoneKeeps ==
  ASSUME PlanInv, NEW F \in SUBSET Fns, NEW who, NEW answer, Undone(F, who, answer)
  PROVE  UNCHANGED <<plan, planned, persistent, pins, owner, pad, bound, disabled>>
<1> DEFINE old == [r \in Roles |-> IF r[1] \in F THEN plan[r] ELSE 0]
           s == applyAll(Released(F), F, old)
<1>1. old \in [Roles -> {0, 1}]
  BY DEF PlanInv, PlanTypes
<1>2. \A f \in F : RolesOf(old, f) = pins[f]
  <2>1. \A f \in F : RolesOf(old, f) = RolesOf(plan, f)
    BY DEF RolesOf, Roles
  <2> QED BY <2>1, OwnerIs
<1>3. \A f \in F \ Listeners : \A c \in pins[f] : owner[c] = f /\ c \in Channels /\ c \notin disabled
  BY OwnerIs DEF PlanInv, PlanTypes, DisabledAreFree
<1>4. \A f \in F \ Listeners : \A c \in pins[f] : free(release(owner, F), c)
  BY <1>3 DEF free, release
<1>5. \A f, g \in F \ Listeners : pins[f] \cap pins[g] # {} => f = g
  BY <1>3
<1> HIDE DEF old, s
<1>6. /\ s.owner = [c \in Channels |-> s.owner[c]]
      /\ \A f \in F \ Listeners : \A c \in pins[f] : s.owner[c] = f /\ c \notin s.marked
      /\ \A c \in Channels : (\A f \in F \ Listeners : c \notin pins[f]) =>
           s.owner[c] = release(owner, F)[c] /\ (c \in s.marked <=> owner[c] \in F)
      /\ s.pins = [f \in Fns |-> IF f \in F THEN pins[f] ELSE pins[f]]
      /\ s.planned = (planned \ F) \cup {f \in F : pins[f] # {}}
  <2>1. s = applyAll(Released(F), F, old)
    BY DEF s
  <2> QED BY <1>1, <1>2, <1>4, <1>5, <2>1, ApplyWell
<1>7. \A c \in Channels : owner[c] \in F =>
        owner[c] \in F \ Listeners /\ c \in pins[owner[c]]
  BY OwnerIs
<1>8. ASSUME NEW c \in Channels PROVE s.owner[c] = owner[c] /\ c \notin s.marked
  <2>1. CASE owner[c] \in F
    BY <1>6, <1>7, <2>1
  <2>2. CASE owner[c] \notin F
    <3>1. \A f \in F \ Listeners : c \notin pins[f]
      BY <1>3, <2>2
    <3>2. release(owner, F)[c] = owner[c]
      BY <2>2 DEF release
    <3> QED BY <1>6, <2>2, <3>1, <3>2
  <2> QED BY <2>1, <2>2
<1>9. s.owner = owner
  BY <1>6, <1>8 DEF PlanInv, PlanTypes
<1>10. settleIdle(s.owner, s.marked) = pad
  BY <1>8 DEF settleIdle, PlanInv, PlanTypes
<1>11. s.pins = pins
  BY <1>6 DEF PlanInv, PlanTypes
<1>12. s.planned = planned
  BY <1>6, OwnerIs DEF PlanInv, PlanTypes
<1>13. Becomes(s, plan, persistent, who, answer)
  BY DEF Undone, s, old
<1> QED BY <1>9, <1>10, <1>11, <1>12, <1>13 DEF Becomes

(* The roles R put in for the fns F, that no clash and no failed apply     *)
(* stopped: tables, interfaces and owners agree, and the other fns' plans  *)
(* are as they were.                                                       *)
LEMMA NewPlanWell ==
  ASSUME PlanInv, NEW F \in SUBSET Fns, NEW R \in SUBSET Roles, Named(R) \subseteq F,
         \A r \in R : r[2] \notin disabled,
         \A f \in F : Wanted(R, f) # {} => planCheck(owner, work, f, Wanted(R, f)),
         ~Clash(Without(plan, F), R),
         NEW s, s = applyAll(Released(F), F, Plus([r \in Roles |-> 0], R)), s.ok,
         NEW held \in BOOLEAN, NEW who, NEW answer,
         Becomes(s, Plus(Without(plan, F), R),
                 (persistent \ F) \cup (IF held THEN F \cap s.planned ELSE {}), who, answer)
  PROVE  /\ PlanInv'
         /\ \A f \in Fns \ F : pins'[f] = pins[f]
         /\ \A f \in persistent \ F : f \in persistent' /\ f \in planned'
         /\ bound' = bound
<1> DEFINE bag == Plus([r \in Roles |-> 0], R)
           left == Without(plan, F)
           own == release(owner, F)
<1>1. bag \in [Roles -> {0, 1}]
  BY DEF Plus
<1>2. \A f \in F : RolesOf(bag, f) = Wanted(R, f) /\ Wanted(R, f) \in SUBSET Channels
  BY DEF RolesOf, Wanted, Plus, Roles
<1>3. \A f \in Fns, c \in Channels : c \in Wanted(R, f) <=> <<f, c>> \in R
  BY DEF Wanted
<1>4. \A f \in Fns \ F : Wanted(R, f) = {}
  BY <1>3 DEF Named, Wanted
<1>5. ASSUME NEW f \in F \ Listeners, NEW c \in Wanted(R, f) PROVE free(own, c)
  <2>1. <<f, c>> \in R /\ c \in Channels /\ c \notin disabled
    BY <1>2, <1>3
  <2>2. planCheck(owner, work, f, Wanted(R, f))
    BY <1>5
  <2>3. owner[c] \in {NoOne, f}
    <3>1. CASE f \in Drivers
      BY <2>2, <3>1 DEF planCheck, freeFor
    <3>2. CASE f \in Analogs
      BY <2>2, <3>2, Kinds DEF planCheck
    <3> QED BY <3>1, <3>2, Kinds
  <2> QED BY <2>1, <2>3 DEF free, release
<1>6. ASSUME NEW r \in R, NEW q \in R, r[1] # q[1], r[2] = q[2]
      PROVE  r[1] \notin Analogs
  <2>1. r \in Roles /\ q \in Roles
    OBVIOUS
  <2> HIDE DEF left
  <2> QED BY <1>6, <2>1 DEF Clash
<1>7. ASSUME NEW r \in R, NEW q \in Roles, plan[q] > 0, q[1] \notin F, r[2] = q[2]
      PROVE  r[1] \notin Analogs /\ q[1] \notin Analogs
  <2>1. r[1] \in F
    BY DEF Named
  <2>2. Without(plan, F)[q] > 0
    BY <1>7 DEF Without
  <2> QED BY <1>7, <2>1, <2>2 DEF Clash
<1>8. Fails(own, F, bag) = {}
  BY DEF applyAll, Released
<1>9. ASSUME NEW f \in F \cap Drivers, NEW g \in F \cap Drivers, NEW c \in Wanted(R, f) \cap Wanted(R, g)
      PROVE  ~(g < f)
  <2>1. c \in RolesOf(bag, f) /\ c \in RolesOf(bag, g) /\ g \notin Listeners
    BY <1>2, Kinds
  <2>2. g \in Wanting(F, bag, c)
    BY <2>1 DEF Wanting
  <2> HIDE DEF bag, own
  <2> QED BY <1>8, <2>1, <2>2 DEF Fails
<1>10. ASSUME NEW f \in F \ Listeners, NEW g \in F \ Listeners, NEW c \in Wanted(R, f) \cap Wanted(R, g)
       PROVE  f = g
  <2>1. <<f, c>> \in R /\ <<g, c>> \in R
    BY <1>2, <1>3
  <2>2. f # g => f \notin Analogs /\ g \notin Analogs
    BY <1>6, <2>1
  <2>3. f \in Nat /\ g \in Nat /\ (f # g => f \in Drivers /\ g \in Drivers)
    BY <2>2, Kinds
  <2>4. f # g => ~(g < f) /\ ~(f < g)
    BY <1>9, <2>3
  <2> QED BY <2>3, <2>4
<1> HIDE DEF bag
<1>11. /\ s.owner = [c \in Channels |-> s.owner[c]]
       /\ \A f \in F \ Listeners : \A c \in Wanted(R, f) : s.owner[c] = f
       /\ \A c \in Channels : (\A f \in F \ Listeners : c \notin Wanted(R, f)) => s.owner[c] = own[c]
       /\ s.pins = [f \in Fns |-> IF f \in F THEN Wanted(R, f) ELSE pins[f]]
       /\ s.planned = (planned \ F) \cup {f \in F : Wanted(R, f) # {}}
  <2>1. s = applyAll(Released(F), F, bag)
    BY DEF bag
  <2>2. \A f \in F \ Listeners : \A c \in RolesOf(bag, f) : free(release(owner, F), c)
    BY <1>2, <1>5
  <2>3. \A f, g \in F \ Listeners : RolesOf(bag, f) \cap RolesOf(bag, g) # {} => f = g
    BY <1>2, <1>10
  <2>4. /\ s.owner = [c \in Channels |-> s.owner[c]]
        /\ \A f \in F \ Listeners : \A c \in RolesOf(bag, f) :
             s.owner[c] = f /\ c \notin s.marked
        /\ \A c \in Channels : (\A f \in F \ Listeners : c \notin RolesOf(bag, f)) =>
             /\ s.owner[c] = release(owner, F)[c]
             /\ c \in s.marked <=> owner[c] \in F
        /\ s.pins = [f \in Fns |-> IF f \in F THEN RolesOf(bag, f) ELSE pins[f]]
        /\ s.planned = (planned \ F) \cup {f \in F : RolesOf(bag, f) # {}}
    <3> HIDE DEF own
    <3>1. PlanInv /\ F \in SUBSET Fns
      OBVIOUS
    <3> QED BY ONLY <1>1, <2>1, <2>2, <2>3, <3>1, ApplyWell
  <2>5. \A f \in F \ Listeners : \A c \in Wanted(R, f) : s.owner[c] = f
    BY <1>2, <2>4
  <2>6. \A c \in Channels : (\A f \in F \ Listeners : c \notin Wanted(R, f)) => s.owner[c] = own[c]
    BY <1>2, <2>4
  <2>7. s.pins = [f \in Fns |-> IF f \in F THEN Wanted(R, f) ELSE pins[f]]
    BY <1>2, <2>4
  <2>8. s.planned = (planned \ F) \cup {f \in F : Wanted(R, f) # {}}
    BY <1>2, <2>4
  <2> HIDE DEF own
  <2> QED BY <2>4, <2>5, <2>6, <2>7, <2>8
<1>12. /\ owner' = s.owner /\ pins' = s.pins /\ planned' = s.planned
       /\ plan' = Plus(left, R)
       /\ persistent' = (persistent \ F) \cup (IF held THEN F \cap s.planned ELSE {})
       /\ pad' = settleIdle(s.owner, s.marked)
       /\ UNCHANGED <<bound, disabled>>
  BY DEF Becomes
<1>13. \A c \in Channels : own[c] = IF owner[c] \in F THEN NoOne ELSE owner[c]
  BY DEF release
<1>14. plan' \in [Roles -> {0, 1}]
       /\ \A f \in Fns : RolesOf(plan', f) = IF f \in F THEN Wanted(R, f) ELSE pins[f]
  <2>1. plan' = [r \in Roles |-> IF r[1] \in F THEN IF r \in R THEN 1 ELSE 0 ELSE plan[r]]
    BY <1>12 DEF Plus, Without, Named, PlanInv, PlanTypes
  <2>2. plan' \in [Roles -> {0, 1}]
    BY <2>1 DEF PlanInv, PlanTypes
  <2>3. ASSUME NEW f \in F PROVE RolesOf(plan', f) = Wanted(R, f)
    BY <2>1 DEF RolesOf, Wanted, Roles
  <2>4. ASSUME NEW f \in Fns \ F PROVE RolesOf(plan', f) = RolesOf(plan, f)
    BY <2>1 DEF RolesOf, Roles
  <2> QED BY <2>2, <2>3, <2>4, OwnerIs
<1> HIDE DEF own, left
<1>15. \A f \in Fns : pins'[f] = (IF f \in F THEN Wanted(R, f) ELSE pins[f])
  BY <1>11, <1>12
<1>16. \A f \in Fns : f \in planned' <=> pins'[f] # {}
  BY <1>11, <1>12, <1>15, OwnerIs
<1>17. persistent' \subseteq planned'
  BY <1>11, <1>12, OwnerIs
<1>18. ASSUME NEW c \in Channels
       PROVE  \/ \E f \in F \ Listeners : c \in Wanted(R, f) /\ owner'[c] = f /\ free(own, c)
              \/ /\ \A f \in F \ Listeners : c \notin Wanted(R, f)
                 /\ owner'[c] = IF owner[c] \in F THEN NoOne ELSE owner[c]
  BY <1>5, <1>11, <1>12, <1>13
<1>19. owner' \in [Channels -> Fns \cup {Wire, NoOne}]
  BY <1>11, <1>12, <1>18 DEF PlanInv, PlanTypes
<1>20. ASSUME NEW f \in Fns \ Listeners, NEW c \in Channels
       PROVE  owner'[c] = f <=> c \in pins'[f]
  <2>1. CASE f \in F
    <3>1. c \in Wanted(R, f) => owner'[c] = f
      BY <1>11, <1>12, <2>1
    <3>2. owner'[c] = f => c \in Wanted(R, f)
      BY <1>18, <2>1, Kinds
    <3> QED BY <1>15, <2>1, <3>1, <3>2
  <2>2. CASE f \notin F
    <3>1. owner[c] = f <=> c \in pins[f]
      BY OwnerIs
    <3>2. owner'[c] = f => owner[c] = f
      BY <1>18, <2>2, Kinds
    <3>3. owner[c] = f => owner'[c] = f
      BY <1>13, <1>18, <2>2, Kinds DEF free
    <3> QED BY <1>15, <2>2, <3>1, <3>2, <3>3
  <2> QED BY <2>1, <2>2
<1>21. \A f \in Listeners, c \in Channels : owner'[c] # f
  BY <1>18, OwnerIs, Kinds
<1>22. PlanIsWhatIsHeld'
  <2> SUFFICES ASSUME NEW f \in Fns
               PROVE  /\ RolesOf(plan', f) = pins'[f]
                      /\ f \in planned' <=> pins'[f] # {}
                      /\ f \in persistent' => f \in planned'
                      /\ {c \in Channels : owner'[c] = f} = IF f \in Listeners THEN {} ELSE pins'[f]
    BY DEF PlanIsWhatIsHeld, RolesOf
  <2>1. pins'[f] \in SUBSET Channels
    BY <1>2, <1>15 DEF PlanInv, PlanTypes
  <2> QED BY <1>14, <1>15, <1>16, <1>17, <1>20, <1>21, <2>1
<1>23. AnalogIsAlone'
  <2> SUFFICES ASSUME NEW f \in Analogs, NEW g \in Fns \ Analogs, NEW c \in pins'[f] \cap pins'[g]
               PROVE  FALSE
    BY DEF AnalogIsAlone
  <2>1. f # g /\ f \in Fns /\ g \in Fns
    BY Kinds
  <2>2. c \in Channels
    BY <1>2, <1>15, <2>1 DEF PlanInv, PlanTypes
  <2>3. CASE f \in F /\ g \in F
    <3>1. <<f, c>> \in R /\ <<g, c>> \in R
      BY <1>3, <1>15, <2>1, <2>2, <2>3
    <3> QED BY <1>6, <2>1, <3>1
  <2>4. CASE f \in F /\ g \notin F
    <3>1. <<f, c>> \in R /\ <<g, c>> \in Roles /\ plan[<<g, c>>] > 0
      BY <1>3, <1>15, <2>1, <2>2, <2>4, OwnerIs DEF RolesOf, Roles
    <3> QED BY <1>7, <2>4, <3>1
  <2>5. CASE f \notin F /\ g \in F
    <3>1. <<g, c>> \in R /\ <<f, c>> \in Roles /\ plan[<<f, c>>] > 0
      BY <1>3, <1>15, <2>1, <2>2, <2>5, OwnerIs DEF RolesOf, Roles
    <3> QED BY <1>7, <2>5, <3>1
  <2>6. CASE f \notin F /\ g \notin F
    BY <1>15, <2>1, <2>6 DEF PlanInv, PlanAgrees, AnalogIsAlone
  <2> QED BY <2>3, <2>4, <2>5, <2>6
<1>24. DisabledAreFree'
  <2> SUFFICES ASSUME NEW c \in Channels, owner'[c] \in Fns PROVE c \notin disabled
    BY <1>12 DEF DisabledAreFree
  <2> QED BY <1>18, Kinds DEF free, PlanInv, DisabledAreFree
<1>25. PlanTypes'
  <2>1. planned' \in SUBSET Fns /\ persistent' \in SUBSET Fns
    BY <1>11, <1>12 DEF PlanInv, PlanTypes
  <2>2. pins' \in [Fns -> SUBSET Channels]
    BY <1>2, <1>11, <1>12 DEF PlanInv, PlanTypes
  <2>3. pad' \in [Channels -> {"idle", "set"}]
    BY <1>12 DEF settleIdle, PlanInv, PlanTypes
  <2>4. bound' \in SUBSET Fns
    BY <1>12 DEF PlanInv, PlanTypes
  <2> QED BY <1>14, <1>19, <2>1, <2>2, <2>3, <2>4 DEF PlanTypes
<1>26. \A f \in persistent \ F : f \in persistent' /\ f \in planned'
  BY <1>12, <1>17
<1> QED BY <1>12, <1>15, <1>22, <1>23, <1>24, <1>25, <1>26 DEF PlanInv, PlanAgrees

(* What a step may do to plans, owners and pads.                           *)
AllOrNothingStep ==
  reply'.answer \in {"unavailable", "failed"} => UNCHANGED <<plan, planned, persistent, pins, owner, pad>>
OnlyWhoMayStep ==
  /\ reply'.who # "settings" =>
       \A f \in persistent : f \in persistent' /\ pins'[f] = pins[f] /\ f \in planned'
  /\ \A f \in bound \cap bound' : pins'[f] = pins[f]

PlanStep == PlanInv' /\ AllOrNothingStep /\ OnlyWhoMayStep

(* A step that leaves plans, owners and disables alone.                    *)
LEMMA PlansAlone ==
  ASSUME PlanInv, UNCHANGED <<plan, planned, persistent, pins, owner, disabled>>,
         pad' \in [Channels -> {"idle", "set"}], bound' \in SUBSET Fns
  PROVE  /\ PlanInv'
         /\ OnlyWhoMayStep
         /\ (pad' = pad \/ reply' = Silent) => AllOrNothingStep
<1>1. PlanTypes' /\ DisabledAreFree'
  BY DEF PlanInv, PlanTypes, DisabledAreFree
<1>2. PlanAgrees'
  BY DEF PlanInv, PlanAgrees, PlanIsWhatIsHeld, AnalogIsAlone, RolesOf
<1>3. OnlyWhoMayStep
  BY OwnerIs DEF OnlyWhoMayStep
<1>4. reply' = Silent => reply'.answer = "none"
  BY DEF Silent, Said
<1> QED BY <1>1, <1>2, <1>3, <1>4 DEF PlanInv, AllOrNothingStep

(* An answer that a bound fn or the room is in the way changes no table.  *)
LEMMA UnavailableWell ==
  ASSUME PlanInv, NEW who, Unavailable(who)
  PROVE  PlanStep
<1>1. UNCHANGED <<plan, planned, persistent, pins, owner, disabled, pad, bound>>
  BY DEF Unavailable
<1>2. pad' \in [Channels -> {"idle", "set"}] /\ bound' \in SUBSET Fns
  BY <1>1 DEF PlanInv, PlanTypes
<1> QED BY <1>1, <1>2, PlansAlone DEF PlanStep

(* replaceFns of requests that repeat no plan, on channels not disabled:   *)
(* the fns it changes are those it names, and none is bound.               *)
LEMMA ReplaceWell ==
  ASSUME PlanInv, NEW R \in SUBSET Roles, NEW F \in SUBSET Fns, Named(R) \subseteq F,
         \A r \in R : r[2] \notin disabled,
         \A f \in Named(R) : Wanted(R, f) # RolesOf(plan, f),
         NEW held \in BOOLEAN, NEW who,
         who = "settings" \/ F \cap persistent = {},
         replaceFns(R, F, held, who)
  PROVE  PlanStep
<1> DEFINE A == Changed(R, F)
<1>1. A \in SUBSET Fns /\ A \subseteq F
  BY DEF Changed
<1>2. Named(R) \subseteq A
  <2> SUFFICES ASSUME NEW f \in Named(R) PROVE f \in A
    OBVIOUS
  <2>1. f \in F /\ f \in Fns
    OBVIOUS
  <2>2. ~SameSet(R, f)
    BY <2>1, FreshChanges DEF PlanInv
  <2> QED BY <2>1, <2>2 DEF Changed
<1>3. CASE Unavailable(who)
  BY <1>3, UnavailableWell
<1>4. CASE /\ F \cap bound = {}
           /\ \A f \in A : Wanted(R, f) # {} => planCheck(owner, work, f, Wanted(R, f))
           /\ Put(R, A, held, who)
  <2> HIDE DEF A
  <2>1. CASE \E answer : Undone(A, who, answer)
    <3>1. UNCHANGED <<plan, planned, persistent, pins, owner, pad, bound, disabled>>
      BY <1>1, <2>1, UndoneKeeps
    <3>2. pad' \in [Channels -> {"idle", "set"}] /\ bound' \in SUBSET Fns
      BY <3>1 DEF PlanInv, PlanTypes
    <3> QED BY <3>1, <3>2, PlansAlone DEF PlanStep
  <2>2. CASE ~\E answer : Undone(A, who, answer)
    <3> DEFINE s == applyAll(Released(A), A, Plus([r \in Roles |-> 0], R))
    <3>1. /\ ~Clash(Without(plan, A), R) /\ s.ok
          /\ Becomes(s, Plus(Without(plan, A), R),
                     (persistent \ A) \cup (IF held THEN A \cap s.planned ELSE {}), who, "completed")
      BY <1>4, <2>2 DEF Put
    <3>2. /\ PlanInv'
          /\ \A f \in Fns \ A : pins'[f] = pins[f]
          /\ \A f \in persistent \ A : f \in persistent' /\ f \in planned'
          /\ bound' = bound
      BY <1>1, <1>2, <1>4, <3>1, NewPlanWell
    <3>3. reply' = Said(who, "completed")
      BY <3>1 DEF Becomes
    <3>4. reply'.who = who /\ reply'.answer = "completed"
      BY <3>3 DEF Said
    <3>5. OnlyWhoMayStep
      <4>1. reply'.who # "settings" => A \cap persistent = {}
        BY <1>1, <3>4
      <4>2. persistent \subseteq Fns
        BY DEF PlanInv, PlanTypes
      <4>3. bound \cap A = {}
        BY <1>1, <1>4
      <4>4. \A f \in Fns : f \notin bound \/ pins'[f] = pins[f]
        BY <3>2, <4>3
      <4>5. reply'.who # "settings" =>
              \A f \in persistent : f \in persistent' /\ pins'[f] = pins[f] /\ f \in planned'
        BY <3>2, <4>1, <4>2
      <4>6. bound \subseteq Fns
        BY DEF PlanInv, PlanTypes
      <4> QED BY <4>4, <4>5, <4>6 DEF OnlyWhoMayStep
    <3> QED BY <3>2, <3>4, <3>5 DEF PlanStep, AllOrNothingStep
  <2> QED BY <2>1, <2>2
<1> QED BY <1>3, <1>4 DEF replaceFns

(* The plans of the fns F gone from every table.                           *)
LEMMA ReleasedWell ==
  ASSUME PlanInv, NEW F \in SUBSET Fns,
         owner' = release(owner, F),
         pins' = [f \in Fns |-> IF f \in F THEN {} ELSE pins[f]],
         planned' = planned \ F,
         plan' = [r \in Roles |-> IF F = {} \/ r[1] \in planned \ F THEN plan[r] ELSE 0],
         persistent' \in SUBSET (persistent \ F), disabled' = disabled,
         bound' \in SUBSET Fns, pad' \in [Channels -> {"idle", "set"}]
  PROVE  PlanInv'
<1>1. ASSUME NEW f \in Fns PROVE RolesOf(plan', f) = pins'[f]
  <2>1. RolesOf(plan', f) = IF F = {} \/ f \in planned \ F THEN RolesOf(plan, f) ELSE {}
    BY DEF RolesOf, Roles
  <2> QED BY <2>1, OwnerIs
<1>2. \A c \in Channels : owner'[c] = IF owner[c] \in F THEN NoOne ELSE owner[c]
  BY DEF release
<1>3. ASSUME NEW f \in Fns
      PROVE  {c \in Channels : owner'[c] = f} = IF f \in Listeners THEN {} ELSE pins'[f]
  <2>1. f # NoOne
    BY Kinds
  <2>2. {c \in Channels : owner'[c] = f} = IF f \in F THEN {} ELSE {c \in Channels : owner[c] = f}
    BY <1>2, <2>1
  <2>3. {c \in Channels : owner[c] = f} = IF f \in Listeners THEN {} ELSE pins[f]
    BY DEF PlanInv, PlanAgrees, PlanIsWhatIsHeld
  <2> QED BY <2>2, <2>3
<1>4. \A f \in Fns : f \in planned' <=> pins'[f] # {}
  BY OwnerIs
<1>5. \A f \in Fns : f \in persistent' => f \in planned'
  BY OwnerIs
<1>6. PlanIsWhatIsHeld'
  <2>1. \A f \in Fns : RolesOf(plan, f)' = RolesOf(plan', f)
    BY DEF RolesOf
  <2> QED BY <1>1, <1>3, <1>4, <1>5, <2>1 DEF PlanIsWhatIsHeld
<1>7. AnalogIsAlone'
  BY Kinds DEF AnalogIsAlone, PlanInv, PlanAgrees
<1>8. DisabledAreFree'
  BY <1>2, Kinds DEF DisabledAreFree, PlanInv
<1>9. PlanTypes'
  BY DEF PlanTypes, PlanInv, release
<1> QED BY <1>6, <1>7, <1>8, <1>9 DEF PlanInv, PlanAgrees

(* plan_release and the session's end take the session's plans, of fns not *)
(* bound.                                                                  *)
LEMMA ReleaseWell ==
  ASSUME PlanInv
  PROVE  /\ \A F : planReleaseRequest(F) => PlanStep
         /\ loseSession => PlanStep
<1>1. ASSUME NEW F, LetGo(F, "host"), F \in SUBSET (planned \ persistent), F \cap bound = {}
      PROVE  PlanStep
  <2>1. /\ owner' = release(owner, F)
        /\ pins' = [f \in Fns |-> IF f \in F THEN {} ELSE pins[f]]
        /\ planned' = planned \ F
        /\ plan' = [r \in Roles |-> IF r[1] \in planned \ F THEN plan[r] ELSE 0]
        /\ persistent' = persistent \ F /\ disabled' = disabled /\ bound' = bound
        /\ pad' = settleIdle(owner', Held(owner, F))
        /\ reply' = Said("host", "completed")
    BY <1>1 DEF LetGo, Becomes, Released
  <2>2. F \in SUBSET Fns /\ pad' \in [Channels -> {"idle", "set"}] /\ bound' \in SUBSET Fns
    BY <1>1, <2>1 DEF PlanInv, PlanTypes, settleIdle
  <2>3. plan' = [r \in Roles |-> IF F = {} \/ r[1] \in planned \ F THEN plan[r] ELSE 0]
    <3>1. F = {} => \A r \in Roles : r[1] \in planned \/ plan[r] = 0
      <4>1. \A f \in Fns, c \in Channels : f \in planned \/ plan[<<f, c>>] = 0
        <5> SUFFICES ASSUME NEW f \in Fns, NEW c \in Channels, f \notin planned PROVE plan[<<f, c>>] = 0
          OBVIOUS
        <5>1. RolesOf(plan, f) = {} /\ <<f, c>> \in Roles
          BY OwnerIs DEF Roles
        <5>2. plan[<<f, c>>] \in {0, 1}
          BY <5>1 DEF PlanInv, PlanTypes
        <5>3. ~(plan[<<f, c>>] > 0)
          BY <5>1 DEF RolesOf
        <5> QED BY <5>2, <5>3
      <4> QED BY <4>1 DEF Roles
    <3> QED BY <2>1, <3>1
  <2>4. PlanInv'
    BY <2>1, <2>2, <2>3, ReleasedWell
  <2>5. reply'.answer = "completed"
    BY <2>1 DEF Said
  <2>6. \A f \in persistent : f \in persistent' /\ pins'[f] = pins[f] /\ f \in planned'
    BY <1>1, <2>1, OwnerIs DEF PlanInv, PlanTypes
  <2>7. \A f \in bound : pins'[f] = pins[f]
    BY <1>1, <2>1 DEF PlanInv, PlanTypes
  <2> QED BY <2>4, <2>5, <2>6, <2>7 DEF PlanStep, AllOrNothingStep, OnlyWhoMayStep
<1>2. ASSUME NEW F, planReleaseRequest(F) PROVE PlanStep
  <2> DEFINE mine == F \cap (planned \ persistent)
  <2>1. CASE Unavailable("host")
    BY <2>1, UnavailableWell
  <2>2. CASE mine \cap bound = {} /\ LetGo(mine, "host")
    BY <1>1, <2>2
  <2> QED BY <1>2, <2>1, <2>2 DEF planReleaseRequest
<1>3. ASSUME loseSession PROVE PlanStep
  <2> DEFINE mine == planned \ persistent
  <2>1. /\ owner' = release(owner, mine)
        /\ pins' = [f \in Fns |-> IF f \in mine THEN {} ELSE pins[f]]
        /\ planned' = planned \ mine
        /\ plan' = [r \in Roles |-> IF mine = {} \/ r[1] \in planned \ mine THEN plan[r] ELSE 0]
        /\ persistent' = persistent /\ disabled' = disabled /\ bound' = {}
        /\ pad' = settleIdle(owner', Held(owner, mine))
        /\ reply' = Said("session", "completed")
    BY <1>3 DEF loseSession, Released
  <2>2. /\ mine \in SUBSET Fns /\ pad' \in [Channels -> {"idle", "set"}] /\ bound' \in SUBSET Fns
        /\ persistent' \in SUBSET (persistent \ mine)
    BY <2>1 DEF PlanInv, PlanTypes, settleIdle
  <2>3. \A f \in persistent : f \in persistent' /\ pins'[f] = pins[f] /\ f \in planned'
    BY <2>1, OwnerIs DEF PlanInv, PlanTypes
  <2> HIDE DEF mine
  <2>4. PlanInv'
    BY <2>1, <2>2, ReleasedWell
  <2>5. reply'.answer = "completed"
    BY <2>1 DEF Said
  <2> QED BY <2>1, <2>3, <2>4, <2>5 DEF PlanStep, AllOrNothingStep, OnlyWhoMayStep
<1> QED BY <1>2, <1>3

(* Pads set, captures, the group, the wire and the settings' disables      *)
(* change no plan.                                                         *)
LEMMA OthersWell ==
  ASSUME PlanInv
  PROVE  /\ \A f \in Fns, c \in Channels : SetPad(f, c) => PlanStep
         /\ \A f \in Fns : Capture(f) => PlanStep
         /\ \A F \in SUBSET Tracks : Bind(F) => PlanStep
         /\ \A C \in SUBSET Channels : Attach(C) => PlanStep
         /\ Detach => PlanStep
         /\ \A D \in SUBSET Channels : setDisabled(D) => PlanStep
<1>1. ASSUME NEW f \in Fns, NEW c \in Channels, SetPad(f, c) PROVE PlanStep
  <2>1. /\ pad' \in [Channels -> {"idle", "set"}] /\ bound' \in SUBSET Fns
        /\ UNCHANGED <<plan, planned, persistent, pins, owner, disabled>> /\ reply' = Silent
    BY <1>1 DEF SetPad, PlanInv, PlanTypes
  <2> QED BY <2>1, PlansAlone DEF PlanStep
<1>2. ASSUME NEW f \in Fns, Capture(f) PROVE PlanStep
  <2>1. /\ pad' \in [Channels -> {"idle", "set"}] /\ bound' \in SUBSET Fns
        /\ UNCHANGED <<plan, planned, persistent, pins, owner, disabled>> /\ reply' = Silent
    BY <1>2 DEF Capture, PlanInv, PlanTypes
  <2> QED BY <2>1, PlansAlone DEF PlanStep
<1>3. ASSUME NEW F \in SUBSET Tracks, Bind(F) PROVE PlanStep
  <2>1. /\ pad' \in [Channels -> {"idle", "set"}] /\ bound' \in SUBSET Fns
        /\ UNCHANGED <<plan, planned, persistent, pins, owner, disabled>> /\ reply' = Silent
    BY <1>3 DEF Bind, PlanInv, PlanTypes, Fns, Tracks
  <2> QED BY <2>1, PlansAlone DEF PlanStep
<1>4. ASSUME reply' = Silent, UNCHANGED <<plan, planned, persistent, pins, bound>>,
             \A f \in Fns, c \in Channels : owner'[c] = f <=> owner[c] = f,
             owner' \in [Channels -> Fns \cup {Wire, NoOne}],
             pad' \in [Channels -> {"idle", "set"}], DisabledAreFree'
      PROVE  PlanStep
  <2>1. PlanTypes'
    BY <1>4 DEF PlanInv, PlanTypes
  <2>2. \A f \in Fns : {c \in Channels : owner'[c] = f} = {c \in Channels : owner[c] = f}
    BY <1>4
  <2>3. PlanAgrees'
    BY <1>4, <2>2 DEF PlanInv, PlanAgrees, PlanIsWhatIsHeld, AnalogIsAlone, RolesOf
  <2>4. OnlyWhoMayStep
    BY <1>4, OwnerIs DEF OnlyWhoMayStep
  <2>5. reply'.answer = "none"
    BY <1>4 DEF Silent, Said
  <2> QED BY <1>4, <2>1, <2>3, <2>4, <2>5 DEF PlanStep, PlanInv, AllOrNothingStep
<1>5. ASSUME NEW C \in SUBSET Channels, Attach(C) PROVE PlanStep
  <2>1. /\ reply' = Silent /\ UNCHANGED <<plan, planned, persistent, pins, bound, disabled>>
        /\ owner' = [c \in Channels |-> IF c \in C THEN Wire ELSE owner[c]]
        /\ pad' = [c \in Channels |-> IF c \in C THEN "set" ELSE pad[c]]
        /\ \A c \in C : owner[c] = NoOne
    BY <1>5 DEF Attach, free
  <2>2. \A f \in Fns, c \in Channels : owner'[c] = f <=> owner[c] = f
    BY <2>1, Kinds
  <2>3. owner' \in [Channels -> Fns \cup {Wire, NoOne}] /\ pad' \in [Channels -> {"idle", "set"}]
    BY <2>1 DEF PlanInv, PlanTypes
  <2>4. DisabledAreFree'
    BY <2>1, <2>2 DEF PlanInv, DisabledAreFree
  <2> QED BY <1>4, <2>1, <2>2, <2>3, <2>4
<1>6. ASSUME Detach PROVE PlanStep
  <2>1. /\ reply' = Silent /\ UNCHANGED <<plan, planned, persistent, pins, bound, disabled>>
        /\ owner' = [c \in Channels |-> IF owner[c] = Wire THEN NoOne ELSE owner[c]]
        /\ pad' = settleIdle(owner', Held(owner, {Wire}))
    BY <1>6 DEF Detach, release
  <2>2. \A f \in Fns, c \in Channels : owner'[c] = f <=> owner[c] = f
    BY <2>1, Kinds
  <2>3. owner' \in [Channels -> Fns \cup {Wire, NoOne}] /\ pad' \in [Channels -> {"idle", "set"}]
    BY <2>1 DEF PlanInv, PlanTypes, settleIdle
  <2>4. DisabledAreFree'
    BY <2>1, <2>2 DEF PlanInv, DisabledAreFree
  <2> QED BY <1>4, <2>1, <2>2, <2>3, <2>4
<1>7. ASSUME NEW D \in SUBSET Channels, setDisabled(D) PROVE PlanStep
  <2>1. /\ reply' = Silent /\ UNCHANGED <<plan, planned, persistent, pins, bound, owner>>
        /\ disabled' = D /\ \A c \in D \ disabled : owner[c] = NoOne
        /\ pad' \in [Channels -> {"idle", "set"}]
    BY <1>7 DEF setDisabled, PlanInv, PlanTypes
  <2>2. DisabledAreFree'
    BY <2>1, Kinds DEF PlanInv, DisabledAreFree
  <2> QED BY <1>4, <2>1, <2>2 DEF PlanInv, PlanTypes
<1> QED BY <1>1, <1>2, <1>3, <1>5, <1>6, <1>7

(* The one inductive step of both theorems.                                *)
LEMMA PlansStepWell ==
  ASSUME ~Resubmits, ~OverDisabled, PlanInv, [Next]_vars
  PROVE  PlanInv' /\ [AllOrNothingStep]_vars /\ [OnlyWhoMayStep]_vars
<1>1. ASSUME NEW R \in Asks, planApply(R) PROVE PlanStep
  <2>1. R \in SUBSET Roles /\ Named(R) \in SUBSET Fns
    BY DEF Asks, kSubset, Named, Roles
  <2>2. CASE Unavailable("host")
    BY <2>2, UnavailableWell
  <2>3. CASE /\ Named(R) \cap persistent = {} /\ \A r \in R : r[2] \notin disabled
             /\ replaceFns(R, Named(R), FALSE, "host")
    <3>1. \A f \in Named(R) : Wanted(R, f) # RolesOf(plan, f)
      BY <1>1 DEF planApply, Fresh
    <3> QED BY <2>1, <2>3, <3>1, ReplaceWell
  <2> QED BY <1>1, <2>2, <2>3 DEF planApply
<1>2. ASSUME NEW R \in Asks \cup {{}}, NEW F \in kSubset(1, Fns) \cup {{}}, replacePlan(R, F) PROVE PlanStep
  <2>1. R \in SUBSET Roles /\ Named(R) \cup F \in SUBSET Fns
    BY DEF Asks, kSubset, Named, Roles
  <2>2. /\ \A f \in Named(R) : Wanted(R, f) # RolesOf(plan, f)
        /\ \A r \in R : r[2] \notin disabled
        /\ replaceFns(R, Named(R) \cup F, TRUE, "settings")
    BY <1>2 DEF replacePlan, Fresh
  <2> QED BY <2>1, <2>2, ReplaceWell
<1>3. CASE Next
  <2>1. PlanStep
    BY <1>1, <1>2, <1>3, ReleaseWell, OthersWell DEF Next
  <2> QED BY <2>1 DEF PlanStep
<1>4. CASE UNCHANGED vars
  <2>1. UNCHANGED <<plan, planned, persistent, pins, owner, disabled, pad, bound>>
    BY <1>4 DEF vars
  <2>2. pad' \in [Channels -> {"idle", "set"}] /\ bound' \in SUBSET Fns
    BY <2>1 DEF PlanInv, PlanTypes
  <2> QED BY <1>4, <2>1, <2>2, PlansAlone
<1> QED BY <1>3, <1>4

(* No plan, no owner and no answer at first.                               *)
LEMMA PlansInitWell == Init => PlanInv
<1> SUFFICES ASSUME Init PROVE PlanInv
  OBVIOUS
<1>1. PlanTypes
  BY DEF Init, PlanTypes
<1>2. DisabledAreFree
  BY DEF Init, DisabledAreFree
<1>3. PlanIsWhatIsHeld
  BY Kinds DEF Init, PlanIsWhatIsHeld, RolesOf, Roles
<1>4. AnalogIsAlone
  BY Kinds DEF Init, AnalogIsAlone
<1> QED BY <1>1, <1>2, <1>3, <1>4 DEF PlanInv, PlanAgrees

(* The role table, the planned flags, the interfaces' pins and the owners  *)
(* of the channels agree after every request, whatever failed on the way,  *)
(* and an analog pad has one owner: in every order of requests, releases,  *)
(* lost sessions and attaches (Endpoint::planApply, replaceFns).           *)
THEOREM TablesAgree ==
  ASSUME ~Resubmits, ~OverDisabled
  PROVE  Spec => []PlanAgrees
<1>1. PlanInv /\ [Next]_vars => PlanInv'
  BY PlansStepWell
<1>2. PlanInv => PlanAgrees
  BY DEF PlanInv
<1> QED BY <1>1, <1>2, PlansInitWell, PTL DEF Spec

(* A replacement refused or failed is undone to the letter, and only who   *)
(* may change a plan does.                                                 *)
THEOREM PlansChangeWhole ==
  ASSUME ~Resubmits, ~OverDisabled
  PROVE  Spec => PlansKept
<1>1. PlanInv /\ [Next]_vars => PlanInv' /\ [AllOrNothingStep]_vars /\ [OnlyWhoMayStep]_vars
  BY PlansStepWell
<1>2. Spec => [][AllOrNothingStep]_vars /\ [][OnlyWhoMayStep]_vars
  BY <1>1, PlansInitWell, PTL DEF Spec
<1> QED BY <1>2, PTL DEF PlansKept, AllOrNothing, OnlyWhoMayPlans, AllOrNothingStep, OnlyWhoMayStep
-----------------------------------------------------------------------------
(* The memo.  A write that may go on has a name and, unless the name has a *)
(* file already, room for one more.                                        *)
Used == {p \in Objects!Paths : files[p] # Objects!NoFile}
HasRoom(n) == Objects!find(n) # {} \/ Objects!objectCount < MaxObjects

FilesShape ==
  /\ DOMAIN files = Objects!Paths /\ DOMAIN lastKept = Names
  /\ \A p \in Objects!Paths : files[p] = Objects!NoFile
                                \/ (files[p].name \in Names /\ p[1] = Hash[files[p].name])
  /\ \A p, q \in Objects!Paths : files[p].name \in Names /\ files[p].name = files[q].name => p = q
FilesFew == IsFiniteSet(Used) /\ Cardinality(Used) <= MaxObjects
WriteFits ==
  /\ closing \in {"no", "check", "removing"}
  /\ staging # Objects!NoWrite =>
       closing = "no" /\ staging.name \in Names /\ HasRoom(staging.name)
  /\ closing # "no" => meant.name \in Names
  /\ closing = "check" => stage.name = meant.name /\ HasRoom(meant.name)
FilesAsKept ==
  \A n \in Names : /\ Objects!find(n) = {} => lastKept[n] = Objects!NoFile
                   /\ \A p \in Objects!find(n) : files[p] = lastKept[n]
MemoInv == FilesShape /\ FilesFew /\ WriteFits /\ FilesAsKept

(* The memo counts as everyone does.                                       *)
LEMMA SameCount == \A T : Objects!Cardinality(T) = Cardinality(T)
BY DEF Objects!Cardinality, Cardinality

(* What is kept is there, once, when the files are as last kept.           *)
LEMMA KeptOnce ==
  ASSUME MemoInv
  PROVE  ObjectsKept
<1> USE BesideAssumption DEF Objects!MemoAssumption
<1>1. ASSUME NEW n \in Names PROVE Objects!Object(n) = lastKept[n]
  BY DEF MemoInv, FilesAsKept, Objects!Object
<1>2. ASSUME NEW n \in Names
      PROVE  Objects!Cardinality({p \in Objects!Paths : files[p].name = n}) <= 1
  <2> DEFINE T == {p \in Objects!Paths : files[p].name = n}
  <2>1. \A p, q \in T : p = q
    BY DEF MemoInv, FilesShape
  <2> HIDE DEF T
  <2>2. Objects!Cardinality(T) = Cardinality(T)
    BY SameCount
  <2>3. Cardinality(T) <= 1
    <3>1. CASE T = {}
      BY <3>1, FS_EmptySet
    <3>2. ASSUME NEW p \in T PROVE Cardinality(T) = 1
      <4>1. T = {p}
        BY <2>1
      <4>2. QED
        BY <4>1, FS_Singleton
    <3>3. QED
      BY <3>1, <3>2
  <2>4. QED
    BY <2>2, <2>3 DEF T
<1>3. Objects!objectCount <= MaxObjects
  BY SameCount DEF MemoInv, FilesFew, Used, Objects!objectCount
<1>4. QED
  BY <1>1, <1>2, <1>3 DEF ObjectsKept, Objects!ObjectsKept, Objects!OldOrNew, Objects!OneFilePerName

(* The files as they are: the count and each name's place are as they were. *)
LEMMA FilesStay ==
  ASSUME MemoInv, files' = files, lastKept' = lastKept, WriteFits'
  PROVE  MemoInv'
BY DEF MemoInv, FilesShape, FilesFew, FilesAsKept, Used, Objects!find

(* Removing an object leaves the others, and no fewer places for one.      *)
LEMMA ObjectGoes ==
  ASSUME MemoInv, NEW n \in Names,
         files' = [p \in Objects!Paths |-> IF p \in Objects!find(n) THEN Objects!NoFile ELSE files[p]],
         lastKept' = [lastKept EXCEPT ![n] = Objects!NoFile]
  PROVE  /\ FilesShape' /\ FilesFew' /\ FilesAsKept'
         /\ \A m \in Names \ {n} : HasRoom(m) => HasRoom(m)'
<1> USE BesideAssumption DEF Objects!MemoAssumption
<1>1. /\ DOMAIN files = Objects!Paths /\ DOMAIN lastKept = Names
      /\ \A p \in Objects!Paths :
           IF files[p].name = n THEN files'[p] = Objects!NoFile ELSE files'[p] = files[p]
  BY DEF MemoInv, FilesShape, Objects!find
<1>2. Objects!NoFile.name \notin Names
  BY DEF Objects!NoFile
<1>3. FilesShape'
  BY <1>1, <1>2 DEF MemoInv, FilesShape
<1>4. Objects!find(n)' = {} /\ \A m \in Names \ {n} : Objects!find(m)' = Objects!find(m)
  BY <1>1, <1>2 DEF Objects!find
<1>5. Used' \subseteq Used
  BY <1>1 DEF Used
<1>6. IsFiniteSet(Used') /\ Cardinality(Used') <= Cardinality(Used)
      /\ Cardinality(Used) \in Nat /\ Cardinality(Used') \in Nat
  BY <1>5, FS_Subset, FS_CardinalityType DEF MemoInv, FilesFew
<1>7. FilesFew'
  BY <1>6 DEF MemoInv, FilesFew
<1>8. FilesAsKept'
  <2>1. \A m \in Names \ {n} : \A p \in Objects!find(m) : files'[p] = files[p]
    BY <1>1 DEF Objects!find
  <2>2. lastKept'[n] = Objects!NoFile /\ \A m \in Names \ {n} : lastKept'[m] = lastKept[m]
    BY <1>1
  <2>3. QED
    BY <1>4, <2>1, <2>2 DEF MemoInv, FilesAsKept
<1>9. ASSUME NEW m \in Names \ {n}, HasRoom(m) PROVE HasRoom(m)'
  <2>1. CASE Objects!find(m) # {}
    BY <1>4, <2>1 DEF HasRoom
  <2>2. CASE Cardinality(Used) < MaxObjects
    <3>1. Cardinality(Used') < MaxObjects
      BY <1>6, <2>2
    <3>2. Objects!objectCount' < MaxObjects
      BY <3>1, SameCount DEF Objects!objectCount, Used
    <3>3. QED
      BY <3>2 DEF HasRoom
  <2>3. QED
    BY <1>9, <2>1, <2>2, SameCount DEF HasRoom, Objects!objectCount, Used
<1>10. QED
  BY <1>3, <1>7, <1>8, <1>9

(* The new object takes its own file or a free one of its CRC.             *)
LEMMA ObjectComes ==
  ASSUME MemoInv, Objects!rename
  PROVE  MemoInv'
<1> USE BesideAssumption DEF Objects!MemoAssumption
<1>1. PICK n \in Names : n = stage.name /\ n = meant.name /\ HasRoom(n)
  BY DEF MemoInv, WriteFits, Objects!rename
<1>2. PICK p \in Objects!place(n) : files' = [files EXCEPT ![p] = stage]
  BY <1>1 DEF Objects!rename
<1>3. lastKept' = [lastKept EXCEPT ![n] = stage] /\ closing' = "no" /\ staging' = staging
  BY <1>1 DEF Objects!rename
<1>4. /\ p \in Objects!Paths /\ p[1] = Hash[n]
      /\ files[p].name = n \/ (files[p] = Objects!NoFile /\ Objects!find(n) = {})
  BY <1>2 DEF Objects!place, Objects!find
<1>5. /\ DOMAIN files = Objects!Paths /\ DOMAIN lastKept = Names
      /\ files'[p] = stage /\ \A q \in Objects!Paths \ {p} : files'[q] = files[q]
  BY <1>2, <1>4 DEF MemoInv, FilesShape
<1>6. Objects!NoFile.name \notin Names
  BY DEF Objects!NoFile
<1>7. \A q \in Objects!Paths \ {p} : files[q].name # n
  BY <1>4, <1>6 DEF MemoInv, FilesShape, Objects!find
<1>8. FilesShape'
  BY <1>1, <1>2, <1>3, <1>4, <1>5, <1>7 DEF MemoInv, FilesShape
<1>9. Used' = Used \cup {p}
  BY <1>1, <1>4, <1>5, <1>6 DEF Used
<1>10. FilesFew'
  <2>1. CASE files[p].name = n
    <3>1. p \in Used
      BY <1>4, <1>6, <2>1 DEF Used
    <3>2. Used' = Used
      BY <1>9, <3>1
    <3>3. QED
      BY <3>2 DEF MemoInv, FilesFew
  <2>2. CASE files[p] = Objects!NoFile /\ Objects!find(n) = {}
    <3>1. p \notin Used /\ Cardinality(Used) < MaxObjects
      BY <1>1, <2>2, SameCount DEF HasRoom, Objects!objectCount, Used
    <3>2. IsFiniteSet(Used \cup {p}) /\ Cardinality(Used \cup {p}) = Cardinality(Used) + 1
      BY <3>1, FS_AddElement DEF MemoInv, FilesFew
    <3>3. Cardinality(Used) \in Nat
      BY FS_CardinalityType DEF MemoInv, FilesFew
    <3>4. QED
      BY <1>9, <3>1, <3>2, <3>3 DEF FilesFew
  <2>3. QED
    BY <1>4, <2>1, <2>2
<1>11. FilesAsKept'
  <2>0. /\ files'[p].name = n /\ \A m \in Names \ {n} : files[p].name # m
        /\ \A q \in Objects!Paths \ {p} : files'[q].name = files[q].name
    BY <1>1, <1>4, <1>5, <1>6
  <2>1. Objects!find(n)' = {p}
    BY <1>4, <1>7, <2>0 DEF Objects!find
  <2>2. \A m \in Names \ {n} : Objects!find(m)' = Objects!find(m) /\ p \notin Objects!find(m)
    BY <2>0 DEF Objects!find
  <2>3. \A m \in Names \ {n} : Objects!find(m) \subseteq Objects!Paths /\ lastKept'[m] = lastKept[m]
    BY <1>3, <1>5 DEF Objects!find
  <2>4. lastKept'[n] = stage
    BY <1>3, <1>5
  <2>5. QED
    BY <1>5, <2>1, <2>2, <2>3, <2>4 DEF MemoInv, FilesAsKept
<1>12. WriteFits'
  BY <1>3 DEF MemoInv, WriteFits, Objects!rename
<1>13. QED
  BY <1>8, <1>10, <1>11, <1>12 DEF MemoInv

(* Every step of the memo keeps the files as last kept.                    *)
LEMMA MemoInvariant == Objects!MemoSpec => []MemoInv
<1> USE BesideAssumption DEF Objects!MemoAssumption
<1>1. Objects!MemoInit => MemoInv
  <2> SUFFICES ASSUME Objects!MemoInit PROVE MemoInv
    OBVIOUS
  <2> USE DEF Objects!MemoInit
  <2>1. Objects!NoFile.name \notin Names /\ \A p \in Objects!Paths : files[p] = Objects!NoFile
    BY DEF Objects!NoFile
  <2>2. FilesShape
    BY <2>1 DEF FilesShape
  <2>3. FilesFew
    <3>1. Used = {}
      BY <2>1 DEF Used
    <3>2. QED
      BY <3>1, FS_EmptySet DEF FilesFew
  <2>4. WriteFits
    BY DEF WriteFits
  <2>5. FilesAsKept
    BY <2>1 DEF FilesAsKept, Objects!find
  <2>6. QED
    BY <2>2, <2>3, <2>4, <2>5 DEF MemoInv
<1>2. MemoInv /\ [Objects!MemoNext]_(Objects!memoVars) => MemoInv'
  <2> SUFFICES ASSUME MemoInv, [Objects!MemoNext]_(Objects!memoVars) PROVE MemoInv'
    OBVIOUS
  <2>1. ASSUME files' = files, NEW n, HasRoom(n) PROVE HasRoom(n)'
    BY <2>1 DEF HasRoom, Objects!find, Objects!objectCount
  \* a write begins or goes on
  <2>2. ASSUME NEW n \in Names, NEW w, NEW d, HasRoom(n), Objects!gathered(n, w, d)
        PROVE  MemoInv'
    <3>1. files' = files /\ lastKept' = lastKept /\ HasRoom(n)'
      BY <2>1, <2>2 DEF Objects!gathered
    <3>2. WriteFits'
      BY <2>2, <3>1 DEF Objects!gathered, WriteFits, Objects!NoWrite
    <3>3. QED
      BY <3>1, <3>2, FilesStay
  <2>3. CASE Objects!Write
    <3>1. PICK n \in Names, w \in Contents, d \in Parts :
            Objects!writeFirst(n, w, d) \/ \E offset \in 1 .. Len(w) : Objects!writeNext(n, w, offset, d)
      BY <2>3 DEF Objects!Write
    <3>2. CASE Objects!writeFirst(n, w, d)
      BY <2>2, <3>2 DEF Objects!writeFirst, HasRoom
    <3>3. CASE \E offset \in 1 .. Len(w) : Objects!writeNext(n, w, offset, d)
      <4>1. staging = [name |-> n, whole |-> w] /\ Objects!gathered(n, w, stage.data \o d)
        BY <3>3 DEF Objects!writeNext, Objects!fits
      <4>2. HasRoom(n)
        BY <4>1 DEF MemoInv, WriteFits, Objects!NoWrite
      <4>3. QED
        BY <2>2, <4>1, <4>2
    <3>4. QED
      BY <3>1, <3>2, <3>3
  <2>4. CASE \/ Objects!writeShort \/ Objects!sessionOver \/ Objects!powerLoss
             \/ Objects!renameFails \/ Objects!badStageGoes
    <3>1. files' = files /\ lastKept' = lastKept
      BY <2>4 DEF Objects!writeShort, Objects!sessionOver, Objects!powerLoss,
                  Objects!renameFails, Objects!badStageGoes, Objects!dropStaging
    <3>2. WriteFits'
      BY <2>4 DEF Objects!writeShort, Objects!sessionOver, Objects!powerLoss,
                  Objects!renameFails, Objects!badStageGoes, Objects!dropStaging, MemoInv, WriteFits
    <3>3. QED
      BY <3>1, <3>2, FilesStay
  <2>5. CASE Objects!rename
    BY <2>5, ObjectComes
  <2>6. CASE Objects!badObjectGoes
    <3>1. PICK n \in Names : n = meant.name
      BY <2>6 DEF Objects!badObjectGoes, MemoInv, WriteFits
    <3>2. /\ files' = [p \in Objects!Paths |-> IF p \in Objects!find(n) THEN Objects!NoFile ELSE files[p]]
          /\ lastKept' = [lastKept EXCEPT ![n] = Objects!NoFile]
          /\ closing' = "no" /\ staging' = staging /\ staging = Objects!NoWrite
      BY <2>6, <3>1 DEF Objects!badObjectGoes, MemoInv, WriteFits
    <3>3. FilesShape' /\ FilesFew' /\ FilesAsKept'
      BY <3>2, ObjectGoes
    <3>4. QED
      BY <3>2, <3>3 DEF MemoInv, WriteFits
  <2>7. CASE Objects!Remove
    <3>1. PICK n \in Names, goes \in BOOLEAN : Objects!remove(n, goes)
      BY <2>7 DEF Objects!Remove
    <3>2. /\ closing = "no" /\ closing' = "no"
          /\ staging' = Objects!NoWrite \/ (staging' = staging /\ staging.name # n)
      BY <3>1 DEF Objects!remove
    <3>3. CASE goes
      <4>1. /\ files' = [p \in Objects!Paths |-> IF p \in Objects!find(n) THEN Objects!NoFile ELSE files[p]]
            /\ lastKept' = [lastKept EXCEPT ![n] = Objects!NoFile]
        BY <3>1, <3>3 DEF Objects!remove
      <4>2. /\ FilesShape' /\ FilesFew' /\ FilesAsKept'
            /\ \A m \in Names \ {n} : HasRoom(m) => HasRoom(m)'
        BY <4>1, ObjectGoes
      <4>3. WriteFits'
        BY <3>2, <4>2 DEF MemoInv, WriteFits
      <4>4. QED
        BY <4>2, <4>3 DEF MemoInv
    <3>4. CASE ~goes
      <4>1. files' = files /\ lastKept' = lastKept
        BY <3>1, <3>4 DEF Objects!remove
      <4>2. WriteFits'
        BY <2>1, <3>2, <4>1 DEF MemoInv, WriteFits
      <4>3. QED
        BY <4>1, <4>2, FilesStay
    <3>5. QED
      BY <3>3, <3>4
  <2>8. CASE UNCHANGED Objects!memoVars
    <3>1. files' = files /\ lastKept' = lastKept
      BY <2>8 DEF Objects!memoVars
    <3>2. WriteFits'
      BY <2>1, <2>8 DEF Objects!memoVars, MemoInv, WriteFits
    <3>3. QED
      BY <3>1, <3>2, FilesStay
  <2>9. QED
    BY <2>3, <2>4, <2>5, <2>6, <2>7, <2>8 DEF Objects!MemoNext
<1>3. QED
  BY <1>1, <1>2, PTL DEF Objects!MemoSpec

(* At every step of every write and delete, wherever the power fails, an   *)
(* object reads as its last whole write or delete left it, has one file,   *)
(* and there are no more than the limit (OepMemo: write, finish, remove).  *)
THEOREM ObjectsStay == Objects!MemoSpec => []ObjectsKept
BY MemoInvariant, KeptOnce, PTL

-----------------------------------------------------------------------------
(* The position stream.  What a ring keeps is found by remainders, so they *)
(* come first.                                                             *)

\* A remainder is the only number below the turn that whole turns away.
LEMMA RemainderIs ==
  ASSUME NEW T \in Nat \ {0}, NEW q \in Int, NEW r \in 0 .. T - 1
  PROVE  (T * q + r) % T = r
<1> DEFINE a == T * q + r
           t == a % T
<1>1. a \in Int /\ T * q \in Int
  OBVIOUS
<1>2. PICK p \in Int : a = T * p + t
  <2>1. a \div T \in Int /\ a = T * (a \div T) + t
    BY <1>1
  <2> HIDE DEF t
  <2> QED BY <2>1
<1>3. t \in 0 .. T - 1
  BY <1>1
<1> HIDE DEF t
<1>4. T * (p - q) = r - t
  <2>1. T * (p - q) = T * p - T * q /\ T * p \in Int
    OBVIOUS
  <2> QED BY <1>1, <1>2, <1>3, <2>1
<1>5. p - q = 0
  <2>1. p - q >= 1 => T * (p - q) >= T
    OBVIOUS
  <2>2. p - q <= -1 => T * (p - q) <= -T
    OBVIOUS
  <2>3. T * (p - q) \in Int /\ p - q \in Int
    OBVIOUS
  <2> QED BY <1>3, <1>4, <2>1, <2>2, <2>3
<1>6. t = r
  <2>1. T * (p - q) = 0
    BY <1>5
  <2> QED BY <1>3, <1>4, <2>1
<1> QED BY <1>6 DEF t

\* A number below the turn is its own remainder, and a remainder is below the turn.
LEMMA OwnRest ==
  ASSUME NEW T \in Nat \ {0}
  PROVE  /\ \A a \in 0 .. T - 1 : a % T = a
         /\ \A a \in Int : a % T \in 0 .. T - 1
OBVIOUS

\* A number is some turns and its remainder.
LEMMA TurnsAndRest ==
  ASSUME NEW T \in Nat \ {0}, NEW a \in Int
  PROVE  \E q \in Int : a = T * q + (a % T) /\ a % T \in 0 .. T - 1
<1>1. a \div T \in Int /\ a = T * (a \div T) + (a % T) /\ a % T \in 0 .. T - 1
  OBVIOUS
<1> QED BY <1>1

\* A remainder taken before a number is added changes nothing.
LEMMA RestThenMore ==
  ASSUME NEW T \in Nat \ {0}, NEW a \in Int, NEW b \in Int
  PROVE  ((a % T) + b) % T = (a + b) % T
<1> DEFINE r == a % T
           c == r + b
           s == c % T
<1>1. PICK q \in Int : a = T * q + r /\ r \in 0 .. T - 1
  BY TurnsAndRest
<1> HIDE DEF r
<1>2. c \in Int
  BY <1>1
<1>3. PICK p \in Int : c = T * p + s /\ s \in 0 .. T - 1
  <2> HIDE DEF c
  <2> QED BY <1>2, TurnsAndRest
<1> HIDE DEF s
<1>4. a + b = T * (q + p) + s
  <2>1. T * (q + p) = T * q + T * p /\ T * q \in Int /\ T * p \in Int
    OBVIOUS
  <2> QED BY <1>1, <1>3, <2>1 DEF c
<1>5. (T * (q + p) + s) % T = s
  <2>1. q + p \in Int
    OBVIOUS
  <2> QED BY <1>3, <2>1, RemainderIs
<1>6. (a + b) % T = s
  BY <1>4, <1>5
<1> QED BY <1>6 DEF s, c, r

\* Numbers less than a turn apart have remainders of their own.
LEMMA RestsApart ==
  ASSUME NEW T \in Nat \ {0}, NEW a \in Int, NEW b \in Int, a < b, b < a + T
  PROVE  a % T # b % T
<1>1. PICK q \in Int : a = T * q + (a % T) /\ a % T \in 0 .. T - 1
  BY TurnsAndRest
<1>2. PICK p \in Int : b = T * p + (b % T) /\ b % T \in 0 .. T - 1
  BY TurnsAndRest
<1> DEFINE r == a % T
           s == b % T
<1>3. a = T * q + r /\ b = T * p + s /\ r \in Int /\ s \in Int
  BY <1>1, <1>2
<1> HIDE DEF r, s
<1>4. ASSUME r = s PROVE FALSE
  <2>1. T * (p - q) = T * p - T * q /\ T * p \in Int /\ T * q \in Int
    OBVIOUS
  <2>2. T * (p - q) = b - a
    BY <1>3, <1>4, <2>1
  <2>3. p - q >= 1 => T * (p - q) >= T
    OBVIOUS
  <2>4. p - q <= 0 => T * (p - q) <= 0
    OBVIOUS
  <2>5. T * (p - q) \in Int /\ p - q \in Int
    OBVIOUS
  <2> QED BY <2>2, <2>3, <2>4, <2>5
<1> QED BY <1>4 DEF r, s
(* The bytes: a ring keeps every byte from the oldest on at the remainder  *)
(* of its position.                                                        *)
BytesTyped ==
  /\ total \in Nat /\ base \in 0 .. total
  /\ buffer \in [0 .. Capacity - 1 -> Int]
  /\ written \in Seq(Int) /\ Len(written) = total
  /\ heard \in Seq(Int)
  /\ overflowing \in BOOLEAN
BytesKept == \A i \in Stream!oldest .. total - 1 : buffer[i % Capacity] = written[i + 1]
BytesInv == BytesTyped /\ BytesKept /\ Stream!HostKnowsEveryByte /\ Stream!OverflowIsTold

(* The marks: back from the newest each lies in a slot of its own, with    *)
(* its serial; and the host goes on from the serial after its last.        *)
MarksTyped ==
  /\ made \in Nat /\ keptMarks \in 0 .. MarksKept /\ keptMarks <= made
  /\ newest \in 0 .. MarksKept - 1
  /\ serial \in 0 .. Serials - 1 /\ nextSerial \in 0 .. Serials - 1
  /\ marks \in [0 .. MarksKept - 1 -> [serial : Nat, nth : Nat]]
  /\ told \in Seq(Nat)
MarksAreKept == \A back \in 1 .. keptMarks :
  marks[(newest - back) % MarksKept] = [serial |-> (serial - back) % Serials, nth |-> made + 1 - back]
HostGoesOn ==
  /\ Stream!LastTold <= made /\ made - Stream!LastTold <= Serials - 1
  /\ nextSerial = (serial - (made - Stream!LastTold)) % Serials
MarksInv == MarksTyped /\ MarksAreKept /\ HostGoesOn /\ Stream!HostGetsEveryMark
\* The stream's constants, and what a gap is.
LEMMA StreamIs ==
  /\ Bytes \subseteq Nat /\ Capacity \in Nat \ {0} /\ MarksKept \in Nat \ {0} /\ Page \in Nat \ {0}
  /\ Serials \in Nat \ {0} /\ MarksKept < Serials
  /\ Stream!Gap \in Int
BY BesideAssumption DEF Stream!StreamAssumption, Stream!Gap

\* The oldest byte kept: at most the ring's size back, and never before the base.
LEMMA OldestIs ==
  ASSUME BytesTyped
  PROVE  /\ Stream!oldest \in base .. total /\ total - Stream!oldest <= Capacity
         /\ (total - base <= Capacity => Stream!oldest = base)
         /\ (total - base > Capacity => Stream!oldest = total - Capacity)
BY StreamIs DEF BytesTyped, Stream!oldest

\* A byte pushes out at most the one whose place it takes.
LEMMA PutKeeps ==
  ASSUME BytesInv, NEW byte \in Bytes, Stream!put(byte)
  PROVE  BytesInv'
<1> USE StreamIs
<1>1. BytesTyped /\ BytesKept /\ Stream!HostKnowsEveryByte /\ Stream!OverflowIsTold
  BY DEF BytesInv
<1>2. /\ total' = total + 1 /\ base' = base /\ heard' = heard
      /\ buffer' = [buffer EXCEPT ![total % Capacity] = byte]
      /\ written' = Append(written, byte)
  BY DEF Stream!put
<1>3. total % Capacity \in 0 .. Capacity - 1
  BY <1>1 DEF BytesTyped
<1>4. overflowing' \in BOOLEAN /\ (overflowing' <=> (overflowing \/ Stream!Full))
  <2>1. CASE Stream!Full /\ ~overflowing
    BY <2>1 DEF Stream!put
  <2>2. CASE ~(Stream!Full /\ ~overflowing)
    BY <1>1, <2>2 DEF Stream!put, BytesTyped
  <2> QED BY <2>1, <2>2
<1>5. BytesTyped'
  <2>1. byte \in Int
    OBVIOUS
  <2>2. written' \in Seq(Int) /\ Len(written') = total'
    <3>1. written \in Seq(Int) /\ Len(written) = total /\ total' = total + 1
      BY <1>1, <1>2 DEF BytesTyped
    <3>2. written' = Append(written, byte)
      BY <1>2
    <3> QED BY ONLY <2>1, <3>1, <3>2
  <2>3. total' \in Nat /\ base' \in 0 .. total'
    BY <1>1, <1>2 DEF BytesTyped
  <2>4. buffer' \in [0 .. Capacity - 1 -> Int]
    BY <1>1, <1>2, <1>3, <2>1 DEF BytesTyped
  <2> QED BY <1>1, <1>2, <1>4, <2>2, <2>3, <2>4 DEF BytesTyped
<1>6. Stream!oldest \in base .. total
  BY <1>1, OldestIs
<1>7. /\ Stream!oldest' \in base' .. total' /\ total' - Stream!oldest' <= Capacity
      /\ Stream!oldest' >= Stream!oldest
  BY <1>1, <1>2 DEF BytesTyped, Stream!oldest
<1>8. BytesKept'
  <2> SUFFICES ASSUME NEW i \in Stream!oldest' .. total' - 1
               PROVE  buffer'[i % Capacity] = written'[i + 1]
    BY DEF BytesKept
  <2>1. i \in Nat /\ i >= Stream!oldest /\ i <= total /\ total < i + Capacity
    <3>1. total \in Nat /\ base \in Nat /\ total' = total + 1 /\ base' = base
      BY <1>1, <1>2 DEF BytesTyped
    <3>2. Stream!oldest \in Nat /\ Stream!oldest' \in Nat
      BY <1>6, <1>7, <3>1
    <3>3. i \in Int /\ i >= Stream!oldest' /\ i <= total' - 1
      BY <3>1, <3>2
    <3>4. Capacity \in Nat /\ total' - Stream!oldest' <= Capacity /\ Stream!oldest' >= Stream!oldest
      BY <1>7
    <3> DEFINE o == Stream!oldest
               n == Stream!oldest'
    <3>5. o \in Nat /\ n \in Nat
      BY <3>2
    <3>6. total' - n <= Capacity /\ n >= o
      BY <3>4
    <3>7. i \in Int /\ i >= n /\ i <= total' - 1
      BY <3>3
    <3> HIDE DEF o, n
    <3>8. i \in Nat /\ i >= o /\ i <= total /\ total < i + Capacity
      BY ONLY <3>1, <3>4, <3>5, <3>6, <3>7
    <3> QED BY <3>8 DEF o
  <2>2. CASE i = total
    <3>1. buffer'[total % Capacity] = byte
      BY <1>1, <1>2, <1>3 DEF BytesTyped
    <3>2. written'[total + 1] = byte
      BY <1>1, <1>2 DEF BytesTyped
    <3> QED BY <2>2, <3>1, <3>2
  <2>3. CASE i # total
    <3>1. i \in Stream!oldest .. total - 1
      <4>1. total \in Int
        BY <1>1 DEF BytesTyped
      <4> QED BY ONLY <1>6, <2>1, <2>3, <4>1
    <3>2. i % Capacity # total % Capacity
      <4>1. i \in Int /\ total \in Int /\ i < total
        BY <1>1, <2>1, <2>3 DEF BytesTyped
      <4> QED BY <2>1, <4>1, RestsApart
    <3>3. i % Capacity \in 0 .. Capacity - 1
      BY <2>1
    <3>4. buffer'[i % Capacity] = buffer[i % Capacity]
      BY <1>1, <1>2, <3>2, <3>3 DEF BytesTyped
    <3>5. written'[i + 1] = written[i + 1]
      <4>1. written \in Seq(Int) /\ Len(written) = total /\ total \in Nat
        BY <1>1 DEF BytesTyped
      <4>2. i + 1 \in 1 .. Len(written)
        BY ONLY <2>1, <2>3, <4>1
      <4>3. written' = Append(written, byte) /\ byte \in Int
        BY <1>2
      <4> QED BY ONLY <4>1, <4>2, <4>3
    <3> QED BY <1>1, <3>1, <3>4, <3>5 DEF BytesKept
  <2> QED BY <2>2, <2>3
<1>9. Stream!HostKnowsEveryByte'
  <2>1. Len(heard') <= total'
    BY <1>1, <1>2 DEF BytesTyped, Stream!HostKnowsEveryByte
  <2>2. ASSUME NEW i \in 1 .. Len(heard')
        PROVE  heard'[i] = written'[i] \/ (heard'[i] = Stream!Gap /\ i <= Stream!oldest')
    <3>1. i \in 1 .. Len(heard) /\ i \in 1 .. Len(written)
      BY <1>1, <1>2 DEF BytesTyped, Stream!HostKnowsEveryByte
    <3>2. heard[i] = written[i] \/ (heard[i] = Stream!Gap /\ i <= Stream!oldest)
      BY <1>1, <3>1 DEF Stream!HostKnowsEveryByte
    <3>3. written'[i] = written[i] /\ heard'[i] = heard[i]
      BY <1>1, <1>2, <3>1 DEF BytesTyped
    <3>4. i <= Stream!oldest => i <= Stream!oldest'
      BY <1>1, <1>2, <1>6, <1>7 DEF BytesTyped
    <3> QED BY <3>2, <3>3, <3>4
  <2>3. Stream!Gap' = Stream!Gap
    BY DEF Stream!Gap
  <2> QED BY <2>1, <2>2, <2>3 DEF Stream!HostKnowsEveryByte
<1>10. Stream!OverflowIsTold'
  <2>1. Stream!Full <=> (total - base >= Capacity)
    BY DEF Stream!Full
  <2>2. overflowing <=> (total - base > Capacity)
    BY <1>1 DEF Stream!OverflowIsTold
  <2>3. (total' - base' > Capacity) <=> (total - base >= Capacity)
    BY <1>1, <1>2 DEF BytesTyped
  <2>4. (total - base > Capacity) => (total - base >= Capacity)
    BY <1>1 DEF BytesTyped
  <2>5. overflowing' <=> (total' - base' > Capacity)
    BY <1>4, <2>1, <2>2, <2>3, <2>4
  <2> QED BY <2>5 DEF Stream!OverflowIsTold
<1> QED BY <1>5, <1>8, <1>9, <1>10 DEF BytesInv

\* A clear and an erase keep no byte, and end the episode.
LEMMA ClearKeeps ==
  ASSUME BytesInv, base' = total, overflowing' = FALSE,
         UNCHANGED <<total, buffer, written, heard>>
  PROVE  BytesInv'
<1> USE StreamIs
<1>1. BytesTyped /\ Stream!HostKnowsEveryByte
  BY DEF BytesInv
<1>2. BytesTyped'
  <2>1. base' \in 0 .. total' /\ total' \in Nat
    BY <1>1 DEF BytesTyped
  <2>2. overflowing' \in BOOLEAN
    OBVIOUS
  <2>3. /\ buffer' \in [0 .. Capacity - 1 -> Int] /\ heard' \in Seq(Int)
        /\ written' \in Seq(Int) /\ Len(written') = total'
    BY <1>1 DEF BytesTyped
  <2> QED BY <2>1, <2>2, <2>3 DEF BytesTyped
<1>3. Stream!oldest' = total /\ Stream!oldest <= total
  BY <1>1 DEF BytesTyped, Stream!oldest
<1>4. BytesKept'
  <2>1. Stream!oldest' .. total' - 1 = {}
    BY <1>1, <1>3 DEF BytesTyped
  <2> QED BY <2>1 DEF BytesKept
<1>5. Stream!HostKnowsEveryByte'
  <2>1. Len(heard') <= total'
    BY <1>1 DEF Stream!HostKnowsEveryByte
  <2>2. ASSUME NEW i \in 1 .. Len(heard')
        PROVE  heard'[i] = written'[i] \/ (heard'[i] = Stream!Gap /\ i <= Stream!oldest')
    <3>1. i \in 1 .. Len(heard) /\ i <= total
      BY <1>1 DEF BytesTyped, Stream!HostKnowsEveryByte
    <3>2. heard[i] = written[i] \/ heard[i] = Stream!Gap
      BY <1>1, <3>1 DEF Stream!HostKnowsEveryByte
    <3> QED BY <1>3, <3>1, <3>2
  <2>3. Stream!Gap' = Stream!Gap
    BY DEF Stream!Gap
  <2> QED BY <2>1, <2>2, <2>3 DEF Stream!HostKnowsEveryByte
<1>6. Stream!OverflowIsTold'
  <2>1. ~(total' - base' > Capacity)
    BY <1>1 DEF BytesTyped
  <2> QED BY <2>1 DEF Stream!OverflowIsTold
<1> QED BY <1>2, <1>4, <1>5, <1>6 DEF BytesInv

\* A read gives the host the bytes as they were written, and a gap where none is kept.
LEMMA ReadKeeps ==
  ASSUME BytesInv, NEW max \in 1 .. Capacity, Stream!read(max)
  PROVE  BytesInv'
<1> USE StreamIs
<1>1. BytesTyped /\ BytesKept /\ Stream!HostKnowsEveryByte /\ Stream!OverflowIsTold
  BY DEF BytesInv
<1> DEFINE from == Stream!start(Len(heard))
           count == Stream!Least(total - from, max)
           gap == [i \in 1 .. from - Len(heard) |-> Stream!Gap]
           some == [i \in 1 .. count |-> buffer[(from + i - 1) % Capacity]]
<1>2. /\ heard' = heard \o gap \o some
      /\ UNCHANGED <<total, base, buffer, overflowing, written>>
  BY DEF Stream!read
<1>3. Len(heard) \in Nat /\ Len(heard) <= total /\ total \in Nat
  BY <1>1 DEF BytesTyped, Stream!HostKnowsEveryByte
<1>4. Stream!oldest \in 0 .. total
  BY <1>1, OldestIs DEF BytesTyped
<1>5. /\ from \in Len(heard) .. total /\ from >= Stream!oldest
      /\ (from = Len(heard) \/ from = Stream!oldest)
  BY <1>3, <1>4 DEF Stream!start
<1> HIDE DEF from
<1>6. count \in Nat /\ count <= total - from
  BY <1>3, <1>5 DEF Stream!Least
<1> HIDE DEF count
<1>7. /\ gap \in Seq(Int) /\ Len(gap) = from - Len(heard)
      /\ \A i \in 1 .. from - Len(heard) : gap[i] = Stream!Gap
  <2>1. from - Len(heard) \in Nat
    BY <1>3, <1>5
  <2> QED BY <2>1
<1>8. \A i \in 1 .. count : some[i] = written[from + i]
  <2> TAKE i \in 1 .. count
  <2>1. from + i - 1 \in Stream!oldest .. total - 1
    BY <1>3, <1>4, <1>5, <1>6
  <2>2. buffer[(from + i - 1) % Capacity] = written[(from + i - 1) + 1]
    BY <1>1, <2>1 DEF BytesKept
  <2>3. (from + i - 1) + 1 = from + i
    BY <1>3, <1>5, <1>6
  <2> QED BY <2>2, <2>3
<1>9. some \in Seq(Int) /\ Len(some) = count
  <2>1. \A i \in 1 .. count : written[from + i] \in Int
    BY <1>1, <1>3, <1>5, <1>6 DEF BytesTyped
  <2>2. some \in [1 .. count -> Int]
    BY <1>8, <2>1
  <2> QED BY <1>6, <2>2
<1> HIDE DEF gap, some
<1>10. /\ heard' \in Seq(Int) /\ Len(heard') = from + count
       /\ \A i \in 1 .. from + count : heard'[i] =
            IF i <= Len(heard) THEN heard[i] ELSE IF i <= from THEN gap[i - Len(heard)] ELSE some[i - from]
  <2>1. heard \in Seq(Int)
    BY <1>1 DEF BytesTyped
  <2>2. heard \o gap \in Seq(Int) /\ Len(heard \o gap) = from
    BY <1>3, <1>5, <1>7, <2>1
  <2>3. \A i \in 1 .. from : (heard \o gap)[i] = IF i <= Len(heard) THEN heard[i] ELSE gap[i - Len(heard)]
    BY <1>3, <1>5, <1>7, <2>1
  <2> DEFINE before == heard \o gap
  <2>4. before \in Seq(Int) /\ Len(before) = from /\ heard' = before \o some
    BY <1>2, <2>2
  <2>5. \A i \in 1 .. from : before[i] = IF i <= Len(heard) THEN heard[i] ELSE gap[i - Len(heard)]
    BY <2>3
  <2> HIDE DEF before
  <2>6. heard' \in Seq(Int) /\ Len(heard') = from + count
    BY <1>9, <2>4, ConcatProperties
  <2>7. \A i \in 1 .. from + count : heard'[i] = IF i <= from THEN before[i] ELSE some[i - from]
    <3> TAKE i \in 1 .. from + count
    <3>1. from \in Nat /\ count \in Nat
      BY <1>3, <1>5, <1>6
    <3>2. some \in Seq(Int) /\ Len(some) = count
      BY <1>9
    <3>3. CASE i <= from
      BY ONLY <2>4, <3>1, <3>2, <3>3
    <3>4. CASE ~(i <= from)
      BY ONLY <2>4, <3>1, <3>2, <3>4
    <3> QED BY <3>3, <3>4
  <2>8. ASSUME NEW i \in 1 .. from + count
        PROVE  heard'[i] =
          IF i <= Len(heard) THEN heard[i] ELSE IF i <= from THEN gap[i - Len(heard)] ELSE some[i - from]
    <3>1. i \in Nat /\ (i <= Len(heard) => i <= from)
      BY <1>3, <1>5, <1>6
    <3>2. i <= from => i \in 1 .. from
      BY <1>3, <1>5
    <3> QED BY <2>5, <2>7, <3>1, <3>2
  <2> QED BY <2>6, <2>8
<1>11. Stream!oldest' = Stream!oldest /\ Stream!Gap' = Stream!Gap
  BY <1>2 DEF Stream!oldest, Stream!Gap
<1>12. Stream!HostKnowsEveryByte'
  <2>1. Len(heard') <= total'
    BY <1>2, <1>3, <1>5, <1>6, <1>10
  <2>2. ASSUME NEW i \in 1 .. Len(heard')
        PROVE  heard'[i] = written'[i] \/ (heard'[i] = Stream!Gap /\ i <= Stream!oldest)
    <3>0. i \in 1 .. from + count /\ i \in Nat /\ from \in Nat
      BY <1>3, <1>5, <1>6, <1>10
    <3>1. CASE i <= Len(heard)
      <4>1. heard'[i] = heard[i] /\ i \in 1 .. Len(heard)
        BY <1>3, <1>10, <3>0, <3>1
      <4>2. heard[i] = written[i] \/ (heard[i] = Stream!Gap /\ i <= Stream!oldest)
        BY <1>1, <4>1 DEF Stream!HostKnowsEveryByte
      <4> QED BY <1>2, <4>1, <4>2
    <3>2. CASE ~(i <= Len(heard)) /\ i <= from
      <4>1. heard'[i] = gap[i - Len(heard)] /\ i - Len(heard) \in 1 .. from - Len(heard)
        BY <1>3, <1>10, <3>0, <3>2
      <4>2. from = Stream!oldest
        BY <1>3, <1>5, <3>0, <3>2
      <4> QED BY <1>7, <3>2, <4>1, <4>2
    <3>3. CASE ~(i <= Len(heard)) /\ ~(i <= from)
      <4>1. heard'[i] = some[i - from] /\ i - from \in 1 .. count /\ from + (i - from) = i
        BY <1>3, <1>6, <1>10, <3>0, <3>3
      <4>2. some[i - from] = written[from + (i - from)]
        BY <1>8, <4>1
      <4> QED BY <1>2, <4>1, <4>2
    <3> QED BY <3>1, <3>2, <3>3
  <2> QED BY <1>11, <2>1, <2>2 DEF Stream!HostKnowsEveryByte
<1>13. BytesTyped'
  BY <1>1, <1>2, <1>10 DEF BytesTyped
<1>14. BytesKept'
  BY <1>1, <1>2, <1>11 DEF BytesKept
<1>15. Stream!OverflowIsTold'
  BY <1>1, <1>2 DEF Stream!OverflowIsTold
<1> QED BY <1>12, <1>13, <1>14, <1>15 DEF BytesInv
\* A new mark lies one slot on, and every other one kept is a slot further back.
LEMMA MarkKeeps ==
  ASSUME MarksInv, Stream!Marked, Stream!HostKeepsUp, UNCHANGED <<told, nextSerial>>
  PROVE  MarksInv'
<1>1. MarksTyped /\ MarksAreKept /\ HostGoesOn /\ Stream!HostGetsEveryMark
  BY DEF MarksInv
<1>2. /\ made \in Nat /\ keptMarks \in Nat /\ keptMarks <= MarksKept /\ keptMarks <= made
      /\ newest \in 0 .. MarksKept - 1 /\ serial \in 0 .. Serials - 1
      /\ MarksKept \in Nat \ {0} /\ Serials \in Nat \ {0}
  BY <1>1, StreamIs DEF MarksTyped
<1>0. marks \in [0 .. MarksKept - 1 -> [serial : Nat, nth : Nat]]
  BY <1>1 DEF MarksTyped
<1>3. /\ marks' = [marks EXCEPT ![newest] = [serial |-> serial, nth |-> made + 1]]
      /\ newest' = (newest + 1) % MarksKept
      /\ keptMarks' = IF keptMarks < MarksKept THEN keptMarks + 1 ELSE keptMarks
      /\ serial' = (serial + 1) % Serials
      /\ made' = made + 1
  BY DEF Stream!Marked
<1>4. MarksTyped'
  <2>1. [serial |-> serial, nth |-> made + 1] \in [serial : Nat, nth : Nat]
    BY <1>2
  <2>2. marks' \in [0 .. MarksKept - 1 -> [serial : Nat, nth : Nat]]
    BY <1>0, <1>2, <1>3, <2>1
  <2>3. newest' \in 0 .. MarksKept - 1
    BY <1>2, <1>3
  <2>4. serial' \in 0 .. Serials - 1
    BY <1>2, <1>3
  <2>5. keptMarks' \in 0 .. MarksKept /\ made' \in Nat /\ keptMarks' <= made'
    BY <1>2, <1>3
  <2>6. nextSerial' \in 0 .. Serials - 1 /\ told' \in Seq(Nat)
    BY <1>1 DEF MarksTyped
  <2> QED BY <2>2, <2>3, <2>4, <2>5, <2>6 DEF MarksTyped
<1>5. keptMarks' \in Nat /\ keptMarks' <= MarksKept /\ keptMarks' - 1 <= keptMarks
  BY <1>2, <1>3
<1>6. MarksAreKept'
  <2> SUFFICES ASSUME NEW back \in 1 .. keptMarks'
               PROVE  marks'[(newest' - back) % MarksKept]
                        = [serial |-> (serial' - back) % Serials, nth |-> made' + 1 - back]
    BY DEF MarksAreKept
  <2> DEFINE b == back - 1
  <2>1. back \in Int /\ b \in Nat /\ b <= keptMarks /\ b < MarksKept
    <3> DEFINE k == keptMarks'
    <3>1. /\ back \in Int /\ back >= 1 /\ back <= k
          /\ k \in Nat /\ k <= MarksKept /\ k - 1 <= keptMarks
      BY <1>5
    <3> HIDE DEF k
    <3> QED BY ONLY <1>2, <3>1
  <2>2. (newest' - back) % MarksKept = (newest - b) % MarksKept
    <3>1. (((newest + 1) % MarksKept) + (-back)) % MarksKept = ((newest + 1) + (-back)) % MarksKept
      <4>1. newest + 1 \in Int /\ -back \in Int
        BY <1>2, <2>1
      <4> QED BY <1>2, <4>1, RestThenMore
    <3>2. newest' + (-back) = newest' - back /\ (newest + 1) + (-back) = newest - b
      BY <1>2, <1>4, <2>1 DEF MarksTyped
    <3> QED BY <1>3, <3>1, <3>2
  <2>3. (serial' - back) % Serials = (serial - b) % Serials
    <3>1. (((serial + 1) % Serials) + (-back)) % Serials = ((serial + 1) + (-back)) % Serials
      <4>1. serial + 1 \in Int /\ -back \in Int
        BY <1>2, <2>1
      <4> QED BY <1>2, <4>1, RestThenMore
    <3>2. serial' + (-back) = serial' - back /\ (serial + 1) + (-back) = serial - b
      BY <1>2, <1>4, <2>1 DEF MarksTyped
    <3> QED BY <1>3, <3>1, <3>2
  <2>4. made' + 1 - back = made + 1 - b
    BY <1>2, <1>3, <2>1
  <2>5. CASE b = 0
    <3>1. (newest - b) % MarksKept = newest
      <4>1. newest - b = newest /\ newest % MarksKept = newest
        BY <1>2, <2>1, <2>5, OwnRest
      <4> QED BY <4>1
    <3>2. (serial - b) % Serials = serial /\ made + 1 - b = made + 1
      <4>1. serial - b = serial /\ serial % Serials = serial
        BY <1>2, <2>1, <2>5, OwnRest
      <4> QED BY <1>2, <2>1, <2>5, <4>1
    <3>3. marks'[newest] = [serial |-> serial, nth |-> made + 1]
      BY <1>0, <1>2, <1>3
    <3> QED BY <2>2, <2>3, <2>4, <3>1, <3>2, <3>3
  <2>6. CASE b # 0
    <3>1. b \in 1 .. keptMarks
      BY <1>2, <2>1, <2>6
    <3>2. marks[(newest - b) % MarksKept] = [serial |-> (serial - b) % Serials, nth |-> made + 1 - b]
      BY <1>1, <3>1 DEF MarksAreKept
    <3>3. (newest - b) % MarksKept # newest % MarksKept
      <4>1. newest - b \in Int /\ newest \in Int /\ newest - b < newest /\ newest < (newest - b) + MarksKept
        BY <1>2, <2>1, <2>6
      <4> QED BY <1>2, <4>1, RestsApart
    <3>4. newest % MarksKept = newest /\ (newest - b) % MarksKept \in 0 .. MarksKept - 1
      <4>1. newest - b \in Int
        BY <1>2, <2>1
      <4> QED BY <1>2, <4>1, OwnRest
    <3>5. marks'[(newest - b) % MarksKept] = marks[(newest - b) % MarksKept]
      BY <1>0, <1>2, <1>3, <3>3, <3>4
    <3> QED BY <2>2, <2>3, <2>4, <3>2, <3>5
  <2> QED BY <2>5, <2>6
<1>7. Stream!LastTold' = Stream!LastTold
  BY DEF Stream!LastTold
<1>8. Stream!LastTold \in Nat
  BY <1>1 DEF MarksTyped, Stream!LastTold
<1>9. HostGoesOn'
  <2>1. Stream!LastTold' <= made'
    BY <1>1, <1>2, <1>3, <1>7, <1>8 DEF HostGoesOn
  <2>2. made' - Stream!LastTold' <= Serials - 1
    BY <1>2, <1>3, <1>7, <1>8 DEF Stream!HostKeepsUp
  <2> DEFINE d == made - Stream!LastTold
  <2>3. d \in Int /\ made' - Stream!LastTold = d + 1
    BY <1>2, <1>3, <1>8
  <2>4. nextSerial' = (serial - d) % Serials
    BY <1>1 DEF HostGoesOn
  <2> HIDE DEF d
  <2>5. (serial' - (d + 1)) % Serials = (serial - d) % Serials
    <3>1. (((serial + 1) % Serials) + (-(d + 1))) % Serials = ((serial + 1) + (-(d + 1))) % Serials
      <4>1. serial + 1 \in Int /\ -(d + 1) \in Int
        BY <1>2, <2>3
      <4> QED BY <1>2, <4>1, RestThenMore
    <3>2. serial' + (-(d + 1)) = serial' - (d + 1) /\ (serial + 1) + (-(d + 1)) = serial - d
      BY <1>2, <1>4, <2>3 DEF MarksTyped
    <3> QED BY <1>3, <3>1, <3>2
  <2> QED BY <1>7, <2>1, <2>2, <2>3, <2>4, <2>5 DEF HostGoesOn
<1>10. Stream!HostGetsEveryMark'
  <2>1. made - keptMarks <= made' - keptMarks' /\ made - keptMarks \in Int /\ made' - keptMarks' \in Int
    BY <1>2, <1>3
  <2>2. ASSUME NEW n \in 1 .. Stream!LastTold'
        PROVE  n <= made' - keptMarks' \/ \E i \in 1 .. Len(told') : told'[i] = n
    <3>1. n \in Int /\ n \in 1 .. Stream!LastTold
      BY <1>7, <1>8
    <3>2. n <= made - keptMarks \/ \E i \in 1 .. Len(told) : told[i] = n
      BY <1>1, <3>1 DEF Stream!HostGetsEveryMark
    <3>3. n <= made - keptMarks => n <= made' - keptMarks'
      BY <2>1, <3>1
    <3> QED BY <3>2, <3>3
  <2>3. \A i \in 1 .. Len(told') - 1 : told'[i] < told'[i + 1]
    BY <1>1 DEF Stream!HostGetsEveryMark
  <2> QED BY <2>2, <2>3 DEF Stream!HostGetsEveryMark
<1> QED BY <1>4, <1>6, <1>9, <1>10 DEF MarksInv

\* Marks made anew: those not told are not kept.
LEMMA EraseKeepsMarks ==
  ASSUME MarksInv, keptMarks' = 0, UNCHANGED <<serial, newest, marks, made, told, nextSerial>>
  PROVE  MarksInv'
<1> USE StreamIs
<1>1. MarksTyped /\ HostGoesOn /\ Stream!HostGetsEveryMark
  BY DEF MarksInv
<1>2. MarksTyped'
  BY <1>1 DEF MarksTyped
<1>3. MarksAreKept'
  BY DEF MarksAreKept
<1>4. Stream!LastTold' = Stream!LastTold /\ Stream!LastTold \in Nat /\ made \in Nat
  BY <1>1 DEF Stream!LastTold, MarksTyped
<1>5. HostGoesOn'
  BY <1>1, <1>4 DEF HostGoesOn
<1>6. Stream!HostGetsEveryMark'
  <2>1. ASSUME NEW n \in 1 .. Stream!LastTold'
        PROVE  n <= made' - keptMarks'
    BY <1>1, <1>4 DEF HostGoesOn
  <2>2. \A i \in 1 .. Len(told') - 1 : told'[i] < told'[i + 1]
    BY <1>1 DEF Stream!HostGetsEveryMark
  <2> QED BY <2>1, <2>2 DEF Stream!HostGetsEveryMark
<1> QED BY <1>2, <1>3, <1>5, <1>6 DEF MarksInv
\* How far back a serial lies that was counted back from the next one.
LEMMA SerialsBack ==
  ASSUME NEW T \in Nat \ {0}, NEW s \in 0 .. T - 1, NEW k \in 0 .. T - 1
  PROVE  /\ (s - ((s - k) % T)) % T = k
         /\ ((s - k) % T = s) <=> (k = 0)
<1> DEFINE r == (s - k) % T
<1>1. s - k \in Int /\ s \in Int
  OBVIOUS
<1>2. PICK q \in Int : s - k = T * q + r /\ r \in 0 .. T - 1
  BY <1>1, TurnsAndRest
<1>3. ((s - k) % T = s) <=> (k = 0)
  <2>1. s % T = s
    BY OwnRest
  <2>2. CASE k = 0
    <3>1. s - k = s
      BY <2>2
    <3> QED BY <2>1, <2>2, <3>1
  <2>3. CASE k # 0
    <3>1. s - k < s /\ s < (s - k) + T
      BY <2>3
    <3>2. (s - k) % T # s % T
      BY <1>1, <3>1, RestsApart
    <3> QED BY <2>1, <2>3, <3>2
  <2> QED BY <2>2, <2>3
<1> HIDE DEF r
<1>4. (s - r) % T = k
  <2>1. s - r = T * q + k
    <3>1. T * q \in Int
      OBVIOUS
    <3> QED BY <1>2, <3>1
  <2>2. (T * q + k) % T = k
    BY RemainderIs
  <2> QED BY <2>1, <2>2
<1> QED BY <1>3, <1>4 DEF r

\* How far apart two serials lie that were counted back from the next one.
LEMMA SerialsApart ==
  ASSUME NEW T \in Nat \ {0}, NEW s \in 0 .. T - 1, NEW d \in 0 .. T - 1, NEW k \in 0 .. T - 1
  PROVE  (((s - d) % T) - ((s - k) % T)) % T = (k - d) % T
<1> DEFINE r == (s - k) % T
<1>1. s - k \in Int /\ s - d \in Int /\ r \in Int
  BY OwnRest
<1>2. (s - r) % T = k
  BY SerialsBack
<1> HIDE DEF r
<1>3. -r \in Int /\ s - r \in Int /\ -d \in Int
  BY <1>1
<1>4. (((s - d) % T) + (-r)) % T = ((s - d) + (-r)) % T
  BY <1>1, <1>3, RestThenMore
<1>5. (((s - r) % T) + (-d)) % T = ((s - r) + (-d)) % T
  BY <1>3, RestThenMore
<1>6. (s - d) % T \in Int
  BY <1>1, OwnRest
<1>7. ((s - d) % T) + (-r) = ((s - d) % T) - r
  BY <1>1, <1>6
<1>8. (s - d) + (-r) = (s - r) + (-d) /\ k + (-d) = k - d
  BY <1>1
<1> QED BY <1>2, <1>4, <1>5, <1>7, <1>8 DEF r

\* A difference below the turn either way, and its remainder.
LEMMA DifferenceRest ==
  ASSUME NEW T \in Nat \ {0}, NEW d \in 0 .. T - 1, NEW k \in 0 .. T - 1
  PROVE  (k - d) % T = IF d <= k THEN k - d ELSE k - d + T
<1>1. CASE d <= k
  <2>1. k - d \in 0 .. T - 1
    BY <1>1
  <2> QED BY <1>1, <2>1, OwnRest
<1>2. CASE ~(d <= k)
  <2>1. k - d + T \in 0 .. T - 1 /\ k - d = T * (-1) + (k - d + T)
    BY <1>2
  <2>2. (T * (-1) + (k - d + T)) % T = k - d + T
    BY <2>1, RemainderIs
  <2> QED BY <1>2, <2>1, <2>2
<1> QED BY <1>1, <1>2

\* A page starts at the host's next mark, or at the oldest kept if that is later.
LEMMA PageStarts ==
  ASSUME MarksInv
  PROVE  LET first == Stream!Less(serial, keptMarks)
             d == made - Stream!LastTold IN
         Stream!Less(serial, Stream!serialPageStart(nextSerial, first))
           = IF d <= keptMarks THEN d ELSE keptMarks
<1> DEFINE d == made - Stream!LastTold
           first == Stream!Less(serial, keptMarks)
           from == Stream!serialPageStart(nextSerial, first)
<1>1. Stream!LastTold \in Nat
  BY DEF MarksInv, MarksTyped, Stream!LastTold
<1>2. d \in 0 .. Serials - 1 /\ nextSerial = (serial - d) % Serials
  <2>1. /\ Stream!LastTold <= made /\ d <= Serials - 1 /\ made \in Nat
        /\ nextSerial = (serial - d) % Serials
    BY DEF MarksInv, HostGoesOn, MarksTyped
  <2> QED BY <1>1, <2>1, StreamIs
<1> HIDE DEF d
<1>3. Serials \in Nat \ {0} /\ serial \in 0 .. Serials - 1 /\ keptMarks \in 0 .. Serials - 1
  <2>1. serial \in 0 .. Serials - 1 /\ keptMarks \in 0 .. MarksKept
    BY DEF MarksInv, MarksTyped
  <2> QED BY <2>1, StreamIs
<1>4. first = (serial - keptMarks) % Serials
  BY DEF Stream!Less
<1> HIDE DEF first
<1>5. Stream!Less(serial, first) = keptMarks /\ ((first = serial) <=> (keptMarks = 0))
  BY <1>3, <1>4, SerialsBack DEF Stream!Less
<1>6. Stream!Less(serial, nextSerial) = d /\ ((nextSerial = serial) <=> (d = 0))
  BY <1>2, <1>3, SerialsBack DEF Stream!Less
<1>7. Stream!Less(nextSerial, first) = IF d <= keptMarks THEN keptMarks - d ELSE keptMarks - d + Serials
  <2>1. d \in 0 .. Serials - 1
    BY <1>2
  <2>2. (((serial - d) % Serials) - ((serial - keptMarks) % Serials)) % Serials = (keptMarks - d) % Serials
    BY <1>3, <2>1, SerialsApart
  <2>3. (keptMarks - d) % Serials = IF d <= keptMarks THEN keptMarks - d ELSE keptMarks - d + Serials
    BY <1>3, <2>1, DifferenceRest
  <2> QED BY <1>2, <1>4, <2>2, <2>3 DEF Stream!Less
<1>8. Stream!Less(serial, serial) = 0
  <2>1. serial - serial = 0 /\ 0 \in 0 .. Serials - 1
    BY <1>3
  <2>2. 0 % Serials = 0
    BY <1>3, <2>1, OwnRest
  <2> QED BY <2>1, <2>2 DEF Stream!Less
<1>9. CASE d = 0 \/ keptMarks = 0
  <2>1. from = serial
    BY <1>5, <1>6, <1>9 DEF Stream!serialPageStart
  <2>2. Stream!Less(serial, from) = 0
    BY <1>8, <2>1
  <2> QED BY <1>2, <1>3, <1>9, <2>2 DEF d, first
<1>10. CASE d # 0 /\ keptMarks # 0
  <2>1. from = IF Stream!Less(nextSerial, first) < keptMarks THEN nextSerial ELSE first
    BY <1>5, <1>6, <1>10 DEF Stream!serialPageStart
  <2>2. (Stream!Less(nextSerial, first) < keptMarks) <=> (d <= keptMarks)
    <3>1. CASE d <= keptMarks
      BY <1>2, <1>3, <1>7, <1>10, <3>1
    <3>2. CASE ~(d <= keptMarks)
      BY <1>2, <1>3, <1>7, <1>10, <3>2
    <3> QED BY <3>1, <3>2
  <2>3. Stream!Less(serial, from) = IF d <= keptMarks THEN d ELSE keptMarks
    BY <1>5, <1>6, <2>1, <2>2
  <2> QED BY <2>3 DEF d, first
<1> QED BY <1>9, <1>10
\* A page gives the host its next marks, in order, and the serial to go on from.
LEMMA PageKeeps ==
  ASSUME MarksInv, Stream!marksPage
  PROVE  MarksInv'
<1> DEFINE first == Stream!Less(serial, keptMarks)
           from == Stream!serialPageStart(nextSerial, first)
           left == Stream!Less(serial, from)
           count == Stream!Least(left, Page)
           page == [i \in 1 .. count |-> marks[Stream!slotBack(left - i + 1)]]
           nths == [i \in 1 .. count |-> page[i].nth]
           L == Stream!LastTold
<1>1. MarksTyped /\ MarksAreKept /\ HostGoesOn /\ Stream!HostGetsEveryMark
  BY DEF MarksInv
<1>2. /\ told' = told \o nths
      /\ nextSerial' = IF count = 0 THEN nextSerial ELSE (page[count].serial + 1) % Serials
      /\ UNCHANGED <<serial, newest, keptMarks, marks, made>>
  BY DEF Stream!marksPage
<1>3. /\ L \in Nat /\ made \in Nat /\ L <= made /\ made - L <= Serials - 1
      /\ nextSerial = (serial - (made - L)) % Serials
      /\ keptMarks \in Nat /\ keptMarks <= made
      /\ Serials \in Nat \ {0} /\ serial \in 0 .. Serials - 1
  <2>1. /\ told \in Seq(Nat) /\ made \in Nat
        /\ keptMarks \in Nat /\ keptMarks <= made /\ serial \in 0 .. Serials - 1
    BY <1>1 DEF MarksTyped
  <2>2. L \in Nat
    <3>1. CASE told = <<>>
      BY <3>1 DEF Stream!LastTold
    <3>2. CASE told # <<>>
      <4>1. Len(told) \in 1 .. Len(told)
        BY ONLY <2>1, <3>2
      <4>2. told[Len(told)] \in Nat
        BY ONLY <2>1, <4>1
      <4> QED BY <3>2, <4>2 DEF Stream!LastTold
    <3> QED BY <3>1, <3>2
  <2>3. L <= made /\ made - L <= Serials - 1 /\ nextSerial = (serial - (made - L)) % Serials
    BY <1>1 DEF HostGoesOn
  <2> HIDE DEF L
  <2> QED BY <2>1, <2>2, <2>3, StreamIs
<1>4. left = IF made - L <= keptMarks THEN made - L ELSE keptMarks
  BY PageStarts
<1> HIDE DEF first, from, left, L
<1>5. left \in Nat /\ left <= made - L /\ left <= keptMarks /\ (left = made - L \/ left = keptMarks)
  BY <1>3, <1>4
<1>6. count \in Nat /\ count <= left
  BY <1>5, StreamIs DEF Stream!Least
<1> HIDE DEF count
<1>7. \A i \in 1 .. count :
        page[i].nth = (made - left) + i /\ page[i].serial = (serial - (left - i + 1)) % Serials
  <2> TAKE i \in 1 .. count
  <2>1. left - i + 1 \in 1 .. keptMarks
    BY <1>3, <1>5, <1>6
  <2>2. marks[(newest - (left - i + 1)) % MarksKept]
          = [serial |-> (serial - (left - i + 1)) % Serials, nth |-> made + 1 - (left - i + 1)]
    BY <1>1, <2>1 DEF MarksAreKept
  <2>3. made + 1 - (left - i + 1) = (made - left) + i
    BY <1>3, <1>5
  <2>4. page[i] = marks[(newest - (left - i + 1)) % MarksKept]
    BY DEF Stream!slotBack
  <2> HIDE DEF page
  <2>5. page[i].nth = made + 1 - (left - i + 1) /\ page[i].serial = (serial - (left - i + 1)) % Serials
    BY <2>2, <2>4
  <2> QED BY <2>3, <2>5
<1> HIDE DEF page
<1>8. \A i \in 1 .. count : nths[i] = (made - left) + i
  BY <1>7
<1>9. nths \in Seq(Nat) /\ Len(nths) = count
  <2>1. \A i \in 1 .. count : (made - left) + i \in Nat
    BY <1>3, <1>5
  <2>2. nths \in [1 .. count -> Nat]
    BY <1>8, <2>1
  <2> QED BY <1>6, <2>2
<1> HIDE DEF nths
<1> DEFINE n == Len(told)
<1>10. told \in Seq(Nat) /\ n \in Nat
  BY <1>1 DEF MarksTyped
<1>11. /\ told' \in Seq(Nat) /\ Len(told') = n + count
       /\ \A i \in 1 .. n + count : told'[i] = IF i <= n THEN told[i] ELSE nths[i - n]
  BY <1>2, <1>9, <1>10, ConcatProperties
<1>12. /\ \A i \in 1 .. n : told'[i] = told[i]
       /\ \A i \in 1 .. count : told'[n + i] = (made - left) + i
  <2>1. ASSUME NEW i \in 1 .. n PROVE told'[i] = told[i]
    <3>1. i \in 1 .. n + count /\ i <= n
      BY <1>6, <1>10
    <3> QED BY <1>11, <3>1
  <2>2. ASSUME NEW i \in 1 .. count PROVE told'[n + i] = (made - left) + i
    <3>1. n + i \in 1 .. n + count /\ ~(n + i <= n) /\ (n + i) - n = i
      BY <1>6, <1>10
    <3>2. told'[n + i] = nths[(n + i) - n]
      BY <1>11, <3>1
    <3> QED BY <1>8, <3>1, <3>2
  <2> QED BY <2>1, <2>2
<1>13. L = IF n = 0 THEN 0 ELSE told[n]
  BY <1>10, EmptySeq DEF L, Stream!LastTold
<1>14. Stream!LastTold' = IF count = 0 THEN L ELSE (made - left) + count
  <2>1. Stream!LastTold' = IF Len(told') = 0 THEN 0 ELSE told'[Len(told')]
    BY <1>11, EmptySeq DEF Stream!LastTold
  <2>2. CASE count = 0
    <3>1. Len(told') = n
      BY <1>10, <1>11, <2>2
    <3>2. n # 0 => told'[n] = told[n]
      BY <1>10, <1>12
    <3> QED BY <1>13, <2>1, <2>2, <3>1, <3>2
  <2>3. CASE count # 0
    <3>1. Len(told') = n + count /\ n + count # 0 /\ count \in 1 .. count
      BY <1>6, <1>10, <1>11, <2>3
    <3>2. told'[n + count] = (made - left) + count
      BY <1>12, <3>1
    <3> QED BY <2>1, <2>3, <3>1, <3>2
  <2> QED BY <2>2, <2>3
<1>15. made - Stream!LastTold' = (made - L) - (IF count = 0 THEN 0 ELSE (made - L) - (left - count))
  BY <1>3, <1>5, <1>6, <1>14
<1>16. nextSerial' = (serial - (made - Stream!LastTold')) % Serials
  <2>1. CASE count = 0
    BY <1>2, <1>3, <1>14, <2>1
  <2>2. CASE count # 0
    <3> DEFINE b == left - count + 1
    <3>1. count \in 1 .. count /\ b \in Int
      BY <1>5, <1>6, <2>2
    <3>2. page[count].serial = (serial - b) % Serials
      BY <1>7, <3>1
    <3>3. made - Stream!LastTold' = b - 1
      BY <1>3, <1>5, <1>6, <1>14, <2>2
    <3> HIDE DEF b
    <3>4. (((serial - b) % Serials) + 1) % Serials = ((serial - b) + 1) % Serials
      <4>1. serial - b \in Int
        BY <1>3, <3>1
      <4> QED BY <1>3, <4>1, RestThenMore
    <3>5. (serial - b) + 1 = serial - (b - 1)
      BY <1>3, <3>1
    <3> QED BY <1>2, <2>2, <3>2, <3>3, <3>4, <3>5
  <2> QED BY <2>1, <2>2
<1>17. HostGoesOn'
  <2>1. Stream!LastTold' <= made' /\ made' - Stream!LastTold' <= Serials - 1
    BY <1>2, <1>3, <1>5, <1>6, <1>14
  <2>2. nextSerial' = (serial' - (made' - Stream!LastTold')) % Serials'
    BY <1>2, <1>16
  <2> QED BY <2>1, <2>2 DEF HostGoesOn
<1>18. MarksTyped'
  <2>1. nextSerial' \in 0 .. Serials - 1
    <3>1. serial - (made - Stream!LastTold') \in Int
      BY <1>3, <1>5, <1>6, <1>14
    <3> QED BY <1>3, <1>16, <3>1, OwnRest
  <2> QED BY <1>1, <1>2, <1>11, <2>1 DEF MarksTyped
<1>19. MarksAreKept'
  BY <1>1, <1>2 DEF MarksAreKept
<1>20. \A i \in 1 .. Len(told') - 1 : told'[i] < told'[i + 1]
  <2> TAKE i \in 1 .. Len(told') - 1
  <2>0. i \in Nat /\ 1 <= i /\ i < n + count
    BY <1>6, <1>10, <1>11
  <2>1. CASE i < n
    <3>1. i \in 1 .. n /\ i + 1 \in 1 .. n /\ i \in 1 .. n - 1
      BY <1>10, <2>0, <2>1
    <3>2. told[i] < told[i + 1]
      BY <1>1, <3>1 DEF Stream!HostGetsEveryMark
    <3> QED BY <1>12, <3>1, <3>2
  <2>2. CASE i = n
    <3>1. n \in 1 .. n /\ n # 0 /\ 1 \in 1 .. count
      BY <1>6, <1>10, <2>0, <2>2
    <3>2. told'[n] = L /\ told'[n + 1] = (made - left) + 1
      BY <1>12, <1>13, <3>1
    <3> QED BY <1>3, <1>5, <2>2, <3>2
  <2>3. CASE i > n
    <3>1. i - n \in 1 .. count /\ i - n + 1 \in 1 .. count
      BY <1>6, <1>10, <2>0, <2>3
    <3>2. told'[n + (i - n)] = (made - left) + (i - n) /\ told'[n + (i - n + 1)] = (made - left) + (i - n + 1)
      BY <1>12, <3>1
    <3>3. n + (i - n) = i /\ n + (i - n + 1) = i + 1
      BY <1>10, <2>0
    <3> QED BY <1>3, <1>5, <1>10, <2>0, <3>2, <3>3
  <2> QED BY <1>10, <2>0, <2>1, <2>2, <2>3
<1>21. ASSUME NEW m \in 1 .. Stream!LastTold'
       PROVE  m <= made' - keptMarks' \/ \E i \in 1 .. Len(told') : told'[i] = m
  <2>1. m \in Nat /\ m >= 1 /\ m <= Stream!LastTold' /\ made' = made /\ keptMarks' = keptMarks
    BY <1>2, <1>3, <1>5, <1>6, <1>14
  <2>2. CASE m <= L
    <3>1. m <= made - keptMarks \/ \E i \in 1 .. Len(told) : told[i] = m
      <4>1. m \in 1 .. L
        BY <1>3, <2>1, <2>2
      <4> QED BY <1>1, <4>1 DEF Stream!HostGetsEveryMark, L
    <3>2. ASSUME NEW i \in 1 .. n, told[i] = m
          PROVE  \E j \in 1 .. Len(told') : told'[j] = m
      <4>1. i \in 1 .. Len(told') /\ told'[i] = m
        BY <1>6, <1>10, <1>11, <1>12, <3>2
      <4> QED BY <4>1
    <3> QED BY <2>1, <3>1, <3>2
  <2>3. CASE ~(m <= L) /\ m <= made - left
    <3>1. left = keptMarks
      BY <1>3, <1>5, <2>1, <2>3
    <3> QED BY <2>1, <2>3, <3>1
  <2>4. CASE ~(m <= L) /\ ~(m <= made - left)
    <3> DEFINE i == m - (made - left)
    <3>1. i \in 1 .. count
      BY <1>3, <1>5, <1>6, <1>14, <2>1, <2>4
    <3>2. told'[n + i] = (made - left) + i /\ (made - left) + i = m
      BY <1>3, <1>5, <1>12, <2>1, <3>1
    <3>3. n + i \in 1 .. Len(told')
      BY <1>6, <1>10, <1>11, <3>1
    <3> QED BY <3>2, <3>3
  <2> QED BY <2>2, <2>3, <2>4
<1>22. Stream!HostGetsEveryMark'
  BY <1>20, <1>21 DEF Stream!HostGetsEveryMark
<1> QED BY <1>17, <1>18, <1>19, <1>22 DEF MarksInv
(* The host's bytes and its marks are written apart: a step keeps each.    *)
StreamInv == BytesInv /\ MarksInv

\* Bytes rest while none of their variables changes.
LEMMA BytesRest ==
  ASSUME BytesInv, UNCHANGED <<total, base, buffer, overflowing, written, heard>>
  PROVE  BytesInv'
<1>1. UNCHANGED <<Stream!oldest, Stream!Gap>>
  BY DEF Stream!oldest, Stream!Gap
<1> QED BY <1>1 DEF BytesInv, BytesTyped, BytesKept, Stream!HostKnowsEveryByte, Stream!OverflowIsTold

\* So do the marks.
LEMMA MarksRest ==
  ASSUME MarksInv, UNCHANGED <<serial, newest, keptMarks, marks, made, told, nextSerial>>
  PROVE  MarksInv'
<1>1. UNCHANGED Stream!LastTold
  BY DEF Stream!LastTold
<1> QED BY <1>1 DEF MarksInv, MarksTyped, MarksAreKept, HostGoesOn, Stream!HostGetsEveryMark

\* A stream from position 0, for the host too.
LEMMA FromTheStart ==
  ASSUME total' = 0, base' = 0, serial' = 0, newest' = 0, keptMarks' = 0, overflowing' = FALSE,
         written' = <<>>, made' = 0, heard' = <<>>, told' = <<>>, nextSerial' = 0,
         buffer' \in [0 .. Capacity - 1 -> Int],
         marks' \in [0 .. MarksKept - 1 -> [serial : Nat, nth : Nat]]
  PROVE  StreamInv'
<1> USE StreamIs
<1>1. BytesTyped'
  <2>1. overflowing' \in BOOLEAN
    OBVIOUS
  <2>2. total' \in Nat /\ base' \in 0 .. total'
    OBVIOUS
  <2>3. written' \in Seq(Int) /\ Len(written') = total' /\ heard' \in Seq(Int)
    OBVIOUS
  <2> QED BY <2>1, <2>2, <2>3 DEF BytesTyped
<1>2. Stream!oldest' = 0
  BY DEF Stream!oldest
<1>3. BytesKept'
  <2>1. Stream!oldest' .. total' - 1 = {}
    BY <1>2
  <2> QED BY <2>1 DEF BytesKept
<1>4. Stream!HostKnowsEveryByte'
  BY DEF Stream!HostKnowsEveryByte
<1>5. Stream!OverflowIsTold'
  <2>1. ~(total' - base' > Capacity)
    OBVIOUS
  <2> QED BY <2>1 DEF Stream!OverflowIsTold
<1>6. MarksTyped'
  BY DEF MarksTyped
<1>7. MarksAreKept'
  BY DEF MarksAreKept
<1>8. Stream!LastTold' = 0
  BY DEF Stream!LastTold
<1>9. HostGoesOn'
  <2>1. 0 % Serials = 0
    BY OwnRest
  <2>2. serial' - (made' - Stream!LastTold') = 0
    BY <1>8
  <2> QED BY <1>8, <2>1, <2>2 DEF HostGoesOn
<1>10. Stream!HostGetsEveryMark'
  <2>1. 1 .. Len(told') - 1 = {} /\ 1 .. Stream!LastTold' = {}
    BY <1>8
  <2> QED BY <2>1 DEF Stream!HostGetsEveryMark
<1> QED BY <1>1, <1>3, <1>4, <1>5, <1>6, <1>7, <1>9, <1>10 DEF StreamInv, BytesInv, MarksInv

\* The stream's invariant.
LEMMA StreamInvariant == Stream!StreamSpec => []StreamInv
<1>1. Stream!StreamInit => StreamInv
  <2> SUFFICES ASSUME Stream!StreamInit PROVE StreamInv
    OBVIOUS
  <2> USE StreamIs DEF Stream!StreamInit
  <2>1. BytesTyped
    <3>1. overflowing \in BOOLEAN
      OBVIOUS
    <3>2. total \in Nat /\ base \in 0 .. total /\ buffer \in [0 .. Capacity - 1 -> Int]
      OBVIOUS
    <3>3. written \in Seq(Int) /\ Len(written) = total /\ heard \in Seq(Int)
      OBVIOUS
    <3> QED BY <3>1, <3>2, <3>3 DEF BytesTyped
  <2>2. Stream!oldest = 0
    BY DEF Stream!oldest
  <2>3. BytesKept
    <3>1. Stream!oldest .. total - 1 = {}
      BY <2>2
    <3> QED BY <3>1 DEF BytesKept
  <2>4. Stream!HostKnowsEveryByte
    BY DEF Stream!HostKnowsEveryByte
  <2>5. Stream!OverflowIsTold
    <3>1. ~(total - base > Capacity)
      OBVIOUS
    <3> QED BY <3>1 DEF Stream!OverflowIsTold
  <2>6. MarksTyped
    BY DEF MarksTyped
  <2>7. MarksAreKept
    BY DEF MarksAreKept
  <2>8. Stream!LastTold = 0
    BY DEF Stream!LastTold
  <2>9. HostGoesOn
    <3>1. 0 % Serials = 0
      BY OwnRest
    <3>2. serial - (made - Stream!LastTold) = 0
      BY <2>8
    <3> QED BY <2>8, <3>1, <3>2 DEF HostGoesOn
  <2>10. Stream!HostGetsEveryMark
    <3>1. 1 .. Len(told) - 1 = {} /\ 1 .. Stream!LastTold = {}
      BY <2>8
    <3> QED BY <3>1 DEF Stream!HostGetsEveryMark
  <2> QED BY <2>1, <2>3, <2>4, <2>5, <2>6, <2>7, <2>9, <2>10 DEF StreamInv, BytesInv, MarksInv
<1>2. StreamInv /\ [Stream!StreamNext]_(Stream!streamVars) => StreamInv'
  <2> SUFFICES ASSUME StreamInv, [Stream!StreamNext]_(Stream!streamVars) PROVE StreamInv'
    OBVIOUS
  <2>0. BytesInv /\ MarksInv
    BY DEF StreamInv
  <2>1. CASE Stream!HostKeepsUp /\ Stream!mark
    <3>1. BytesInv'
      BY <2>0, <2>1, BytesRest DEF Stream!mark
    <3>2. MarksInv'
      BY <2>0, <2>1, MarkKeeps DEF Stream!mark
    <3> QED BY <3>1, <3>2 DEF StreamInv
  <2>2. CASE Stream!HostKeepsUp /\ Stream!clear
    <3>1. BytesInv'
      BY <2>0, <2>2, ClearKeeps DEF Stream!clear
    <3>2. MarksInv'
      BY <2>0, <2>2, MarkKeeps DEF Stream!clear
    <3> QED BY <3>1, <3>2 DEF StreamInv
  <2>3. CASE Stream!HostKeepsUp /\ \E byte \in Bytes : Stream!put(byte)
    <3>1. PICK byte \in Bytes : Stream!put(byte)
      BY <2>3
    <3>2. BytesInv'
      BY <2>0, <3>1, PutKeeps
    <3>3. UNCHANGED <<told, nextSerial>> /\ (Stream!Marked \/ Stream!NoMark)
      BY <3>1 DEF Stream!put
    <3>4. CASE Stream!Marked
      BY <2>0, <2>3, <3>2, <3>3, <3>4, MarkKeeps DEF StreamInv
    <3>5. CASE Stream!NoMark
      BY <2>0, <3>2, <3>3, <3>5, MarksRest DEF Stream!NoMark, StreamInv
    <3> QED BY <3>3, <3>4, <3>5
  <2>4. CASE Stream!erase
    <3>1. BytesInv'
      BY <2>0, <2>4, ClearKeeps DEF Stream!erase
    <3>2. MarksInv'
      BY <2>0, <2>4, EraseKeepsMarks DEF Stream!erase
    <3> QED BY <3>1, <3>2 DEF StreamInv
  <2>5. CASE Stream!restart
    <3>1. buffer' \in [0 .. Capacity - 1 -> Int]
      BY <2>0, <2>5 DEF Stream!restart, BytesInv, BytesTyped
    <3>2. marks' \in [0 .. MarksKept - 1 -> [serial : Nat, nth : Nat]]
      BY <2>0, <2>5 DEF Stream!restart, MarksInv, MarksTyped
    <3> QED BY <2>5, <3>1, <3>2, FromTheStart DEF Stream!restart
  <2>6. CASE Stream!marksPage
    <3>1. BytesInv'
      BY <2>0, <2>6, BytesRest DEF Stream!marksPage
    <3>2. MarksInv'
      BY <2>0, <2>6, PageKeeps
    <3> QED BY <3>1, <3>2 DEF StreamInv
  <2>7. CASE \E max \in 1 .. Capacity : Stream!read(max)
    <3>1. PICK max \in 1 .. Capacity : Stream!read(max)
      BY <2>7
    <3>2. BytesInv'
      BY <2>0, <3>1, ReadKeeps
    <3>3. MarksInv'
      BY <2>0, <3>1, MarksRest DEF Stream!read
    <3> QED BY <3>2, <3>3 DEF StreamInv
  <2>8. CASE UNCHANGED Stream!streamVars
    <3>1. BytesInv'
      BY <2>0, <2>8, BytesRest DEF Stream!streamVars
    <3>2. MarksInv'
      BY <2>0, <2>8, MarksRest DEF Stream!streamVars
    <3> QED BY <3>1, <3>2 DEF StreamInv
  <2> QED BY <2>1, <2>2, <2>3, <2>4, <2>5, <2>6, <2>7, <2>8 DEF Stream!StreamNext
<1> QED BY <1>1, <1>2, PTL DEF Stream!StreamSpec

\* A host that goes on from its own position and serial knows the whole stream:
\* each byte as it was written or as a gap over bytes no longer kept, each mark
\* once and in order but those no longer kept, an overflow while it lasts.
THEOREM HostKnowsStreams == Stream!StreamSpec => []HostKnowsTheStream
<1>1. StreamInv => HostKnowsTheStream
  BY DEF StreamInv, BytesInv, MarksInv, HostKnowsTheStream, Stream!HostKnowsTheStream
<1> QED BY <1>1, StreamInvariant, PTL
-----------------------------------------------------------------------------
(* What may come off the line, what may wait for the task, what may be marked. *)
LossSet == [at : Nat, bad : BOOLEAN]
EventSet == [kind : {"data", "overflow", "bad"}, size : Nat, of : SUBSET LossSet]
PlaceSet == [at : Int, of : SUBSET LossSet]

\* The ledger's places: what is held, the ring.
HeldSet == {p \in PlaceSet : p = Uart!None \/ p.at >= 0}
LedgerSet == [hold : HeldSet, ring : Seq(PlaceSet)]

\* Bytes tell of no loss, and a loss brings no bytes.
SaysOne(e) == IF e.kind = "data" THEN e.of = {} ELSE e.size = 0

UartTypes ==
  /\ received \in Nat /\ losses \subseteq LossSet /\ unsaid \subseteq LossSet
  /\ events \in Seq(EventSet) /\ Len(events) <= QueueLength
  /\ \A k \in 1 .. Len(events) : SaysOne(events[k])
  /\ tpc \in {"take", "count", "taken", "held", "check", "publish", "ended"}
  /\ (tpc = "count" => read \in EventSet /\ SaysOne(read)) /\ (tpc # "count" => read = Uart!Quiet)
  /\ unpublished \in Nat /\ sawTaken \in Nat /\ sawHeld \in Int
  /\ pushed \in Nat /\ chunk \in Nat /\ suspect \in Nat /\ limit \in Nat
  /\ hold \in HeldSet /\ ring \in Seq(PlaceSet) /\ pending \in Seq(PlaceSet)
  /\ rlimit \in Nat /\ taken \in Nat
  /\ rpc \in {"look", "drain", "take", "stopped", "begin"}

\* Every loss the places of q tell of.
OfAll(q) == UNION {q[k].of : k \in 1 .. Len(q)}

\* The bytes counted and the last chunk once the event taken is counted.
Counted == IF tpc = "count" THEN pushed + read.size ELSE pushed
LastChunk == IF tpc = "count" /\ read.kind = "data" THEN pushed ELSE chunk

\* The events not counted; and, of those still queued, the ones from before the drop of unsaid.
Queued == Len(events) + (IF tpc = "count" THEN 1 ELSE 0)
Ahead == IF Queued >= QueueLength THEN Len(events)
         ELSE suspect - (IF tpc = "count" THEN 1 ELSE 0)

\* Losses no place of the ledger or of loop() tells of yet.
Coming == read.of \union OfAll(events) \union unsaid

\* The task's counts run behind the driver's, loop()'s behind the task's.
CountsOrder ==
  /\ taken <= received /\ Counted <= received
  /\ chunk <= pushed /\ limit <= pushed /\ rlimit <= limit
  /\ (hold # Uart!None => limit <= hold.at /\ hold.at <= pushed)
  /\ suspect <= Queued
  /\ (tpc = "held" => sawTaken <= taken)
  /\ (tpc = "check" => sawTaken + sawHeld <= received)

\* Event k of es is of the bytes from s[k] on; they come between from and to, one
\* after the other; an overflow is of a place not before them, a bad byte of one
\* past the chunk the event before it counts, the last one at the start.
InOrder(s, es, from, to, last) ==
  /\ s \in [1 .. Len(es) -> Nat]
  /\ \A k \in 1 .. Len(es) : from <= s[k] /\ s[k] + es[k].size <= to
  /\ \A j, k \in 1 .. Len(es) : j < k => s[j] + es[j].size <= s[k]
  /\ \A k \in 1 .. Len(es) : \A l \in es[k].of :
       /\ es[k].kind = "overflow" => s[k] <= l.at
       /\ es[k].kind = "bad" => last < l.at
       /\ es[k].kind = "bad" => \A j \in 1 .. k - 1 : es[j].kind = "data" => s[j] < l.at

\* The first n of es are of bytes before the losses of un.
AheadOf(s, es, n, un) == \A l \in un : \A k \in 1 .. Len(es) : k <= n => s[k] + es[k].size <= l.at

EventsInOrder == \E s : InOrder(s, events, Counted, received, LastChunk) /\ AheadOf(s, events, Ahead, unsaid)

\* The event taken, in the same way.
GotInOrder == \A l \in read.of :
  (read.kind = "overflow" => pushed <= l.at) /\ (read.kind = "bad" => chunk < l.at)

\* A drop not placed was found, or will be, before the task comes to rest.
UnsaidIsDue ==
  /\ unsaid # {} => Queued >= QueueLength \/ suspect > 0
  /\ \A l \in unsaid : Counted <= l.at

PlacesInTime(q) == \A k \in 1 .. Len(q) : \A l \in q[k].of : q[k].at <= l.at

Sorted(q) == \A j, k \in 1 .. Len(q) : j < k => q[j].at <= q[k].at

\* No place is past a loss it tells of, and loop() reads no further than what is not placed.
Placed ==
  /\ PlacesInTime(ring) /\ PlacesInTime(pending) /\ Sorted(pending)
  /\ \A l \in hold.of : hold.at <= l.at
  /\ \A l \in Coming \union hold.of : limit <= l.at
  /\ rpc = "take" => \A l \in OfAll(ring) : rlimit <= l.at

\* A loss is marked, or not passed and somewhere on its way.
Kept == \A l \in losses \ marked :
  taken <= l.at /\ l \in Coming \union hold.of \union OfAll(ring) \union OfAll(pending)

UartParts == CountsOrder /\ EventsInOrder /\ GotInOrder /\ UnsaidIsDue /\ Placed /\ Kept

UartInv == UartTypes /\ (blind = {} => UartParts)
-----------------------------------------------------------------------------
\* What is taken off the head of a queue, and what is put at its end.
LEMMA TailOf ==
  ASSUME NEW R, NEW q \in Seq(R), q # <<>>
  PROVE  /\ Head(q) \in R /\ Head(q) = q[1] /\ Len(q) \in Nat \ {0}
         /\ Tail(q) \in Seq(R) /\ Len(Tail(q)) = Len(q) - 1
         /\ \A i \in 1 .. Len(Tail(q)) : i + 1 \in 2 .. Len(q) /\ Tail(q)[i] = q[i + 1]
OBVIOUS

LEMMA AppendOf ==
  ASSUME NEW R, NEW q \in Seq(R), NEW r \in R
  PROVE  /\ Append(q, r) \in Seq(R) /\ Len(q) \in Nat /\ Len(Append(q, r)) = Len(q) + 1
         /\ \A i \in 1 .. Len(q) : Append(q, r)[i] = q[i]
         /\ Append(q, r)[Len(q) + 1] = r
OBVIOUS

\* The losses told of, when a place is taken off or put at the end.
LEMMA OfTail ==
  ASSUME NEW R, NEW q \in Seq(R), q # <<>>
  PROVE  OfAll(q) = Head(q).of \union OfAll(Tail(q))
<1> DEFINE t == Tail(q)
<1>1. /\ Head(q) = q[1] /\ Len(q) \in Nat \ {0} /\ Len(t) = Len(q) - 1
      /\ \A i \in 1 .. Len(t) : i + 1 \in 2 .. Len(q) /\ t[i] = q[i + 1]
  BY TailOf
<1> HIDE DEF t
<1>2. ASSUME NEW k \in 1 .. Len(q) PROVE k = 1 \/ (k - 1 \in 1 .. Len(t) /\ q[k] = t[k - 1])
  BY <1>1
<1>3. ASSUME NEW l PROVE l \in OfAll(q) <=> l \in Head(q).of \/ l \in OfAll(t)
  <2>1. l \in OfAll(q) <=> \E k \in 1 .. Len(q) : l \in q[k].of
    BY DEF OfAll
  <2>2. l \in OfAll(t) <=> \E k \in 1 .. Len(t) : l \in t[k].of
    BY DEF OfAll
  <2>3. (\E k \in 1 .. Len(q) : l \in q[k].of) => l \in q[1].of \/ \E k \in 1 .. Len(t) : l \in t[k].of
    BY <1>2
  <2>4. (\E k \in 1 .. Len(t) : l \in t[k].of) => \E k \in 1 .. Len(q) : l \in q[k].of
    <3> SUFFICES ASSUME NEW k \in 1 .. Len(t), l \in t[k].of PROVE \E j \in 1 .. Len(q) : l \in q[j].of
      OBVIOUS
    <3>1. k + 1 \in 1 .. Len(q) /\ t[k] = q[k + 1]
      BY <1>1
    <3> QED BY <3>1
  <2>5. 1 \in 1 .. Len(q)
    BY <1>1
  <2> QED BY <2>1, <2>2, <2>3, <2>4, <2>5, <1>1
<1> QED BY <1>3 DEF t

LEMMA OfAppend ==
  ASSUME NEW R, NEW q \in Seq(R), NEW r \in R
  PROVE  OfAll(Append(q, r)) = OfAll(q) \union r.of
<1> DEFINE t == Append(q, r)
<1>1. /\ Len(q) \in Nat /\ Len(t) = Len(q) + 1
      /\ \A i \in 1 .. Len(q) : t[i] = q[i]
      /\ t[Len(q) + 1] = r
  BY AppendOf
<1> HIDE DEF t
<1>2. \A k \in 1 .. Len(t) : k = Len(q) + 1 \/ k \in 1 .. Len(q)
  BY <1>1
<1>3. 1 .. Len(q) \subseteq 1 .. Len(t) /\ Len(q) + 1 \in 1 .. Len(t)
  BY <1>1
<1>4. ASSUME NEW l PROVE l \in OfAll(t) <=> l \in OfAll(q) \/ l \in r.of
  <2>1. l \in OfAll(q) <=> \E k \in 1 .. Len(q) : l \in q[k].of
    BY DEF OfAll
  <2>2. l \in OfAll(t) <=> \E k \in 1 .. Len(t) : l \in t[k].of
    BY DEF OfAll
  <2> QED BY <2>1, <2>2, <1>1, <1>2, <1>3
<1> QED BY <1>4 DEF t

LEMMA OfNone == OfAll(<<>>) = {}
BY DEF OfAll

\* A place in time put at the end of places in time, and taken off their head.
LEMMA InTimeAppend ==
  ASSUME NEW R, NEW q \in Seq(R), NEW r \in R, PlacesInTime(q), \A l \in r.of : r.at <= l.at
  PROVE  PlacesInTime(Append(q, r))
<1> DEFINE t == Append(q, r)
<1>1. /\ Len(q) \in Nat /\ Len(t) = Len(q) + 1
      /\ \A i \in 1 .. Len(q) : t[i] = q[i]
      /\ t[Len(q) + 1] = r
  BY AppendOf
<1> HIDE DEF t
<1>2. \A k \in 1 .. Len(t) : k = Len(q) + 1 \/ k \in 1 .. Len(q)
  BY <1>1
<1>3. PlacesInTime(t)
  BY <1>1, <1>2 DEF PlacesInTime
<1> QED BY <1>3 DEF t

LEMMA InTimeTail ==
  ASSUME NEW R, NEW q \in Seq(R), q # <<>>, PlacesInTime(q)
  PROVE  PlacesInTime(Tail(q)) /\ \A l \in Head(q).of : Head(q).at <= l.at
<1> DEFINE t == Tail(q)
<1>1. /\ Head(q) = q[1] /\ Len(q) \in Nat \ {0} /\ Len(t) = Len(q) - 1
      /\ \A i \in 1 .. Len(t) : i + 1 \in 2 .. Len(q) /\ t[i] = q[i + 1]
  BY TailOf
<1> HIDE DEF t
<1>2. 1 \in 1 .. Len(q) /\ \A i \in 1 .. Len(t) : i + 1 \in 1 .. Len(q)
  BY <1>1
<1>3. PlacesInTime(t) /\ \A l \in Head(q).of : Head(q).at <= l.at
  BY <1>1, <1>2 DEF PlacesInTime
<1> QED BY <1>3 DEF t

\* The events in order, the first taken, or one more come.
LEMMA OrderedTail ==
  ASSUME NEW s, NEW es \in Seq(EventSet), es # <<>>, \A k \in 1 .. Len(es) : SaysOne(es[k]),
         NEW from \in Nat, NEW to \in Nat, NEW last \in Nat, InOrder(s, es, from, to, last),
         NEW n \in Int, NEW un \in SUBSET LossSet, AheadOf(s, es, n, un)
  PROVE  /\ \E t : /\ InOrder(t, Tail(es), from + Head(es).size, to,
                              IF Head(es).kind = "data" THEN from ELSE last)
                   /\ AheadOf(t, Tail(es), n - 1, un)
         /\ from + Head(es).size <= to
         /\ n >= 1 => \A l \in un : from + Head(es).size <= l.at
         /\ \A l \in Head(es).of : /\ Head(es).kind = "overflow" => from <= l.at
                                   /\ Head(es).kind = "bad" => last < l.at
<1> DEFINE r == Tail(es)
           m == IF Head(es).kind = "data" THEN from ELSE last
           t == [k \in 1 .. Len(r) |-> s[k + 1]]
<1>1. /\ Head(es) = es[1] /\ Len(es) \in Nat \ {0} /\ Len(r) = Len(es) - 1 /\ Head(es) \in EventSet
      /\ \A i \in 1 .. Len(r) : i + 1 \in 2 .. Len(es) /\ r[i] = es[i + 1]
  BY TailOf
<1> HIDE DEF r
<1>2. /\ \A k \in 1 .. Len(es) : es[k] \in EventSet
      /\ \A k \in 1 .. Len(es) : es[k].size \in Nat
  <2>1. \A k \in 1 .. Len(es) : es[k] \in EventSet
    OBVIOUS
  <2>2. \A e \in EventSet : e.size \in Nat
    BY DEF EventSet
  <2> QED BY <2>1, <2>2
<1>3. /\ s \in [1 .. Len(es) -> Nat]
      /\ \A k \in 1 .. Len(es) : from <= s[k] /\ s[k] + es[k].size <= to
      /\ \A j, k \in 1 .. Len(es) : j < k => s[j] + es[j].size <= s[k]
  BY DEF InOrder
<1>4. \A k \in 1 .. Len(es) : \A l \in es[k].of :
       /\ es[k].kind = "overflow" => s[k] <= l.at
       /\ es[k].kind = "bad" => last < l.at
       /\ es[k].kind = "bad" => \A j \in 1 .. k - 1 : es[j].kind = "data" => s[j] < l.at
  BY DEF InOrder
<1>5. \A l \in un : \A k \in 1 .. Len(es) : k <= n => s[k] + es[k].size <= l.at
  BY DEF AheadOf
<1>6. 1 \in 1 .. Len(es) /\ \A i \in 1 .. Len(r) : i + 1 \in 1 .. Len(es) /\ 1 < i + 1
  BY <1>1
<1>7. t \in [1 .. Len(r) -> Nat]
  BY <1>3, <1>6
<1>8. \A k \in 1 .. Len(r) : t[k] = s[k + 1] /\ r[k] = es[k + 1]
  BY <1>1
<1> HIDE DEF t
<1>9. from <= s[1] /\ s[1] \in Nat /\ es[1].size \in Nat
  BY <1>3, <1>6, <1>2
<1>10. \A k \in 1 .. Len(r) : from + es[1].size <= t[k] /\ t[k] + r[k].size <= to
  <2> TAKE k \in 1 .. Len(r)
  <2>1. s[1] + es[1].size <= s[k + 1] /\ s[k + 1] \in Nat /\ s[k + 1] + es[k + 1].size <= to
    BY <1>3, <1>6
  <2>2. from + es[1].size <= s[k + 1]
    <3> DEFINE a == s[1]
               b == es[1].size
               d == s[k + 1]
    <3>1. from \in Nat /\ a \in Nat /\ b \in Nat /\ d \in Nat /\ from <= a /\ a + b <= d
      BY <2>1, <1>9
    <3> HIDE DEF a, b, d
    <3>2. from + b <= d
      BY ONLY <3>1
    <3> QED BY <3>2 DEF b, d
  <2>3. t[k] = s[k + 1] /\ r[k] = es[k + 1]
    BY <1>8
  <2> QED BY <2>1, <2>2, <2>3
<1>11. \A j, k \in 1 .. Len(r) : j < k => t[j] + r[j].size <= t[k]
  <2> TAKE j, k \in 1 .. Len(r)
  <2> HAVE j < k
  <2>1. j + 1 < k + 1 /\ j + 1 \in 1 .. Len(es) /\ k + 1 \in 1 .. Len(es)
    BY <1>6
  <2>2. s[j + 1] + es[j + 1].size <= s[k + 1]
    BY <2>1, <1>3
  <2> QED BY <2>2, <1>8
<1>12. \A k \in 1 .. Len(r) : \A l \in r[k].of :
       /\ r[k].kind = "overflow" => t[k] <= l.at
       /\ r[k].kind = "bad" => m < l.at
       /\ r[k].kind = "bad" => \A j \in 1 .. k - 1 : r[j].kind = "data" => t[j] < l.at
  <2> TAKE k \in 1 .. Len(r)
  <2> TAKE l \in r[k].of
  <2>1. l \in es[k + 1].of /\ k + 1 \in 1 .. Len(es) /\ r[k] = es[k + 1] /\ t[k] = s[k + 1]
    BY <1>6, <1>8
  <2>2. l.at \in Nat
    <3>1. es[k + 1] \in EventSet
      BY <2>1, <1>2
    <3> QED BY <3>1, <2>1 DEF EventSet, LossSet
  <2>3. r[k].kind = "overflow" => t[k] <= l.at
    BY <2>1, <1>4
  <2>4. r[k].kind = "bad" => m < l.at
    <3> HAVE r[k].kind = "bad"
    <3>1. last < l.at /\ (es[1].kind = "data" => s[1] < l.at)
      <4>1. k + 1 \in 1 .. Len(es) /\ l \in es[k + 1].of /\ es[k + 1].kind = "bad"
        BY <2>1
      <4>2. 1 \in 1 .. (k + 1) - 1
        OBVIOUS
      <4> QED BY ONLY <1>4, <4>1, <4>2
    <3> QED BY <3>1, <2>2, <1>9, <1>1
  <2>5. ASSUME r[k].kind = "bad", NEW j \in 1 .. k - 1, r[j].kind = "data" PROVE t[j] < l.at
    <3>1. j \in 1 .. Len(r) /\ j + 1 \in 1 .. (k + 1) - 1
      <4>1. Len(r) \in Nat
        BY <1>1
      <4>2. k \in 1 .. Len(r) /\ j \in 1 .. k - 1
        OBVIOUS
      <4> QED BY ONLY <4>1, <4>2
    <3>2. es[j + 1].kind = "data" /\ t[j] = s[j + 1]
      BY <3>1, <2>5, <1>8
    <3>3. es[k + 1].kind = "bad"
      BY <2>1, <2>5
    <3> QED BY <3>1, <3>2, <3>3, <2>1, <1>4
  <2> QED BY <2>3, <2>4, <2>5
<1>13. AheadOf(t, r, n - 1, un)
  <2> SUFFICES ASSUME NEW l \in un, NEW k \in 1 .. Len(r), k <= n - 1 PROVE t[k] + r[k].size <= l.at
    BY DEF AheadOf
  <2>1. k + 1 \in 1 .. Len(es) /\ k + 1 <= n
    BY <1>6
  <2> QED BY <2>1, <1>5, <1>8
<1>14. InOrder(t, r, from + Head(es).size, to, m)
  BY <1>7, <1>10, <1>11, <1>12, <1>1 DEF InOrder
<1>15. from + es[1].size <= to
  BY <1>9, <1>3, <1>6
<1>16. n >= 1 => \A l \in un : from + es[1].size <= l.at
  <2> HAVE n >= 1
  <2> TAKE l \in un
  <2>1. s[1] + es[1].size <= l.at /\ l.at \in Nat
    BY <1>5, <1>6 DEF LossSet
  <2> QED BY <2>1, <1>9
<1>17. \A l \in es[1].of : (es[1].kind = "overflow" => from <= l.at) /\ (es[1].kind = "bad" => last < l.at)
  <2> TAKE l \in es[1].of
  <2>1. l.at \in Nat
    BY <1>2, <1>6 DEF EventSet, LossSet
  <2>2. (es[1].kind = "overflow" => s[1] <= l.at) /\ (es[1].kind = "bad" => last < l.at)
    BY <1>4, <1>6
  <2> QED BY <2>1, <2>2, <1>9
<1> QED BY <1>14, <1>13, <1>15, <1>16, <1>17, <1>1 DEF r

\* Every event starts by top; e tells of places from p on, or past top.
StartsBy(s, es, top) == \A k \in 1 .. Len(es) : s[k] <= top
TellsOf(e, p, top) == \A l \in e.of :
  (e.kind = "overflow" => p <= l.at) /\ (e.kind = "bad" => top < l.at)

LEMMA OrderedAppend ==
  ASSUME NEW s, NEW es \in Seq(EventSet), NEW e \in EventSet,
         NEW from \in Nat, NEW to \in Nat, NEW last \in Nat, InOrder(s, es, from, to, last),
         NEW un \in SUBSET LossSet, NEW n \in Int, n <= Len(es), AheadOf(s, es, n, un),
         NEW top \in Nat, last <= top, StartsBy(s, es, top),
         NEW p \in Nat, from <= p, to <= p, NEW more \in Nat, p + e.size <= more,
         TellsOf(e, p, top)
  PROVE  \E t : /\ InOrder(t, Append(es, e), from, more, last) /\ AheadOf(t, Append(es, e), n, un)
                /\ StartsBy(t, Append(es, e), p)
<1> DEFINE r == Append(es, e)
           t == [k \in 1 .. Len(r) |-> IF k <= Len(es) THEN s[k] ELSE p]
<1>1. /\ Len(es) \in Nat /\ Len(r) = Len(es) + 1
      /\ \A i \in 1 .. Len(es) : r[i] = es[i]
      /\ r[Len(es) + 1] = e
  BY AppendOf
<1> HIDE DEF r
<1>2. /\ s \in [1 .. Len(es) -> Nat]
      /\ \A k \in 1 .. Len(es) : from <= s[k] /\ s[k] + es[k].size <= to
      /\ \A j, k \in 1 .. Len(es) : j < k => s[j] + es[j].size <= s[k]
  BY DEF InOrder
<1>3. \A k \in 1 .. Len(es) : \A l \in es[k].of :
       /\ es[k].kind = "overflow" => s[k] <= l.at
       /\ es[k].kind = "bad" => last < l.at
       /\ es[k].kind = "bad" => \A j \in 1 .. k - 1 : es[j].kind = "data" => s[j] < l.at
  BY DEF InOrder
<1>4. \A l \in un : \A k \in 1 .. Len(es) : k <= n => s[k] + es[k].size <= l.at
  BY DEF AheadOf
<1>5. /\ \A k \in 1 .. Len(es) : k \in 1 .. Len(r) /\ t[k] = s[k] /\ r[k] = es[k]
      /\ Len(es) + 1 \in 1 .. Len(r) /\ t[Len(es) + 1] = p
      /\ \A k \in 1 .. Len(r) : k \in 1 .. Len(es) \/ k = Len(es) + 1
      /\ t \in [1 .. Len(r) -> Nat]
  BY <1>1, <1>2
<1> HIDE DEF t
<1>6. \A k \in 1 .. Len(es) : s[k] \in Nat /\ es[k].size \in Nat /\ s[k] <= p /\ s[k] + es[k].size <= p
                             /\ s[k] + es[k].size <= more
  <2> TAKE k \in 1 .. Len(es)
  <2>1. es[k].size \in Nat /\ e.size \in Nat
    <3>1. es[k] \in EventSet
      OBVIOUS
    <3> QED BY <3>1 DEF EventSet
  <2>2. s[k] \in Nat /\ s[k] + es[k].size <= to
    BY <1>2
  <2>3. to \in Nat /\ p \in Nat /\ more \in Nat /\ to <= p /\ p + e.size <= more
    OBVIOUS
  <2> DEFINE a == s[k]
             b == es[k].size
             d == e.size
  <2>4. a \in Nat /\ b \in Nat /\ d \in Nat /\ a + b <= to /\ p + d <= more
    BY ONLY <2>1, <2>2, <2>3
  <2> HIDE DEF a, b, d
  <2>5. a <= p /\ a + b <= p /\ a + b <= more
    BY ONLY <2>3, <2>4
  <2> QED BY <2>4, <2>5 DEF a, b
<1>7. e.size \in Nat
  BY DEF EventSet
<1>8. \A k \in 1 .. Len(r) : from <= t[k] /\ t[k] + r[k].size <= more
  BY <1>1, <1>2, <1>5, <1>6, <1>7
<1>9. \A j, k \in 1 .. Len(r) : j < k => t[j] + r[j].size <= t[k]
  <2> TAKE j, k \in 1 .. Len(r)
  <2> HAVE j < k
  <2>1. j \in 1 .. Len(es)
    BY <1>1
  <2>2. CASE k \in 1 .. Len(es)
    BY <2>1, <2>2, <1>2, <1>5
  <2>3. CASE k = Len(es) + 1
    BY <2>1, <2>3, <1>5, <1>6
  <2> QED BY <2>2, <2>3, <1>5
<1>10. \A k \in 1 .. Len(r) : \A l \in r[k].of :
       /\ r[k].kind = "overflow" => t[k] <= l.at
       /\ r[k].kind = "bad" => last < l.at
       /\ r[k].kind = "bad" => \A j \in 1 .. k - 1 : r[j].kind = "data" => t[j] < l.at
  <2> TAKE k \in 1 .. Len(r)
  <2> TAKE l \in r[k].of
  <2>1. \A j \in 1 .. k - 1 : j \in 1 .. Len(es) /\ t[j] = s[j] /\ r[j] = es[j]
    BY <1>1, <1>5
  <2>2. CASE k \in 1 .. Len(es)
    <3>1. r[k] = es[k] /\ t[k] = s[k]
      BY <2>2, <1>5
    <3> QED BY <2>1, <2>2, <3>1, <1>3
  <2>3. CASE k = Len(es) + 1
    <3>1. r[k] = e /\ t[k] = p /\ l \in e.of
      BY <2>3, <1>5, <1>1
    <3>2. l.at \in Nat
      BY <3>1 DEF EventSet, LossSet
    <3>3. \A j \in 1 .. k - 1 : s[j] <= top /\ s[j] \in Nat
      BY <2>1, <1>6 DEF StartsBy
    <3>4. (e.kind = "overflow" => p <= l.at) /\ (e.kind = "bad" => top < l.at)
      BY <3>1 DEF TellsOf
    <3>5. e.kind = "bad" => last < l.at /\ \A j \in 1 .. k - 1 : t[j] < l.at
      <4> HAVE e.kind = "bad"
      <4>1. top < l.at
        BY <3>4
      <4>2. last < l.at
        BY <4>1, <3>2
      <4>3. ASSUME NEW j \in 1 .. k - 1 PROVE t[j] < l.at
        <5>1. s[j] <= top /\ s[j] \in Nat /\ t[j] = s[j]
          BY <2>1, <3>3
        <5> QED BY <5>1, <4>1, <3>2
      <4> QED BY <4>2, <4>3
    <3> QED BY <3>1, <3>4, <3>5
  <2> QED BY <2>2, <2>3, <1>5
<1>11. AheadOf(t, r, n, un)
  <2> SUFFICES ASSUME NEW l \in un, NEW k \in 1 .. Len(r), k <= n PROVE t[k] + r[k].size <= l.at
    BY DEF AheadOf
  <2>1. k \in 1 .. Len(es)
    BY <1>1
  <2> QED BY <2>1, <1>4, <1>5
<1>12. InOrder(t, r, from, more, last)
  BY <1>5, <1>8, <1>9, <1>10 DEF InOrder
<1>13. StartsBy(t, r, p)
  <2>1. ASSUME NEW k \in 1 .. Len(r) PROVE t[k] <= p
    <3>1. CASE k \in 1 .. Len(es)
      BY <3>1, <1>5, <1>6
    <3>2. CASE k = Len(es) + 1
      BY <3>2, <1>5
    <3> QED BY <3>1, <3>2, <1>5
  <2> QED BY <2>1 DEF StartsBy
<1> QED BY <1>11, <1>12, <1>13 DEF r

\* The same events, with more received.
LEMMA OrderedWider ==
  ASSUME NEW s, NEW es \in Seq(EventSet), NEW from \in Nat, NEW to \in Nat, NEW last \in Nat,
         InOrder(s, es, from, to, last), NEW more \in Nat, to <= more
  PROVE  InOrder(s, es, from, more, last)
<1>1. \A k \in 1 .. Len(es) : s[k] \in Nat /\ es[k].size \in Nat /\ s[k] + es[k].size <= to
  <2>1. \A k \in 1 .. Len(es) : es[k] \in EventSet
    OBVIOUS
  <2>2. \A e \in EventSet : e.size \in Nat
    BY DEF EventSet
  <2> QED BY <2>1, <2>2 DEF InOrder
<1>2. \A k \in 1 .. Len(es) : s[k] + es[k].size <= more
  BY <1>1
<1> QED BY <1>2 DEF InOrder

\* How many of a queue of places are reached.
LEMMA ReachedTyped ==
  ASSUME NEW q \in Seq(PlaceSet), NEW p \in Int
  PROVE  /\ Uart!reached(q, p) \in 0 .. Len(q)
         /\ \A k \in 1 .. Uart!reached(q, p) : q[k].at <= p
         /\ Uart!reached(q, p) < Len(q) => q[Uart!reached(q, p) + 1].at > p
<1> DEFINE T == {k \in Nat : k \in 0 .. Len(q) /\ (k < Len(q) => q[k + 1].at > p)}
<1>1. T \subseteq Nat /\ Len(q) \in T
  OBVIOUS
<1>2. PICK m \in T : \A k \in T : ~(<<k, m>> \in OpToRel(<, Nat))
  BY <1>1, NatLessThanWellFounded, WFMin
<1>3. \A k \in T : ~(k < m)
  BY <1>2 DEF OpToRel
<1>4. \A k \in 1 .. Len(q) : q[k].at \in Int
  <2>1. \A k \in 1 .. Len(q) : q[k] \in PlaceSet
    OBVIOUS
  <2>2. \A x \in PlaceSet : x.at \in Int
    BY DEF PlaceSet
  <2> QED BY <2>1, <2>2
<1>5. \A k \in 1 .. m : q[k].at <= p
  <2> TAKE k \in 1 .. m
  <2>1. k - 1 \in 0 .. Len(q) /\ k - 1 < m /\ k - 1 < Len(q) /\ k \in 1 .. Len(q)
    OBVIOUS
  <2>2. ~(q[(k - 1) + 1].at > p)
    BY <2>1, <1>3
  <2>3. (k - 1) + 1 = k
    OBVIOUS
  <2> QED BY <2>1, <2>2, <2>3, <1>4
<1>6. \E n \in 0 .. Len(q) : (\A k \in 1 .. n : q[k].at <= p) /\ (n < Len(q) => q[n + 1].at > p)
  BY <1>5
<1> QED BY <1>6 DEF Uart!reached

LEMMA ReachedIs ==
  ASSUME NEW q \in Seq(PlaceSet), Sorted(q), NEW p \in Int
  PROVE  /\ Uart!reached(q, p) \in 0 .. Len(q)
         /\ \A k \in 1 .. Uart!reached(q, p) : q[k].at <= p
         /\ \A k \in Uart!reached(q, p) + 1 .. Len(q) : q[k].at > p
<1> DEFINE n == Uart!reached(q, p)
<1>1. n \in 0 .. Len(q) /\ (\A k \in 1 .. n : q[k].at <= p) /\ (n < Len(q) => q[n + 1].at > p)
  BY ReachedTyped
<1>2. \A k \in 1 .. Len(q) : q[k].at \in Int
  <2>1. \A k \in 1 .. Len(q) : q[k] \in PlaceSet
    OBVIOUS
  <2>2. \A x \in PlaceSet : x.at \in Int
    BY DEF PlaceSet
  <2> QED BY <2>1, <2>2
<1> HIDE DEF n
<1>3. \A k \in n + 1 .. Len(q) : q[k].at > p
  <2> TAKE k \in n + 1 .. Len(q)
  <2>1. n + 1 \in 1 .. Len(q) /\ k \in 1 .. Len(q) /\ q[n + 1].at > p
    BY <1>1
  <2>2. k = n + 1 \/ q[n + 1].at <= q[k].at
    BY <2>1 DEF Sorted
  <2> QED BY <2>1, <2>2, <1>2
<1> QED BY <1>1, <1>3 DEF n

\* Two sequences, one after the other.
LEMMA ConcatIs ==
  ASSUME NEW R, NEW w \in Seq(R), NEW v \in Seq(R)
  PROVE  /\ w \o v \in Seq(R) /\ Len(w \o v) = Len(w) + Len(v)
         /\ \A k \in 1 .. Len(w) : (w \o v)[k] = w[k]
         /\ \A k \in 1 .. Len(v) : (w \o v)[Len(w) + k] = v[k]
OBVIOUS

\* A place that waits between those reached at it and the rest.
Inserted(q, x, n) == SubSeq(q, 1, n) \o <<x>> \o SubSeq(q, n + 1, Len(q))
HasBetween(r, q, x, n) ==
  /\ Len(r) = Len(q) + 1 /\ r[n + 1] = x
  /\ \A k \in 1 .. n : r[k] = q[k]
  /\ \A k \in n + 1 .. Len(q) : r[k + 1] = q[k]

LEMMA InsertIs ==
  ASSUME NEW R, NEW q \in Seq(R), NEW x \in R, NEW n \in 0 .. Len(q)
  PROVE  Inserted(q, x, n) \in Seq(R) /\ HasBetween(Inserted(q, x, n), q, x, n)
<1> DEFINE u == SubSeq(q, 1, n)
           v == SubSeq(q, n + 1, Len(q))
           w == u \o <<x>>
           r == w \o v
<1>1. u \in Seq(R) /\ Len(u) = n /\ \A k \in 1 .. n : u[k] = q[k]
  OBVIOUS
<1>2. v \in Seq(R) /\ Len(v) = Len(q) - n /\ \A k \in 1 .. Len(q) - n : v[k] = q[n + k]
  OBVIOUS
<1>3. w \in Seq(R) /\ Len(w) = n + 1 /\ (\A k \in 1 .. n : w[k] = q[k]) /\ w[n + 1] = x
  <2> HIDE DEF u
  <2> QED BY <1>1
<1>4. r = Inserted(q, x, n)
  BY DEF Inserted
<1> HIDE DEF w, v
<1>5. /\ r \in Seq(R) /\ Len(r) = Len(w) + Len(v)
      /\ \A k \in 1 .. Len(w) : r[k] = w[k]
      /\ \A k \in 1 .. Len(v) : r[Len(w) + k] = v[k]
  <2>1. w \in Seq(R) /\ v \in Seq(R)
    BY <1>2, <1>3
  <2> QED BY <2>1, ConcatIs
<1> HIDE DEF r
<1>6. Len(r) = Len(q) + 1
  BY <1>2, <1>3, <1>5
<1>7. (\A k \in 1 .. n : r[k] = q[k]) /\ r[n + 1] = x
  BY <1>3, <1>5
<1>8. \A k \in n + 1 .. Len(q) : r[k + 1] = q[k]
  <2> TAKE k \in n + 1 .. Len(q)
  <2>1. k - n \in 1 .. Len(v) /\ Len(w) + (k - n) = k + 1 /\ n + (k - n) = k
    BY <1>2, <1>3
  <2>2. r[Len(w) + (k - n)] = v[k - n] /\ v[k - n] = q[n + (k - n)]
    BY <2>1, <1>2, <1>5
  <2> QED BY <2>1, <2>2
<1> QED BY <1>4, <1>5, <1>6, <1>7, <1>8 DEF HasBetween

\* What loop() has of a loss: in order of its places, none past the loss.
LEMMA PlaceWaits ==
  ASSUME NEW q \in Seq(PlaceSet), Sorted(q), PlacesInTime(q), Len(q) < Pending,
         NEW x \in PlaceSet, \A l \in x.of : x.at <= l.at
  PROVE  /\ Uart!addPending(q, x) \in Seq(PlaceSet) /\ Sorted(Uart!addPending(q, x)) /\ PlacesInTime(Uart!addPending(q, x))
         /\ OfAll(Uart!addPending(q, x)) = OfAll(q) \union x.of
<1> DEFINE n == Uart!reached(q, x.at)
           t == Inserted(q, x, n)
<1>1. x.at \in Int /\ \A k \in 1 .. Len(q) : q[k].at \in Int
  <2>1. \A k \in 1 .. Len(q) : q[k] \in PlaceSet
    OBVIOUS
  <2>2. \A y \in PlaceSet : y.at \in Int
    BY DEF PlaceSet
  <2> QED BY <2>1, <2>2
<1>2. /\ n \in 0 .. Len(q)
      /\ \A k \in 1 .. n : q[k].at <= x.at
      /\ \A k \in n + 1 .. Len(q) : q[k].at > x.at
  BY <1>1, ReachedIs
<1>3. Uart!addPending(q, x) = t
  BY DEF Uart!addPending, Uart!before, Uart!after, Inserted
<1> HIDE DEF n
<1>4. /\ t \in Seq(PlaceSet) /\ Len(t) = Len(q) + 1
      /\ \A k \in 1 .. n : t[k] = q[k]
      /\ t[n + 1] = x
      /\ \A k \in n + 1 .. Len(q) : t[k + 1] = q[k]
  <2>1. q \in Seq(PlaceSet) /\ x \in PlaceSet /\ n \in 0 .. Len(q)
    BY <1>2
  <2> HIDE DEF t
  <2>2. t = Inserted(q, x, n)
    BY DEF t
  <2>3. t \in Seq(PlaceSet) /\ HasBetween(t, q, x, n)
    BY <2>1, <2>2, InsertIs
  <2> QED BY <2>3 DEF HasBetween
<1> HIDE DEF t
<1>5. \A k \in 1 .. Len(t) :
        \/ k \in 1 .. n /\ k \in 1 .. Len(q) /\ t[k] = q[k]
        \/ k = n + 1 /\ t[k] = x
        \/ k - 1 \in n + 1 .. Len(q) /\ k - 1 \in 1 .. Len(q) /\ t[k] = q[k - 1]
  <2> TAKE k \in 1 .. Len(t)
  <2>1. k \in 1 .. n \/ k = n + 1 \/ k - 1 \in n + 1 .. Len(q)
    BY <1>2, <1>4
  <2>2. CASE k \in 1 .. n
    BY <2>2, <1>2, <1>4
  <2>3. CASE k = n + 1
    BY <2>3, <1>4
  <2>4. CASE k - 1 \in n + 1 .. Len(q)
    <3>1. t[(k - 1) + 1] = q[k - 1] /\ (k - 1) + 1 = k
      BY <2>4, <1>2, <1>4
    <3> QED BY <3>1, <2>4, <1>2
  <2> QED BY <2>1, <2>2, <2>3, <2>4
<1>6. \A k \in 1 .. Len(q) : (k \in 1 .. Len(t) /\ t[k] = q[k]) \/ (k + 1 \in 1 .. Len(t) /\ t[k + 1] = q[k])
  <2> TAKE k \in 1 .. Len(q)
  <2>1. k \in 1 .. n \/ k \in n + 1 .. Len(q)
    BY <1>2
  <2> QED BY <2>1, <1>2, <1>4
<1>7. n + 1 \in 1 .. Len(t)
  BY <1>2, <1>4
<1>8. PlacesInTime(t)
  BY <1>5 DEF PlacesInTime
<1>9. Sorted(t)
  <2> SUFFICES ASSUME NEW j \in 1 .. Len(t), NEW k \in 1 .. Len(t), j < k PROVE t[j].at <= t[k].at
    BY DEF Sorted
  <2>1. n \in Nat
    BY <1>2
  <2>2. CASE j \in 1 .. n /\ k \in 1 .. n
    <3>1. t[j] = q[j] /\ t[k] = q[k] /\ j \in 1 .. Len(q) /\ k \in 1 .. Len(q)
      BY <2>2, <1>2, <1>4
    <3> QED BY <3>1 DEF Sorted
  <2>3. CASE j \in 1 .. n /\ k = n + 1
    <3>1. t[j] = q[j] /\ t[k] = x
      BY <2>3, <1>4
    <3>2. q[j].at <= x.at
      BY <2>3, <1>2
    <3> QED BY <3>1, <3>2
  <2>4. CASE j \in 1 .. n /\ k - 1 \in n + 1 .. Len(q)
    <3>1. t[j] = q[j] /\ t[k] = q[k - 1] /\ j \in 1 .. Len(q) /\ k - 1 \in 1 .. Len(q) /\ j < k - 1
      BY <2>4, <2>1, <1>2, <1>4, <1>5
    <3> QED BY <3>1 DEF Sorted
  <2>5. CASE j = n + 1 /\ k - 1 \in n + 1 .. Len(q)
    <3>1. t[j] = x /\ t[k] = q[k - 1] /\ k - 1 \in 1 .. Len(q)
      BY <2>5, <2>1, <1>4, <1>5
    <3>2. q[k - 1].at > x.at /\ q[k - 1].at \in Int /\ x.at \in Int
      BY <3>1, <2>5, <1>1, <1>2
    <3> QED BY <3>1, <3>2
  <2>6. CASE j - 1 \in n + 1 .. Len(q) /\ k - 1 \in n + 1 .. Len(q)
    <3>1. ~(j \in 1 .. n) /\ j # n + 1 /\ ~(k \in 1 .. n) /\ k # n + 1 /\ j - 1 < k - 1
      BY <2>1, <2>6
    <3>2. t[j] = q[j - 1] /\ j - 1 \in 1 .. Len(q)
      BY <3>1, <1>5
    <3>3. t[k] = q[k - 1] /\ k - 1 \in 1 .. Len(q)
      BY <3>1, <1>5
    <3> QED BY <3>1, <3>2, <3>3 DEF Sorted
  <2>7. /\ (j \in 1 .. n \/ j = n + 1 \/ j - 1 \in n + 1 .. Len(q))
        /\ (k \in 1 .. n \/ k = n + 1 \/ k - 1 \in n + 1 .. Len(q))
    BY <1>5
  <2>8. /\ (j = n + 1 => ~(k \in 1 .. n) /\ k # n + 1)
        /\ (j - 1 \in n + 1 .. Len(q) => ~(k \in 1 .. n) /\ k # n + 1)
    BY <2>1
  <2> QED BY ONLY <2>2, <2>3, <2>4, <2>5, <2>6, <2>7, <2>8, j < k, n \in Nat
<1>10. ASSUME NEW l PROVE l \in OfAll(t) <=> l \in OfAll(q) \/ l \in x.of
  <2>1. l \in OfAll(q) <=> \E k \in 1 .. Len(q) : l \in q[k].of
    BY DEF OfAll
  <2>2. l \in OfAll(t) <=> \E k \in 1 .. Len(t) : l \in t[k].of
    BY DEF OfAll
  <2>3. l \in OfAll(t) => l \in OfAll(q) \/ l \in x.of
    BY <2>1, <2>2, <1>5
  <2>4. l \in OfAll(q) => l \in OfAll(t)
    BY <2>1, <2>2, <1>6
  <2>5. l \in x.of => l \in OfAll(t)
    BY <2>2, <1>4, <1>7
  <2> QED BY <2>3, <2>4, <2>5
<1> QED BY <1>3, <1>4, <1>8, <1>9, <1>10

\* The places not reached: in order, none past a loss it or one behind it tells of.
LEMMA RestIs ==
  ASSUME NEW q \in Seq(PlaceSet), Sorted(q), PlacesInTime(q), NEW p \in Nat
  PROVE  /\ Uart!after(q, p) \in Seq(PlaceSet) /\ Sorted(Uart!after(q, p)) /\ PlacesInTime(Uart!after(q, p))
         /\ Uart!after(q, p) # <<>> => Uart!after(q, p)[1].at \in Int /\ Uart!after(q, p)[1].at > p
         /\ \A l \in OfAll(Uart!after(q, p)) : Uart!after(q, p) # <<>> /\ Uart!after(q, p)[1].at <= l.at
         /\ \A l \in OfAll(q) : p <= l.at => l \in Uart!InTime(Uart!before(q, p), p) \/ l \in OfAll(Uart!after(q, p))
<1> DEFINE n == Uart!reached(q, p)
           u == SubSeq(q, 1, n)
           v == SubSeq(q, n + 1, Len(q))
<1>1. \A k \in 1 .. Len(q) : q[k] \in PlaceSet /\ q[k].at \in Int /\ \A l \in q[k].of : l.at \in Nat
  <2>1. \A k \in 1 .. Len(q) : q[k] \in PlaceSet
    OBVIOUS
  <2>2. \A y \in PlaceSet : y.at \in Int /\ \A l \in y.of : l.at \in Nat
    BY DEF PlaceSet, LossSet
  <2> QED BY <2>1, <2>2
<1>2. n \in 0 .. Len(q) /\ \A k \in n + 1 .. Len(q) : q[k].at > p
  <2>1. n \in 0 .. Len(q)
    BY ReachedIs
  <2>2. \A k \in n + 1 .. Len(q) : q[k].at > p
    BY ReachedIs
  <2> QED BY <2>1, <2>2
<1> HIDE DEF n
<1>3. u \in Seq(PlaceSet) /\ Len(u) = n /\ \A k \in 1 .. n : u[k] = q[k]
  BY <1>2
<1>4. v \in Seq(PlaceSet) /\ Len(v) = Len(q) - n /\ \A k \in 1 .. Len(q) - n : v[k] = q[n + k]
  BY <1>2
<1>5. Uart!before(q, p) = u /\ Uart!after(q, p) = v
  BY DEF Uart!before, Uart!after, n
<1> HIDE DEF u, v
<1>6. \A k \in 1 .. Len(v) : n + k \in 1 .. Len(q) /\ n + k \in n + 1 .. Len(q) /\ v[k] = q[n + k]
  BY <1>2, <1>4
<1>7. Sorted(v)
  <2> SUFFICES ASSUME NEW j \in 1 .. Len(v), NEW k \in 1 .. Len(v), j < k PROVE v[j].at <= v[k].at
    BY DEF Sorted
  <2>1. n + j < n + k
    BY <1>2
  <2> QED BY <2>1, <1>6 DEF Sorted
<1>8. PlacesInTime(v)
  BY <1>6 DEF PlacesInTime
<1>9. v # <<>> => 1 \in 1 .. Len(v)
  BY <1>4
<1>10. v # <<>> => v[1].at \in Int /\ v[1].at > p
  BY <1>1, <1>2, <1>6, <1>9
<1>11. \A l \in OfAll(v) : v # <<>> /\ v[1].at <= l.at
  <2> TAKE l \in OfAll(v)
  <2>1. PICK k \in 1 .. Len(v) : l \in v[k].of
    BY DEF OfAll
  <2>2. v[k].at <= l.at /\ v[k].at \in Int /\ l.at \in Nat
    BY <2>1, <1>1, <1>6, <1>8 DEF PlacesInTime
  <2>3. 1 \in 1 .. Len(v) /\ v # <<>>
    BY <1>4
  <2>4. v[1].at <= v[k].at /\ v[1].at \in Int
    <3>1. CASE k = 1
      BY <3>1, <2>2
    <3>2. CASE k # 1
      BY <3>2, <2>3, <1>7, <1>10 DEF Sorted
    <3> QED BY <3>1, <3>2
  <2> QED BY <2>2, <2>3, <2>4
<1>12. \A l \in OfAll(q) : p <= l.at => l \in Uart!InTime(u, p) \/ l \in OfAll(v)
  <2> TAKE l \in OfAll(q)
  <2> HAVE p <= l.at
  <2>1. PICK k \in 1 .. Len(q) : l \in q[k].of
    BY DEF OfAll
  <2>2. CASE k <= n
    <3>1. k \in 1 .. Len(u) /\ u[k] = q[k]
      BY <2>2, <1>2, <1>3
    <3> QED BY <2>1, <3>1 DEF Uart!InTime
  <2>3. CASE ~(k <= n)
    <3>1. k - n \in 1 .. Len(v) /\ v[k - n] = q[n + (k - n)] /\ n + (k - n) = k
      BY <2>3, <1>2, <1>4
    <3> QED BY <2>1, <3>1 DEF OfAll
  <2> QED BY <2>2, <2>3
<1> QED BY <1>4, <1>5, <1>7, <1>8, <1>10, <1>11, <1>12

\* add(): the held loss put in the ring first, and the three cases.
Merged(h, p) == Uart!Place(Uart!Least(h.at, p.at), h.of \union p.of)
Handed(h, r) == IF h # Uart!None /\ Uart!room(r) THEN Append(r, h) ELSE r

LEMMA AddShape ==
  ASSUME NEW l \in LedgerSet, NEW p \in PlaceSet, p.at >= 0
  PROVE  /\ Uart!add(l, p) \in LedgerSet
         /\ (l.hold = Uart!None \/ Uart!room(l.ring)) /\ Uart!room(Handed(l.hold, l.ring)) =>
              Uart!add(l, p).ring = Append(Handed(l.hold, l.ring), p) /\ Uart!add(l, p).hold = Uart!None
         /\ (l.hold = Uart!None \/ Uart!room(l.ring)) /\ ~Uart!room(Handed(l.hold, l.ring)) =>
              Uart!add(l, p).ring = Handed(l.hold, l.ring) /\ Uart!add(l, p).hold = p
         /\ ~(l.hold = Uart!None \/ Uart!room(l.ring)) =>
              /\ Uart!add(l, p).ring = l.ring
              /\ Uart!add(l, p).hold = Merged(l.hold, p)
<1> DEFINE h == l.hold
           r == l.ring
           q == Handed(h, r)
           m == Merged(h, p)
           e == Uart!add(l, p)
<1>1. h \in HeldSet /\ r \in Seq(PlaceSet) /\ p \in HeldSet
  BY DEF LedgerSet, HeldSet
<1>2. q \in Seq(PlaceSet)
  <2>1. h \in PlaceSet
    BY <1>1 DEF HeldSet
  <2> HIDE DEF h, r
  <2>2. CASE h # Uart!None /\ Uart!room(r)
    BY <2>1, <2>2, <1>1, AppendOf DEF Handed
  <2>3. CASE ~(h # Uart!None /\ Uart!room(r))
    BY <2>3, <1>1 DEF Handed
  <2> QED BY <2>2, <2>3
<1>3. Append(q, p) \in Seq(PlaceSet)
  BY <1>2, AppendOf
<1>4. Uart!None \in HeldSet
  BY DEF HeldSet, Uart!None, Uart!Place, PlaceSet
<1>5. h # Uart!None => m \in HeldSet
  <2> HIDE DEF h
  <2> HAVE h # Uart!None
  <2>1. h.at \in Nat /\ p.at \in Nat /\ h.of \union p.of \subseteq LossSet
    BY <1>1 DEF HeldSet, PlaceSet
  <2>2. Uart!Least(h.at, p.at) \in Nat
    BY <2>1 DEF Uart!Least
  <2> QED BY <2>1, <2>2 DEF Merged, Uart!Place, HeldSet, PlaceSet
<1>6. e = IF ~(h = Uart!None \/ Uart!room(r)) THEN [l EXCEPT !.hold = m]
          ELSE IF Uart!room(q) THEN [l EXCEPT !.ring = Append(q, p), !.hold = Uart!None]
               ELSE [l EXCEPT !.ring = q, !.hold = p]
  BY DEF Uart!add, Handed, Merged
<1>7. \A x \in Seq(PlaceSet), y \in HeldSet :
        /\ [l EXCEPT !.ring = x, !.hold = y] \in LedgerSet
        /\ [l EXCEPT !.ring = x, !.hold = y].hold = y /\ [l EXCEPT !.ring = x, !.hold = y].ring = x
        /\ [l EXCEPT !.hold = y] \in LedgerSet
        /\ [l EXCEPT !.hold = y].hold = y /\ [l EXCEPT !.hold = y].ring = l.ring
  BY DEF LedgerSet
<1> HIDE DEF m, q, e
<1>8. ~(h = Uart!None \/ Uart!room(r)) => e \in LedgerSet /\ e.ring = r /\ e.hold = m
  <2> HAVE ~(h = Uart!None \/ Uart!room(r))
  <2>1. e = [l EXCEPT !.hold = m] /\ m \in HeldSet
    BY <1>5, <1>6
  <2> QED BY <2>1, <1>1, <1>7
<1>9. (h = Uart!None \/ Uart!room(r)) /\ Uart!room(q) => e \in LedgerSet /\ e.ring = Append(q, p) /\ e.hold = Uart!None
  <2> HAVE (h = Uart!None \/ Uart!room(r)) /\ Uart!room(q)
  <2>1. e = [l EXCEPT !.ring = Append(q, p), !.hold = Uart!None]
    BY <1>6
  <2> QED BY <2>1, <1>3, <1>4, <1>7
<1>10. (h = Uart!None \/ Uart!room(r)) /\ ~Uart!room(q) => e \in LedgerSet /\ e.ring = q /\ e.hold = p
  <2> HAVE (h = Uart!None \/ Uart!room(r)) /\ ~Uart!room(q)
  <2>1. e = [l EXCEPT !.ring = q, !.hold = p]
    BY <1>6
  <2> QED BY <2>1, <1>1, <1>2, <1>7
<1>11. e \in LedgerSet
  BY <1>8, <1>9, <1>10
<1> QED BY <1>8, <1>9, <1>10, <1>11 DEF e, q, m

\* A place told of, from one ledger to the next: every loss is kept, in time, and the
\* place held stays within bounds.
Told(l, p, k) ==
  /\ k \in LedgerSet
  /\ k.hold.of \subseteq l.hold.of \union p.of
  /\ k.hold.of \union OfAll(k.ring) = l.hold.of \union OfAll(l.ring) \union p.of
  /\ PlacesInTime(l.ring) /\ (\A x \in l.hold.of : l.hold.at <= x.at) /\ (\A x \in p.of : p.at <= x.at)
       => PlacesInTime(k.ring) /\ \A x \in k.hold.of : k.hold.at <= x.at
  /\ \A low, high \in Nat :
       (l.hold # Uart!None => low <= l.hold.at /\ l.hold.at <= high) /\ low <= p.at /\ p.at <= high
         => (k.hold # Uart!None => low <= k.hold.at /\ k.hold.at <= high)

LEMMA AddTells ==
  ASSUME NEW l0 \in LedgerSet, NEW p \in PlaceSet, p.at >= 0
  PROVE  Told(l0, p, Uart!add(l0, p))
<1> DEFINE e == Uart!add(l0, p)
           h == l0.hold
           r == l0.ring
           q == Handed(h, r)
           g == IF h # Uart!None /\ Uart!room(r) THEN {} ELSE h.of
           m == Merged(h, p)
           early == PlacesInTime(r) /\ (\A l \in h.of : h.at <= l.at) /\ (\A l \in p.of : p.at <= l.at)
<1>1. /\ e \in LedgerSet
      /\ (h = Uart!None \/ Uart!room(r)) /\ Uart!room(q) => e.ring = Append(q, p) /\ e.hold = Uart!None
      /\ (h = Uart!None \/ Uart!room(r)) /\ ~Uart!room(q) => e.ring = q /\ e.hold = p
      /\ ~(h = Uart!None \/ Uart!room(r)) => e.ring = r /\ e.hold = m
  BY AddShape
<1>0. h \in PlaceSet /\ r \in Seq(PlaceSet) /\ (h = Uart!None \/ h.at >= 0)
  BY DEF LedgerSet, HeldSet
<1> HIDE DEF e, h, r
<1>2. Uart!None \in PlaceSet /\ Uart!None.of = {} /\ Uart!None.at = -1
  BY DEF Uart!None, Uart!Place, PlaceSet
<1>3. /\ h.at \in Int /\ p.at \in Int /\ h.of \subseteq LossSet /\ p.of \subseteq LossSet
      /\ h.of \union p.of \subseteq LossSet
  BY <1>0 DEF PlaceSet
<1>4. \A l \in LossSet : l.at \in Nat
  BY DEF LossSet
<1>5. q \in Seq(PlaceSet) /\ OfAll(q) \union g = OfAll(r) \union h.of
      /\ ((h = Uart!None \/ Uart!room(r)) => g = {})
  <2>1. CASE h # Uart!None /\ Uart!room(r)
    <3>1. q = Append(r, h) /\ g = {}
      BY <2>1 DEF Handed
    <3>2. q \in Seq(PlaceSet)
      BY <3>1, <1>0, AppendOf
    <3>3. OfAll(q) = OfAll(r) \union h.of
      BY <3>1, <1>0, OfAppend
    <3> QED BY <3>1, <3>2, <3>3
  <2>2. CASE ~(h # Uart!None /\ Uart!room(r))
    <3>1. q = r /\ g = h.of
      BY <2>2 DEF Handed
    <3> QED BY <3>1, <2>2, <1>0, <1>2
  <2> QED BY <2>1, <2>2
<1>6. early => PlacesInTime(q)
  <2>1. CASE h # Uart!None /\ Uart!room(r)
    <3>1. q = Append(r, h)
      BY <2>1 DEF Handed
    <3> QED BY <3>1, <1>0, InTimeAppend
  <2>2. CASE ~(h # Uart!None /\ Uart!room(r))
    BY <2>2 DEF Handed
  <2> QED BY <2>1, <2>2
<1> HIDE DEF q, g
<1>7. CASE (h = Uart!None \/ Uart!room(r)) /\ Uart!room(q) /\ e.ring = Append(q, p) /\ e.hold = Uart!None
  <2>1. e.ring \in Seq(PlaceSet) /\ e.hold \in PlaceSet
    BY <1>7, <1>2, <1>5, AppendOf
  <2>2. OfAll(e.ring) = OfAll(q) \union p.of
    BY <1>7, <1>5, OfAppend
  <2>3. e.hold.of = {}
    BY <1>7, <1>2
  <2>4. e.hold.of \union OfAll(e.ring) = h.of \union OfAll(r) \union p.of
    BY <1>7, <2>2, <2>3, <1>5
  <2>5. early => PlacesInTime(e.ring)
    BY <1>7, <1>5, <1>6, InTimeAppend
  <2> QED BY <1>0, <1>1, <1>7, <2>1, <2>3, <2>4, <2>5 DEF e, h, r, Told
<1>8. CASE (h = Uart!None \/ Uart!room(r)) /\ ~Uart!room(q) /\ e.ring = q /\ e.hold = p
  <2>1. e.hold.of \union OfAll(e.ring) = h.of \union OfAll(r) \union p.of
    BY <1>8, <1>5
  <2>2. early => PlacesInTime(e.ring) /\ \A l \in e.hold.of : e.hold.at <= l.at
    BY <1>8, <1>6
  <2> QED BY <1>0, <1>1, <1>8, <1>5, <2>1, <2>2 DEF e, h, r, Told
<1>9. CASE h # Uart!None /\ ~Uart!room(r) /\ e.ring = r /\ e.hold = m
  <2>1. m.at = Uart!Least(h.at, p.at) /\ m.of = h.of \union p.of /\ m \in PlaceSet
    <3>1. Uart!Least(h.at, p.at) \in Int
      BY <1>3 DEF Uart!Least
    <3> QED BY <3>1, <1>3 DEF Uart!Place, PlaceSet, Merged
  <2>2. /\ m.at \in Int /\ m.at <= h.at /\ m.at <= p.at /\ (m.at = h.at \/ m.at = p.at)
    BY <2>1, <1>3 DEF Uart!Least
  <2> HIDE DEF m
  <2>3. e.hold.of \union OfAll(e.ring) = h.of \union OfAll(r) \union p.of
    BY <1>9, <2>1
  <2>4. e.hold.at >= 0
    BY <1>9, <2>2, <1>3, <1>0
  <2>5. early => \A l \in e.hold.of : e.hold.at <= l.at
    <3> SUFFICES ASSUME early, NEW l \in e.hold.of PROVE e.hold.at <= l.at
      OBVIOUS
    <3>1. l \in h.of \/ l \in p.of
      BY <1>9, <2>1
    <3>2. l.at \in Nat
      BY <3>1, <1>3, <1>4
    <3>3. h.at <= l.at \/ p.at <= l.at
      BY <3>1
    <3> QED BY <3>2, <3>3, <2>2, <1>3, <1>9
  <2>6. \A low, high \in Nat :
          (h # Uart!None => low <= h.at /\ h.at <= high) /\ low <= p.at /\ p.at <= high
            => low <= e.hold.at /\ e.hold.at <= high
    BY <1>9, <2>2, <1>3
  <2> QED BY <1>0, <1>1, <1>9, <2>1, <2>3, <2>4, <2>5, <2>6 DEF e, h, r, Told
<1> QED BY <1>1, <1>7, <1>8, <1>9

\* Nothing told of.
LEMMA NoneTells ==
  ASSUME NEW l \in LedgerSet, NEW p, p.of = {}
  PROVE  Told(l, p, l)
BY DEF Told

\* What a queue is once the first none, one or two of a batch fit it.
LEMMA FitIs ==
  ASSUME NEW R, NEW q \in Seq(R), NEW a \in R, NEW b \in R
  PROVE  /\ \A es \in Seq(R) : q \o SubSeq(es, 1, 0) = q
         /\ q \o SubSeq(<<a>>, 1, 1) = Append(q, a)
         /\ q \o SubSeq(<<a, b>>, 1, 1) = Append(q, a)
         /\ q \o SubSeq(<<a, b>>, 1, 2) = Append(Append(q, a), b)
<1>1. /\ Len(<<a>>) = 1 /\ <<a>> \in Seq(R)
      /\ Len(<<a, b>>) = 2 /\ <<a, b>> \in Seq(R) /\ <<a, b>>[1] = a
  OBVIOUS
<1>2. q \o <<a>> = Append(q, a)
  OBVIOUS
<1>3. q \o <<a, b>> = Append(Append(q, a), b)
  OBVIOUS
<1>4. \A es \in Seq(R) : q \o SubSeq(es, 1, 0) = q
  <2> TAKE es \in Seq(R)
  <2>1. SubSeq(es, 1, 0) = <<>>
    BY SubSeqEmpty
  <2> QED BY <2>1
<1>5. SubSeq(<<a>>, 1, 1) = <<a>>
  BY <1>1, SubSeqFull
<1>6. SubSeq(<<a, b>>, 1, 2) = <<a, b>>
  BY <1>1, SubSeqFull
<1>7. SubSeq(<<a, b>>, 1, 1) = <<a>>
  <2> DEFINE s == <<a, b>>
             t == SubSeq(s, 1, 1)
  <2>1. Len(s) = 2 /\ s \in Seq(R) /\ s[1] = a
    BY <1>1
  <2> HIDE DEF s
  <2>2. t \in Seq(R) /\ Len(t) = 1 /\ t[1] = a
    BY <2>1
  <2> HIDE DEF t
  <2>3. t = <<a>>
    BY <2>2
  <2> QED BY <2>3 DEF t, s
<1> QED BY <1>2, <1>3, <1>4, <1>5, <1>6, <1>7

\* The batch told of: what fits the queue is put at its end, the rest is dropped.
LEMMA PostShape ==
  ASSUME UartTypes, Uart!UartAssumption, NEW a \in EventSet, NEW b \in EventSet, NEW es \in {<<>>, <<a>>, <<b>>, <<a, b>>},
         Uart!Post(es)
  PROVE  \/ es = <<>> /\ events' = events /\ unsaid' = unsaid
         \/ \E c \in {a, b} :
              /\ es = <<c>>
              /\ \/ Len(events) < QueueLength /\ events' = Append(events, c) /\ unsaid' = unsaid
                 \/ Len(events) = QueueLength /\ events' = events /\ unsaid' = unsaid \union c.of
         \/ /\ es = <<a, b>>
            /\ \/ /\ Len(events) + 1 < QueueLength
                  /\ events' = Append(Append(events, a), b) /\ unsaid' = unsaid
               \/ /\ Len(events) + 1 = QueueLength
                  /\ events' = Append(events, a) /\ unsaid' = unsaid \union b.of
               \/ /\ Len(events) = QueueLength
                  /\ events' = events /\ unsaid' = unsaid \union a.of \union b.of
<1> DEFINE fit == Uart!Least(Len(es), QueueLength - Len(events))
<1>1. /\ events' = events \o SubSeq(es, 1, fit)
      /\ unsaid' = unsaid \union UNION {es[k].of : k \in fit + 1 .. Len(es)}
  BY DEF Uart!Post
<1>2. events \in Seq(EventSet) /\ Len(events) \in Nat /\ QueueLength \in Nat \ {0} /\ Len(events) <= QueueLength
  BY DEF UartTypes, Uart!UartAssumption
<1>3. events \o SubSeq(es, 1, 0) = events
  <2>1. es \in Seq(EventSet)
    <3>1. <<>> \in Seq(EventSet) /\ <<a>> \in Seq(EventSet) /\ <<b>> \in Seq(EventSet) /\ <<a, b>> \in Seq(EventSet)
      OBVIOUS
    <3> QED BY <3>1
  <2> QED BY <1>2, <2>1, FitIs
<1>4. CASE es = <<>>
  <2>1. fit = 0 /\ Len(es) = 0
    BY <1>4, <1>2 DEF Uart!Least
  <2> HIDE DEF fit
  <2>2. events' = events
    BY <2>1, <1>1, <1>3
  <2>3. UNION {es[k].of : k \in fit + 1 .. Len(es)} = {}
    BY <2>1
  <2> QED BY <1>4, <2>2, <2>3, <1>1
<1>5. ASSUME NEW c \in {a, b}, es = <<c>>
      PROVE  \/ Len(events) < QueueLength /\ events' = Append(events, c) /\ unsaid' = unsaid
             \/ Len(events) = QueueLength /\ events' = events /\ unsaid' = unsaid \union c.of
  <2>1. Len(es) = 1 /\ es[1] = c
    BY <1>5
  <2>2. CASE Len(events) < QueueLength
    <3>1. fit = 1
      BY <2>1, <2>2, <1>2 DEF Uart!Least
    <3> HIDE DEF fit
    <3>2. events \o SubSeq(<<c>>, 1, 1) = Append(events, c)
      BY <1>2, FitIs
    <3>3. events' = Append(events, c)
      BY <3>1, <3>2, <1>1, <1>5
    <3>4. UNION {es[k].of : k \in fit + 1 .. Len(es)} = {}
      BY <3>1, <2>1
    <3> QED BY <2>2, <3>3, <3>4, <1>1
  <2>3. CASE Len(events) = QueueLength
    <3>1. fit = 0
      BY <2>1, <2>3, <1>2 DEF Uart!Least
    <3> HIDE DEF fit
    <3>2. UNION {es[k].of : k \in fit + 1 .. Len(es)} = c.of
      <4>1. fit + 1 .. Len(es) = {1}
        BY <3>1, <2>1
      <4> QED BY <4>1, <2>1
    <3> QED BY <2>3, <3>1, <3>2, <1>1, <1>3
  <2> QED BY <2>2, <2>3, <1>2
<1>6. CASE es = <<a, b>>
  <2>1. Len(es) = 2 /\ es[1] = a /\ es[2] = b
    BY <1>6
  <2>2. CASE Len(events) + 1 < QueueLength
    <3>1. fit = 2
      BY <2>1, <2>2, <1>2 DEF Uart!Least
    <3> HIDE DEF fit
    <3>2. events \o SubSeq(<<a, b>>, 1, 2) = Append(Append(events, a), b)
      BY <1>2, FitIs
    <3>3. events' = Append(Append(events, a), b)
      BY <3>1, <3>2, <1>1, <1>6
    <3>4. UNION {es[k].of : k \in fit + 1 .. Len(es)} = {}
      BY <3>1, <2>1
    <3> QED BY <2>2, <3>3, <3>4, <1>1, <1>6
  <2>3. CASE Len(events) + 1 = QueueLength
    <3>1. fit = 1
      BY <2>1, <2>3, <1>2 DEF Uart!Least
    <3> HIDE DEF fit
    <3>2. events \o SubSeq(<<a, b>>, 1, 1) = Append(events, a)
      BY <1>2, FitIs
    <3>3. events' = Append(events, a)
      BY <3>1, <3>2, <1>1, <1>6
    <3>4. UNION {es[k].of : k \in fit + 1 .. Len(es)} = b.of
      <4>1. fit + 1 .. Len(es) = {2}
        BY <3>1, <2>1
      <4> QED BY <4>1, <2>1
    <3> QED BY <2>3, <3>3, <3>4, <1>1, <1>6
  <2>4. CASE Len(events) = QueueLength
    <3>1. fit = 0
      BY <2>1, <2>4, <1>2 DEF Uart!Least
    <3> HIDE DEF fit
    <3>2. UNION {es[k].of : k \in fit + 1 .. Len(es)} = a.of \union b.of
      <4>1. fit + 1 .. Len(es) = {1, 2}
        BY <3>1, <2>1
      <4> QED BY <4>1, <2>1
    <3>3. events' = events
      BY <3>1, <1>1, <1>3
    <3>4. unsaid' = unsaid \union a.of \union b.of
      BY <3>2, <1>1
    <3> QED BY <2>4, <3>3, <3>4, <1>6
  <2> QED BY <2>2, <2>3, <2>4, <1>2
<1> QED BY <1>4, <1>5, <1>6

\* What event() does: the event told of, and the drop if its place is found.
LEMMA EventTells ==
  ASSUME UartTypes, NEW e \in EventSet, SaysOne(e), NEW s \in Nat, Uart!event(e, s)
  PROVE  /\ pushed' = pushed + e.size /\ pushed' \in Nat
         /\ chunk' = IF e.kind = "data" THEN pushed ELSE chunk
         /\ suspect' = IF s = 0 THEN 0 ELSE s - 1
         /\ unsaid' = IF s = 1 THEN {} ELSE unsaid
         /\ \E p, q \in PlaceSet, k, end \in LedgerSet :
              /\ p = Uart!Place(IF e.kind = "bad" THEN Uart!bad ELSE pushed, e.of)
              /\ q = Uart!Place(pushed', IF s = 1 THEN unsaid ELSE {})
              /\ Told([hold |-> hold, ring |-> ring], p, k) /\ Told(k, q, end)
              /\ hold' = end.hold /\ ring' = end.ring
<1> DEFINE more == IF e.kind = "data" THEN pushed + e.size ELSE pushed
           now == [hold |-> hold, ring |-> ring]
           noted == CASE e.kind = "overflow" -> Uart!add(now, Uart!Place(pushed, e.of))
                     [] e.kind = "bad"      -> Uart!add(now, Uart!Place(Uart!bad, e.of))
                     [] OTHER               -> now
           end == IF s = 1 THEN Uart!add(noted, Uart!Place(more, unsaid)) ELSE noted
           p == Uart!Place(IF e.kind = "bad" THEN Uart!bad ELSE pushed, e.of)
           q == Uart!Place(more, IF s = 1 THEN unsaid ELSE {})
<1>1. /\ pushed' = more /\ chunk' = IF e.kind = "data" THEN pushed ELSE chunk
      /\ suspect' = IF s = 0 THEN 0 ELSE s - 1
      /\ unsaid' = IF s = 1 THEN {} ELSE unsaid
      /\ hold' = end.hold /\ ring' = end.ring
  BY DEF Uart!event
<1>2. /\ e.size \in Nat /\ e.kind \in {"data", "overflow", "bad"} /\ e.of \subseteq LossSet
      /\ (e.kind # "data" => e.size = 0) /\ (e.kind = "data" => e.of = {})
  BY DEF EventSet, SaysOne
<1>3. /\ pushed \in Nat /\ limit \in Nat /\ chunk \in Nat /\ unsaid \subseteq LossSet
      /\ hold \in HeldSet /\ ring \in Seq(PlaceSet)
  BY DEF UartTypes
<1>4. more = pushed + e.size /\ more \in Nat
  BY <1>2, <1>3
<1>5. now \in LedgerSet
  BY <1>3 DEF LedgerSet
<1>6. Uart!bad \in Nat
  BY <1>3 DEF Uart!bad
<1>7. p \in PlaceSet /\ p.at >= 0 /\ p.of = e.of
  BY <1>2, <1>3, <1>6 DEF Uart!Place, PlaceSet
<1>8. q \in PlaceSet /\ q.at >= 0 /\ q.of = IF s = 1 THEN unsaid ELSE {}
  <2> HIDE DEF more
  <2> QED BY <1>3, <1>4 DEF Uart!Place, PlaceSet
<1>9. Told(now, p, noted) /\ noted \in LedgerSet
  <2> HIDE DEF now
  <2>1. CASE e.kind = "data"
    <3>1. noted = now
      BY <2>1
    <3> HIDE DEF p, noted
    <3> QED BY <3>1, <2>1, <1>2, <1>5, <1>7, NoneTells
  <2>2. CASE e.kind # "data"
    <3>1. noted = Uart!add(now, p)
      BY <2>2, <1>2
    <3> HIDE DEF p, noted
    <3>2. Told(now, p, noted)
      BY <3>1, <1>5, <1>7, AddTells
    <3> QED BY <3>2 DEF Told
  <2> QED BY <2>1, <2>2
<1> HIDE DEF now, noted, p
<1>10. Told(noted, q, end) /\ end \in LedgerSet
  <2>1. CASE s = 1
    <3>1. end = Uart!add(noted, q)
      BY <2>1
    <3> HIDE DEF q, end
    <3>2. Told(noted, q, end)
      BY <3>1, <1>8, <1>9, AddTells
    <3> QED BY <3>2 DEF Told
  <2>2. CASE s # 1
    <3>1. end = noted
      BY <2>2
    <3> HIDE DEF q, end
    <3> QED BY <3>1, <2>2, <1>8, <1>9, NoneTells
  <2> QED BY <2>1, <2>2
<1>11. q = Uart!Place(pushed', IF s = 1 THEN unsaid ELSE {})
  BY <1>1
<1> HIDE DEF q, end, more
<1>12. \E p1, q1 \in PlaceSet, k, end1 \in LedgerSet :
              /\ p1 = Uart!Place(IF e.kind = "bad" THEN Uart!bad ELSE pushed, e.of)
              /\ q1 = Uart!Place(pushed', IF s = 1 THEN unsaid ELSE {})
              /\ Told(now, p1, k) /\ Told(k, q1, end1)
              /\ hold' = end1.hold /\ ring' = end1.ring
  <2>1. p = Uart!Place(IF e.kind = "bad" THEN Uart!bad ELSE pushed, e.of)
    BY DEF p
  <2> QED BY <1>1, <1>7, <1>8, <1>9, <1>10, <1>11, <2>1
<1> QED BY <1>1, <1>4, <1>12 DEF now

\* The ledger after event(): no loss is lost, none told of too late.
EventKept(e, s) ==
  /\ hold' \in HeldSet /\ ring' \in Seq(PlaceSet)
  /\ hold'.of \subseteq hold.of \union e.of \union (IF s = 1 THEN unsaid ELSE {})
  /\ hold'.of \union OfAll(ring') =
       hold.of \union OfAll(ring) \union e.of \union (IF s = 1 THEN unsaid ELSE {})
  /\ /\ PlacesInTime(ring) /\ \A l \in hold.of : hold.at <= l.at
     /\ \A l \in e.of : /\ e.kind = "overflow" => pushed <= l.at
                        /\ e.kind = "bad" => chunk < l.at /\ limit <= l.at
     /\ s = 1 => \A l \in unsaid : pushed' <= l.at
     => PlacesInTime(ring') /\ \A l \in hold'.of : hold'.at <= l.at
  /\ (hold # Uart!None => limit <= hold.at /\ hold.at <= pushed) /\ limit <= pushed /\ chunk <= pushed
     => (hold' # Uart!None => limit <= hold'.at /\ hold'.at <= pushed')

LEMMA EventKeeps ==
  ASSUME UartTypes, NEW e \in EventSet, SaysOne(e), NEW s \in Nat, Uart!event(e, s)
  PROVE  EventKept(e, s)
<1>1. /\ pushed' = pushed + e.size /\ pushed' \in Nat
      /\ \E p, q \in PlaceSet, k, end \in LedgerSet :
              /\ p = Uart!Place(IF e.kind = "bad" THEN Uart!bad ELSE pushed, e.of)
              /\ q = Uart!Place(pushed', IF s = 1 THEN unsaid ELSE {})
              /\ Told([hold |-> hold, ring |-> ring], p, k) /\ Told(k, q, end)
              /\ hold' = end.hold /\ ring' = end.ring
  BY EventTells
<1> DEFINE now == [hold |-> hold, ring |-> ring]
<1>2. PICK p \in PlaceSet, q \in PlaceSet, k \in LedgerSet, end \in LedgerSet :
              /\ p = Uart!Place(IF e.kind = "bad" THEN Uart!bad ELSE pushed, e.of)
              /\ q = Uart!Place(pushed', IF s = 1 THEN unsaid ELSE {})
              /\ Told(now, p, k) /\ Told(k, q, end)
              /\ hold' = end.hold /\ ring' = end.ring
  BY <1>1
<1>3. now.hold = hold /\ now.ring = ring
  OBVIOUS
<1> HIDE DEF now
<1>4. /\ p.at = (IF e.kind = "bad" THEN Uart!bad ELSE pushed) /\ p.of = e.of
      /\ q.at = pushed' /\ q.of = IF s = 1 THEN unsaid ELSE {}
  BY <1>2 DEF Uart!Place
<1>5. /\ e.size \in Nat /\ e.kind \in {"data", "overflow", "bad"} /\ e.of \subseteq LossSet
      /\ (e.kind = "data" => e.of = {})
  BY DEF EventSet, SaysOne
<1>6. pushed \in Nat /\ limit \in Nat /\ chunk \in Nat
  BY DEF UartTypes
<1>7. /\ Uart!bad \in Nat /\ (chunk < limit => Uart!bad = limit) /\ (~(chunk < limit) => Uart!bad = chunk)
  BY <1>6 DEF Uart!bad
<1>8. hold' \in HeldSet /\ ring' \in Seq(PlaceSet)
  BY <1>2 DEF LedgerSet
<1>9. /\ k.hold.of \subseteq hold.of \union e.of
      /\ k.hold.of \union OfAll(k.ring) = hold.of \union OfAll(ring) \union e.of
      /\ hold'.of \subseteq k.hold.of \union q.of
      /\ hold'.of \union OfAll(ring') = k.hold.of \union OfAll(k.ring) \union q.of
  BY <1>2, <1>3, <1>4 DEF Told
<1>10. ASSUME PlacesInTime(ring), \A l \in hold.of : hold.at <= l.at,
              \A l \in e.of : /\ e.kind = "overflow" => pushed <= l.at
                              /\ e.kind = "bad" => chunk < l.at /\ limit <= l.at,
              s = 1 => \A l \in unsaid : pushed' <= l.at
       PROVE  PlacesInTime(ring') /\ \A l \in hold'.of : hold'.at <= l.at
  <2>1. \A l \in p.of : p.at <= l.at
    <3> TAKE l \in p.of
    <3>1. l \in e.of /\ l.at \in Nat
      BY <1>4, <1>5 DEF LossSet
    <3>2. CASE e.kind = "bad"
      <4>1. chunk < l.at /\ limit <= l.at
        BY <3>1, <3>2, <1>10
      <4> QED BY <4>1, <3>1, <3>2, <1>4, <1>6, <1>7
    <3>3. CASE e.kind = "overflow"
      BY <3>1, <3>3, <1>4, <1>10
    <3> QED BY <3>1, <3>2, <3>3, <1>5
  <2>2. \A l \in q.of : q.at <= l.at
    BY <1>4, <1>10
  <2>3. PlacesInTime(k.ring) /\ \A l \in k.hold.of : k.hold.at <= l.at
    BY <2>1, <1>2, <1>3, <1>10 DEF Told
  <2> QED BY <2>2, <2>3, <1>2 DEF Told
<1>11. ASSUME hold # Uart!None => limit <= hold.at /\ hold.at <= pushed, limit <= pushed, chunk <= pushed
       PROVE  hold' # Uart!None => limit <= hold'.at /\ hold'.at <= pushed'
  <2>1. limit <= p.at /\ p.at <= pushed' /\ limit <= q.at /\ q.at <= pushed' /\ pushed <= pushed'
    BY <1>1, <1>4, <1>5, <1>6, <1>7, <1>11
  <2>2. hold # Uart!None => limit <= hold.at /\ hold.at <= pushed'
    <3> HAVE hold # Uart!None
    <3>1. hold.at \in Int
      BY DEF UartTypes, HeldSet, PlaceSet
    <3> QED BY <3>1, <2>1, <1>1, <1>6, <1>11
  <2>3. k.hold # Uart!None => limit <= k.hold.at /\ k.hold.at <= pushed'
    BY <2>1, <2>2, <1>1, <1>2, <1>3, <1>6 DEF Told
  <2> QED BY <2>1, <2>3, <1>1, <1>2, <1>6 DEF Told
<1>12. /\ hold'.of \subseteq hold.of \union e.of \union (IF s = 1 THEN unsaid ELSE {})
       /\ hold'.of \union OfAll(ring') =
            hold.of \union OfAll(ring) \union e.of \union (IF s = 1 THEN unsaid ELSE {})
  BY <1>4, <1>9
<1> QED BY <1>8, <1>10, <1>11, <1>12 DEF EventKept

\* One more event waits.
LEMMA OneMore ==
  ASSUME NEW q \in Seq(EventSet), \A k \in 1 .. Len(q) : SaysOne(q[k]), NEW e \in EventSet, SaysOne(e)
  PROVE  /\ Append(q, e) \in Seq(EventSet) /\ Len(Append(q, e)) = Len(q) + 1 /\ Len(q) \in Nat
         /\ \A k \in 1 .. Len(Append(q, e)) : SaysOne(Append(q, e)[k])
         /\ OfAll(Append(q, e)) = OfAll(q) \union e.of
<1> DEFINE r == Append(q, e)
<1>1. /\ r \in Seq(EventSet) /\ Len(q) \in Nat /\ Len(r) = Len(q) + 1
      /\ \A i \in 1 .. Len(q) : r[i] = q[i]
      /\ r[Len(q) + 1] = e
  BY AppendOf
<1>2. OfAll(r) = OfAll(q) \union e.of
  BY OfAppend
<1> HIDE DEF r
<1>3. \A k \in 1 .. Len(r) : k \in 1 .. Len(q) \/ k = Len(q) + 1
  BY <1>1
<1>4. \A k \in 1 .. Len(r) : SaysOne(r[k])
  <2> TAKE k \in 1 .. Len(r)
  <2>1. r[k] = e \/ (k \in 1 .. Len(q) /\ r[k] = q[k])
    BY <1>1, <1>3
  <2> QED BY <2>1
<1> QED BY <1>1, <1>2, <1>4 DEF r

\* A batch of an event, of two.
LEMMA TwoAre ==
  ASSUME NEW R, NEW a \in R, NEW c \in R, NEW s \in Seq(R), Len(s) = 1, s[1] = a
  PROVE  Append(s, c) = <<a, c>>
<1> DEFINE t == Append(s, c)
<1>1. /\ t \in Seq(R) /\ Len(s) \in Nat /\ Len(t) = Len(s) + 1
      /\ \A i \in 1 .. Len(s) : t[i] = s[i]
      /\ t[Len(s) + 1] = c
  BY ONLY s \in Seq(R), c \in R
<1> HIDE DEF t
<1>2. Len(t) = 2 /\ t[1] = a /\ t[2] = c
  BY <1>1
<1>3. t = <<a, c>>
  BY <1>1, <1>2
<1> QED BY <1>3 DEF t

LEMMA BatchesAre ==
  ASSUME NEW R, NEW a \in R, NEW c \in R
  PROVE  /\ <<>> \o <<>> = <<>> /\ <<a>> \o <<>> = <<a>> /\ <<>> \o <<c>> = <<c>>
         /\ <<a>> \o <<c>> = <<a, c>>
<1>1. <<a>> \in Seq(R) /\ <<c>> \in Seq(R) /\ <<>> \in Seq(R)
  OBVIOUS
<1>2. /\ <<>> \o <<>> = <<>> /\ <<a>> \o <<>> = <<a>> /\ <<>> \o <<c>> = <<c>>
  BY <1>1, ConcatEmptySeq
<1>3. <<a>> \o <<c>> = <<a, c>>
  <2>1. Len(<<a>>) = 1 /\ <<a>>[1] = a
    OBVIOUS
  <2>2. <<a>> \o <<c>> = Append(<<a>>, c)
    BY <1>1
  <2> QED BY <1>1, <2>1, <2>2, TwoAre
<1> QED BY <1>2, <1>3

\* What a batch leaves in the queue.
Batched(n, of) ==
  /\ events' \in Seq(EventSet) /\ Len(events') <= QueueLength /\ Len(events') >= Len(events)
  /\ \A k \in 1 .. Len(events') : SaysOne(events'[k])
  /\ Len(events') = Len(events) => events' = events
  /\ unsaid \subseteq unsaid' /\ unsaid' \subseteq unsaid \union of
  /\ OfAll(events') \union unsaid' = OfAll(events) \union unsaid \union of
  /\ unsaid' # unsaid => Len(events') = QueueLength

BatchInOrder(n) == \E s :
  InOrder(s, events', Counted, received + n, LastChunk) /\ AheadOf(s, events', Ahead, unsaid)

LEMMA CountsTyped ==
  ASSUME Uart!UartAssumption, UartTypes
  PROVE  /\ Counted \in Nat /\ LastChunk \in Nat /\ Queued \in Nat /\ Ahead \in Int
         /\ Len(events) \in Nat /\ QueueLength \in Nat \ {0}
<1>1. Len(events) \in Nat /\ pushed \in Nat /\ chunk \in Nat /\ suspect \in Nat /\ QueueLength \in Nat \ {0}
  BY DEF UartTypes, Uart!UartAssumption
<1>2. tpc = "count" => read.size \in Nat
  BY DEF UartTypes, EventSet
<1> QED BY <1>1, <1>2 DEF Counted, LastChunk, Queued, Ahead

LEMMA BatchQueues ==
  ASSUME Uart!UartAssumption, UartTypes, NEW n \in Nat, NEW c \in EventSet, SaysOne(c), c.size = 0,
         NEW says \in {<<>>, <<c>>}, Uart!Post((IF n = 0 THEN <<>> ELSE <<Uart!Data(n)>>) \o says),
         TellsOf(c, received + n, received)
  PROVE  /\ Batched(n, IF says = <<>> THEN {} ELSE c.of)
         /\ CountsOrder /\ EventsInOrder => BatchInOrder(n)
<1> DEFINE a == Uart!Data(n)
           es == (IF n = 0 THEN <<>> ELSE <<a>>) \o says
           of == IF says = <<>> THEN {} ELSE c.of
<1>1. a \in EventSet /\ SaysOne(a) /\ a.of = {} /\ a.kind = "data" /\ a.size = n
  BY DEF Uart!Data, EventSet, SaysOne
<1>2. \/ n = 0 /\ es = <<>> /\ of = {}
      \/ es = <<a>> /\ of = {}
      \/ es = <<c>> /\ of = c.of
      \/ es = <<a, c>> /\ of = c.of
  <2>1. <<c>> # <<>>
    OBVIOUS
  <2>2. /\ <<>> \o <<>> = <<>> /\ <<a>> \o <<>> = <<a>> /\ <<>> \o <<c>> = <<c>>
        /\ <<a>> \o <<c>> = <<a, c>>
    BY <1>1, BatchesAre
  <2> HIDE DEF a
  <2> QED BY <2>1, <2>2
<1>3. /\ received \in Nat /\ events \in Seq(EventSet) /\ Len(events) <= QueueLength
      /\ (\A k \in 1 .. Len(events) : SaysOne(events[k])) /\ unsaid \subseteq LossSet
      /\ Len(events) \in Nat /\ QueueLength \in Nat \ {0}
  BY CountsTyped DEF UartTypes
<1>4. es \in {<<>>, <<a>>, <<c>>, <<a, c>>} /\ Uart!Post(es)
  BY <1>2
<1> HIDE DEF a, es, of
<1> DEFINE ea == Append(events, a)
           ec == Append(events, c)
           eac == Append(ea, c)
<1>5. /\ ea \in Seq(EventSet) /\ Len(ea) = Len(events) + 1
      /\ (\A k \in 1 .. Len(ea) : SaysOne(ea[k])) /\ OfAll(ea) = OfAll(events)
  BY <1>1, <1>3, OneMore
<1>6. /\ ec \in Seq(EventSet) /\ Len(ec) = Len(events) + 1
      /\ (\A k \in 1 .. Len(ec) : SaysOne(ec[k])) /\ OfAll(ec) = OfAll(events) \union c.of
  BY <1>3, OneMore
<1> HIDE DEF ea
<1>7. /\ eac \in Seq(EventSet) /\ Len(eac) = Len(events) + 2
      /\ (\A k \in 1 .. Len(eac) : SaysOne(eac[k])) /\ OfAll(eac) = OfAll(events) \union c.of
  <2>1. /\ eac \in Seq(EventSet) /\ Len(eac) = Len(ea) + 1
        /\ (\A k \in 1 .. Len(eac) : SaysOne(eac[k])) /\ OfAll(eac) = OfAll(ea) \union c.of
    BY <1>5, OneMore
  <2> QED BY <2>1, <1>3, <1>5
<1> HIDE DEF ec, eac
<1> DEFINE Ordered(q) == \E s :
             InOrder(s, q, Counted, received + n, LastChunk) /\ AheadOf(s, q, Ahead, unsaid)
<1>8. ASSUME CountsOrder, EventsInOrder
      PROVE  Ordered(events) /\ Ordered(ea) /\ Ordered(ec) /\ Ordered(eac)
  <2>1. PICK s : InOrder(s, events, Counted, received, LastChunk) /\ AheadOf(s, events, Ahead, unsaid)
    BY <1>8 DEF EventsInOrder
  <2>2. Counted \in Nat /\ LastChunk \in Nat /\ Ahead \in Int
    BY CountsTyped
  <2>3. Counted <= received /\ LastChunk <= received /\ Ahead <= Len(events)
    <3>1. pushed \in Nat /\ chunk \in Nat /\ suspect \in Nat /\ (tpc = "count" => read.size \in Nat)
      BY DEF UartTypes, EventSet
    <3> QED BY <3>1, <1>3, <1>8 DEF CountsOrder, Counted, LastChunk, Ahead, Queued
  <2>4. StartsBy(s, events, received)
    <3>1. \A k \in 1 .. Len(events) : s[k] \in Nat /\ s[k] + events[k].size <= received
      BY <2>1 DEF InOrder
    <3>2. \A k \in 1 .. Len(events) : events[k].size \in Nat
      <4>1. \A k \in 1 .. Len(events) : events[k] \in EventSet
        BY <1>3
      <4> QED BY <4>1 DEF EventSet
    <3>3. ASSUME NEW k \in 1 .. Len(events) PROVE s[k] <= received
      <4> DEFINE z == s[k]
                 b == events[k].size
      <4>1. z \in Nat /\ b \in Nat /\ z + b <= received /\ received \in Nat
        BY <3>1, <3>2, <1>3
      <4> HIDE DEF z, b
      <4>2. z <= received
        BY ONLY <4>1
      <4> QED BY <4>2 DEF z
    <3> QED BY <3>3 DEF StartsBy
  <2>5. received + n \in Nat /\ received <= received + n
    BY <1>3
  <2> DEFINE from == Counted
             last == LastChunk
             ahead == Ahead
             more == received + n
  <2> HIDE DEF from, last, ahead, more
  <2>6. /\ from \in Nat /\ last \in Nat /\ ahead \in Int /\ more \in Nat /\ received \in Nat
        /\ from <= received /\ last <= received /\ ahead <= Len(events) /\ received <= more
        /\ InOrder(s, events, from, received, last) /\ AheadOf(s, events, ahead, unsaid)
        /\ from <= more /\ received <= received /\ more <= more
    BY <2>1, <2>2, <2>3, <2>5, <1>3 DEF from, last, ahead, more
  <2>7. InOrder(s, events, from, more, last)
    BY <2>6, <1>3, OrderedWider
  <2>8. received + a.size <= more /\ a.size \in Nat /\ more + c.size <= more
    BY <1>1, <2>6 DEF more
  <2>9. PICK t : /\ InOrder(t, ea, from, more, last) /\ AheadOf(t, ea, ahead, unsaid)
                 /\ StartsBy(t, ea, received)
    <3>1. TellsOf(a, received, received)
      BY <1>1 DEF TellsOf
    <3> QED BY <1>1, <1>3, <2>4, <2>6, <2>8, <3>1, OrderedAppend DEF ea
  <2>10. TellsOf(c, more, received)
    BY DEF more
  <2>11. \E u : InOrder(u, ec, from, more, last) /\ AheadOf(u, ec, ahead, unsaid)
    BY <1>3, <2>4, <2>6, <2>8, <2>10, OrderedAppend DEF ec
  <2>12. ahead <= Len(ea)
    BY <2>6, <1>5, <1>3
  <2>13. \E u : InOrder(u, eac, from, more, last) /\ AheadOf(u, eac, ahead, unsaid)
    BY <1>3, <1>5, <2>6, <2>8, <2>9, <2>10, <2>12, OrderedAppend DEF eac
  <2> QED BY <2>6, <2>7, <2>9, <2>11, <2>13 DEF from, last, ahead, more
<1>9. BatchInOrder(n) <=> Ordered(events')
  BY DEF BatchInOrder
<1> HIDE DEF Ordered
<1>10. CASE events' = events /\ unsaid' = unsaid \union of /\ (of = {} \/ Len(events) = QueueLength)
  <2>1. Batched(n, of)
    BY <1>10, <1>3 DEF Batched
  <2> QED BY <2>1, <1>8, <1>9, <1>10 DEF of
<1>11. CASE Len(events) < QueueLength /\ events' = ea /\ unsaid' = unsaid /\ of = {}
  <2>1. Batched(n, of)
    BY <1>11, <1>3, <1>5 DEF Batched
  <2> QED BY <2>1, <1>8, <1>9, <1>11 DEF of
<1>12. CASE Len(events) < QueueLength /\ events' = ec /\ unsaid' = unsaid /\ of = c.of
  <2>1. Batched(n, of)
    BY <1>12, <1>3, <1>6 DEF Batched
  <2> QED BY <2>1, <1>8, <1>9, <1>12 DEF of
<1>13. CASE Len(events) + 1 < QueueLength /\ events' = eac /\ unsaid' = unsaid /\ of = c.of
  <2>1. Batched(n, of)
    BY <1>13, <1>3, <1>7 DEF Batched
  <2> QED BY <2>1, <1>8, <1>9, <1>13 DEF of
<1>14. CASE Len(events) + 1 = QueueLength /\ events' = ea /\ unsaid' = unsaid \union c.of /\ of = c.of
  <2>1. Batched(n, of)
    BY <1>14, <1>3, <1>5 DEF Batched
  <2> QED BY <2>1, <1>8, <1>9, <1>14 DEF of
<1>15. \/ es = <<>> /\ events' = events /\ unsaid' = unsaid
       \/ \E x \in {a, c} :
            /\ es = <<x>>
            /\ \/ Len(events) < QueueLength /\ events' = Append(events, x) /\ unsaid' = unsaid
               \/ Len(events) = QueueLength /\ events' = events /\ unsaid' = unsaid \union x.of
       \/ /\ es = <<a, c>>
          /\ \/ /\ Len(events) + 1 < QueueLength
                /\ events' = eac /\ unsaid' = unsaid
             \/ /\ Len(events) + 1 = QueueLength
                /\ events' = ea /\ unsaid' = unsaid \union c.of
             \/ /\ Len(events) = QueueLength
                /\ events' = events /\ unsaid' = unsaid \union a.of \union c.of
  BY <1>1, <1>4, PostShape DEF ea, eac
<1>16. <<>> # <<a>> /\ <<>> # <<c>> /\ <<a>> # <<a, c>> /\ <<c>> # <<a, c>> /\ <<>> # <<a, c>>
       /\ \A x, y : <<x>> = <<y>> => x = y
  OBVIOUS
<1>17. CASE es = <<>>
  <2>1. events' = events /\ unsaid' = unsaid /\ of = {}
    BY <1>2, <1>15, <1>16, <1>17
  <2> QED BY <2>1, <1>10
<1>18. CASE es = <<a>> /\ of = {}
  <2>1. \/ Len(events) < QueueLength /\ events' = ea /\ unsaid' = unsaid
        \/ Len(events) = QueueLength /\ events' = events /\ unsaid' = unsaid \union a.of
    BY <1>15, <1>16, <1>18 DEF ea
  <2> QED BY <2>1, <1>1, <1>10, <1>11, <1>18
<1>19. CASE es = <<c>> /\ of = c.of
  <2>1. \/ Len(events) < QueueLength /\ events' = ec /\ unsaid' = unsaid
        \/ Len(events) = QueueLength /\ events' = events /\ unsaid' = unsaid \union c.of
    BY <1>15, <1>16, <1>19 DEF ec
  <2> QED BY <2>1, <1>10, <1>12, <1>19
<1>20. CASE es = <<a, c>> /\ of = c.of
  <2>1. \/ Len(events) + 1 < QueueLength /\ events' = eac /\ unsaid' = unsaid
        \/ Len(events) + 1 = QueueLength /\ events' = ea /\ unsaid' = unsaid \union c.of
        \/ Len(events) = QueueLength /\ events' = events /\ unsaid' = unsaid \union a.of \union c.of
    BY <1>15, <1>16, <1>20
  <2> QED BY <2>1, <1>1, <1>10, <1>13, <1>14, <1>20
<1> QED BY <1>2, <1>17, <1>18, <1>19, <1>20

\* A batch of the interrupt, whatever it says.
LEMMA BatchKeeps ==
  ASSUME Uart!UartAssumption, UartInv, NEW n \in Nat, NEW c \in EventSet, SaysOne(c), c.size = 0,
         NEW says \in {<<>>, <<c>>}, Uart!Batch(n, says), TellsOf(c, received + n, received),
         NEW of, of = (IF says = <<>> THEN {} ELSE c.of), losses' = losses \union of,
         \A l \in c.of : received <= l.at /\ (~l.bad => l.at = received + n)
  PROVE  UartInv'
<1>1. UartTypes /\ c.of \subseteq LossSet /\ of \subseteq LossSet /\ of \subseteq c.of
  BY DEF UartInv, EventSet
<1>2. /\ received' = received + n /\ Uart!Post((IF n = 0 THEN <<>> ELSE <<Uart!Data(n)>>) \o says)
      /\ blind' = blind \union (IF \E l \in unsaid' \ unsaid : l.bad THEN {"bad"} ELSE {})
                        \union (IF Uart!Refills THEN {"refilled"} ELSE {})
      /\ UNCHANGED <<Uart!taskVars, Uart!ledgerVars, ring, Uart!pollVars>>
  BY DEF Uart!Batch
<1>3. Batched(n, of) /\ (CountsOrder /\ EventsInOrder => BatchInOrder(n))
  <2>1. TellsOf(c, received + n, received) /\ UartTypes
    BY <1>1
  <2> QED BY <1>2, <2>1, BatchQueues
<1>4. /\ UNCHANGED <<tpc, read, unpublished, sawTaken, sawHeld>>
      /\ UNCHANGED <<pushed, chunk, suspect, suspected, hold, limit, ring>>
      /\ UNCHANGED <<stopping, rpc, rlimit, pending, taken, marked>>
  BY <1>2 DEF Uart!taskVars, Uart!ledgerVars, Uart!pollVars, Uart!readVars
<1>5. UartTypes'
  <2>1. received' \in Nat /\ losses' \subseteq LossSet /\ unsaid' \subseteq LossSet
    BY <1>1, <1>2, <1>3 DEF UartTypes, Batched
  <2>2. /\ events' \in Seq(EventSet) /\ Len(events') <= QueueLength
        /\ \A k \in 1 .. Len(events') : SaysOne(events'[k])
    BY <1>3 DEF Batched
  <2> QED BY <1>1, <1>4, <2>1, <2>2 DEF UartTypes, SaysOne
<1>6. ASSUME blind' = {} PROVE UartParts'
  <2>1. /\ CountsOrder /\ EventsInOrder /\ GotInOrder /\ UnsaidIsDue /\ Placed /\ Kept
        /\ ~Uart!Refills /\ \A l \in unsaid' \ unsaid : ~l.bad
    BY <1>2, <1>6 DEF UartInv, UartParts
  <2>2. /\ Counted \in Nat /\ LastChunk \in Nat /\ Queued \in Nat /\ Ahead \in Int
        /\ Len(events) \in Nat /\ QueueLength \in Nat \ {0} /\ received \in Nat /\ taken \in Nat /\ limit \in Nat
        /\ pushed \in Nat /\ suspect \in Nat
    BY <1>1, CountsTyped DEF UartTypes
  <2>3. /\ Len(events') \in Nat /\ Len(events') <= QueueLength /\ Len(events') >= Len(events)
        /\ (Len(events') = Len(events) => events' = events)
        /\ unsaid \subseteq unsaid' /\ unsaid' \subseteq unsaid \union of
        /\ OfAll(events') \union unsaid' = OfAll(events) \union unsaid \union of
        /\ (unsaid' # unsaid => Len(events') = QueueLength)
    BY <1>3 DEF Batched
  <2>4. \A l \in of : l.at \in Nat /\ received <= l.at
    BY <1>1 DEF LossSet
  <2>5. \A l \in unsaid' \ unsaid : l.at = received + n
    BY <1>1, <2>1, <2>3
  <2>6. Counted' = Counted /\ LastChunk' = LastChunk
    BY <1>4 DEF Counted, LastChunk
  <2>7. /\ Queued = Len(events) + (IF tpc = "count" THEN 1 ELSE 0)
        /\ Queued' = Len(events') + (IF tpc = "count" THEN 1 ELSE 0)
        /\ Queued' \in Nat /\ Queued <= Queued'
    BY <1>4, <2>2, <2>3 DEF Queued
  <2>8. CountsOrder'
    <3>1. /\ taken <= received' /\ Counted' <= received' /\ suspect <= Queued'
          /\ (tpc = "check" => sawTaken + sawHeld <= received')
      <4>1. sawTaken + sawHeld \in Int
        BY <1>1 DEF UartTypes
      <4> QED BY <4>1, <1>2, <2>1, <2>2, <2>6, <2>7 DEF CountsOrder
    <3> QED BY <3>1, <1>4, <2>1 DEF CountsOrder
  <2>9. EventsInOrder'
    <3>1. PICK s : InOrder(s, events', Counted, received + n, LastChunk) /\ AheadOf(s, events', Ahead, unsaid)
      BY <1>3, <2>1 DEF BatchInOrder
    <3>2. AheadOf(s, events', Ahead', unsaid')
      <4> SUFFICES ASSUME NEW l \in unsaid', NEW k \in 1 .. Len(events'), k <= Ahead'
                   PROVE  s[k] + events'[k].size <= l.at
        BY DEF AheadOf
      <4>1. CASE l \notin unsaid
        BY <4>1, <2>5, <3>1 DEF InOrder
      <4>2. CASE l \in unsaid
        <5>1. Ahead' = Ahead
          <6>1. CASE events' = events
            BY <6>1, <1>4 DEF Ahead, Queued
          <6>2. CASE events' # events
            <7>1. Len(events') > Len(events) /\ Queued' < QueueLength
              <8>1. Len(events') > Len(events)
                BY <6>2, <2>2, <2>3
              <8>2. ~(Len(events') + (IF tpc = "count" THEN 1 ELSE 0) >= QueueLength)
                BY <8>1, <4>2, <2>1 DEF Uart!Refills
              <8> QED BY <8>1, <8>2, <2>2, <2>7
            <7>2. ~(Queued >= QueueLength) /\ ~(Queued' >= QueueLength)
              BY <7>1, <2>2, <2>7
            <7> QED BY <7>2, <1>4 DEF Ahead
          <6> QED BY <6>1, <6>2
        <5> QED BY <5>1, <4>2, <3>1 DEF AheadOf
      <4> QED BY <4>1, <4>2
    <3> QED BY <3>1, <3>2, <2>6, <1>2 DEF EventsInOrder
  <2>10. GotInOrder'
    BY <2>1, <1>4 DEF GotInOrder
  <2>11. UnsaidIsDue'
    <3>1. ASSUME unsaid' # {} PROVE Queued' >= QueueLength \/ suspect > 0
      <4>1. CASE unsaid' # unsaid
        BY <4>1, <2>2, <2>3, <2>7
      <4>2. CASE unsaid' = unsaid
        BY <4>2, <3>1, <2>1, <2>2, <2>7 DEF UnsaidIsDue
      <4> QED BY <4>1, <4>2
    <3>2. ASSUME NEW l \in unsaid' PROVE Counted <= l.at
      <4>1. CASE l \in unsaid
        BY <4>1, <2>1 DEF UnsaidIsDue
      <4>2. CASE l \in of
        BY <4>2, <2>1, <2>2, <2>4 DEF CountsOrder
      <4> QED BY <4>1, <4>2, <2>3
    <3> QED BY <3>1, <3>2, <1>4, <2>6 DEF UnsaidIsDue
  <2>12. Coming' = Coming \union of
    BY <1>4, <2>3 DEF Coming
  <2>13. Placed'
    <3>1. \A l \in of : limit <= l.at
      <4>1. limit <= received
        <5>1. limit <= pushed /\ Counted <= received /\ pushed <= Counted
          <6>1. tpc = "count" => read.size \in Nat
            BY <1>1 DEF UartTypes, EventSet
          <6> QED BY <6>1, <2>1, <2>2 DEF CountsOrder, Counted
        <5> QED BY <5>1, <2>2
      <4> QED BY <4>1, <2>2, <2>4
    <3> QED BY <3>1, <2>1, <2>12, <1>4 DEF Placed
  <2>14. Kept'
    <3> SUFFICES ASSUME NEW l \in losses' \ marked'
                 PROVE  /\ taken' <= l.at
                        /\ l \in Coming' \union hold'.of \union OfAll(ring') \union OfAll(pending')
      BY DEF Kept
    <3>1. CASE l \in losses
      BY <3>1, <2>1, <2>12, <1>4 DEF Kept
    <3>2. CASE l \in of
      BY <3>2, <2>1, <2>2, <2>4, <2>12, <1>4 DEF CountsOrder
    <3> QED BY <3>1, <3>2
  <2> QED BY <2>8, <2>9, <2>10, <2>11, <2>13, <2>14 DEF UartParts
<1> QED BY <1>5, <1>6 DEF UartInv

\* What the interrupt does.
LEMMA InterruptKeeps ==
  ASSUME Uart!UartAssumption, UartInv, Uart!Arrive \/ Uart!Overflow \/ Uart!BadByte
  PROVE  UartInv'
<1>1. received \in Nat /\ Chunks \subseteq Nat
  BY DEF UartInv, UartTypes, Uart!UartAssumption
<1>2. CASE Uart!Arrive
  <2>1. PICK n \in Chunks : Uart!Batch(n, <<>>) /\ UNCHANGED losses
    BY <1>2 DEF Uart!Arrive
  <2> DEFINE c == Uart!Data(0)
  <2>2. c \in EventSet /\ SaysOne(c) /\ c.size = 0 /\ c.of = {}
    BY DEF Uart!Data, EventSet, SaysOne
  <2>3. TellsOf(c, received + n, received) /\ \A l \in c.of : received <= l.at /\ (~l.bad => l.at = received + n)
    BY <2>2 DEF TellsOf
  <2> HIDE DEF c
  <2>4. losses' = losses \union {} /\ n \in Nat /\ <<>> \in {<<>>, <<c>>}
    BY <1>1, <2>1
  <2>5. {} = IF <<>> = <<>> THEN {} ELSE c.of
    OBVIOUS
  <2> QED BY <2>1, <2>2, <2>3, <2>4, <2>5, BatchKeeps
<1>3. CASE Uart!Overflow
  <2>1. PICK n \in Chunks \union {0} :
          /\ Uart!Lose([at |-> received + n, bad |-> FALSE])
          /\ Uart!Batch(n, <<Uart!Lost("overflow", [at |-> received + n, bad |-> FALSE])>>)
    BY <1>3 DEF Uart!Overflow
  <2> DEFINE l == [at |-> received + n, bad |-> FALSE]
             c == Uart!Lost("overflow", l)
  <2>2. n \in Nat /\ l \in LossSet /\ l.at = received + n /\ l.bad = FALSE /\ received <= l.at
    BY <1>1 DEF LossSet
  <2>3. losses' = losses \union {l} /\ Uart!Batch(n, <<c>>)
    BY <2>1 DEF Uart!Lose
  <2> HIDE DEF l
  <2>4. c \in EventSet /\ SaysOne(c) /\ c.size = 0 /\ c.of = {l} /\ c.kind = "overflow"
    BY <2>2 DEF Uart!Lost, EventSet, SaysOne
  <2> HIDE DEF c
  <2>5. TellsOf(c, received + n, received) /\ \A x \in c.of : received <= x.at /\ (~x.bad => x.at = received + n)
    BY <2>2, <2>4, <1>1 DEF TellsOf
  <2>6. <<c>> # <<>>
    OBVIOUS
  <2>7. {l} = IF <<c>> = <<>> THEN {} ELSE c.of
    BY <2>4, <2>6
  <2>8. <<c>> \in {<<>>, <<c>>}
    OBVIOUS
  <2> QED BY <2>2, <2>3, <2>4, <2>5, <2>7, <2>8, BatchKeeps
<1>4. CASE Uart!BadByte
  <2>0. PICK n \in Chunks \union {0} : \E p \in received + 1 .. received + n + 1 :
          /\ Uart!Lose([at |-> p, bad |-> TRUE])
          /\ Uart!Batch(n, <<Uart!Lost("bad", [at |-> p, bad |-> TRUE])>>)
    BY <1>4 DEF Uart!BadByte
  <2>1. PICK p \in received + 1 .. received + n + 1 :
          /\ Uart!Lose([at |-> p, bad |-> TRUE])
          /\ Uart!Batch(n, <<Uart!Lost("bad", [at |-> p, bad |-> TRUE])>>)
    BY <2>0
  <2> DEFINE l == [at |-> p, bad |-> TRUE]
             c == Uart!Lost("bad", l)
  <2>2. n \in Nat /\ l \in LossSet /\ l.at = p /\ l.bad = TRUE /\ received < l.at /\ received <= l.at
    BY <1>1 DEF LossSet
  <2>3. losses' = losses \union {l} /\ Uart!Batch(n, <<c>>)
    BY <2>1 DEF Uart!Lose
  <2> HIDE DEF l
  <2>4. c \in EventSet /\ SaysOne(c) /\ c.size = 0 /\ c.of = {l} /\ c.kind = "bad"
    BY <2>2 DEF Uart!Lost, EventSet, SaysOne
  <2> HIDE DEF c
  <2>5. TellsOf(c, received + n, received) /\ \A x \in c.of : received <= x.at /\ (~x.bad => x.at = received + n)
    BY <2>2, <2>4, <1>1 DEF TellsOf
  <2>6. <<c>> # <<>>
    OBVIOUS
  <2>7. {l} = IF <<c>> = <<>> THEN {} ELSE c.of
    BY <2>4, <2>6
  <2>8. <<c>> \in {<<>>, <<c>>}
    OBVIOUS
  <2> QED BY <2>2, <2>3, <2>4, <2>5, <2>7, <2>8, BatchKeeps
<1> QED BY <1>2, <1>3, <1>4

\* An event taken off the queue, to be counted.
LEMMA ReceiveKeeps ==
  ASSUME Uart!UartAssumption, UartInv, Uart!Receive
  PROVE  UartInv'
<1> DEFINE e == Head(events)
           rest == Tail(events)
<1>1. /\ tpc = "take" /\ events # <<>> /\ read' = e /\ events' = rest /\ tpc' = "count"
      /\ UNCHANGED <<received, losses, unsaid, unpublished, sawTaken, sawHeld>>
      /\ UNCHANGED <<pushed, chunk, suspect, suspected, hold, limit, ring, blind>>
      /\ UNCHANGED <<stopping, rpc, rlimit, pending, taken, marked>>
  BY DEF Uart!Receive, Uart!ledgerVars, Uart!pollVars, Uart!readVars
<1>2. UartTypes /\ read = Uart!Quiet
  BY <1>1 DEF UartInv, UartTypes
<1>3. /\ e \in EventSet /\ e = events[1] /\ Len(events) \in Nat \ {0}
      /\ rest \in Seq(EventSet) /\ Len(rest) = Len(events) - 1
      /\ \A i \in 1 .. Len(rest) : i + 1 \in 2 .. Len(events) /\ rest[i] = events[i + 1]
  BY <1>1, <1>2, TailOf DEF UartTypes
<1>4. OfAll(events) = e.of \union OfAll(rest)
  BY <1>1, <1>2, OfTail DEF UartTypes
<1> HIDE DEF e, rest
<1>5. SaysOne(e) /\ \A k \in 1 .. Len(rest) : SaysOne(rest[k])
  <2>1. \A k \in 1 .. Len(events) : SaysOne(events[k])
    BY <1>2 DEF UartTypes
  <2>2. 1 \in 1 .. Len(events) /\ \A i \in 1 .. Len(rest) : i + 1 \in 1 .. Len(events)
    BY <1>3
  <2> QED BY <2>1, <2>2, <1>3
<1>6. UartTypes'
  <2>1. Len(events') <= QueueLength /\ events' \in Seq(EventSet)
    <3>1. Len(events) <= QueueLength /\ QueueLength \in Nat
      BY <1>2 DEF UartTypes, Uart!UartAssumption
    <3> QED BY <3>1, <1>1, <1>3
  <2>2. \A k \in 1 .. Len(events') : SaysOne(events'[k])
    BY <1>1, <1>5
  <2>3. read' \in EventSet /\ SaysOne(read') /\ tpc' = "count"
    BY <1>1, <1>3, <1>5
  <2> QED BY <1>1, <1>2, <2>1, <2>2, <2>3 DEF UartTypes, SaysOne
<1>7. ASSUME blind' = {} PROVE UartParts'
  <2>1. CountsOrder /\ EventsInOrder /\ GotInOrder /\ UnsaidIsDue /\ Placed /\ Kept
    BY <1>1, <1>7 DEF UartInv, UartParts
  <2>2. /\ Counted \in Nat /\ LastChunk \in Nat /\ Ahead \in Int /\ Len(events) \in Nat /\ QueueLength \in Nat \ {0}
        /\ received \in Nat /\ pushed \in Nat /\ suspect \in Nat /\ unsaid \in SUBSET LossSet
        /\ events \in Seq(EventSet) /\ \A k \in 1 .. Len(events) : SaysOne(events[k])
    BY <1>2, CountsTyped DEF UartTypes
  <2>3. /\ Counted = pushed /\ LastChunk = chunk
        /\ Counted' = pushed + e.size /\ LastChunk' = IF e.kind = "data" THEN pushed ELSE chunk
    BY <1>1 DEF Counted, LastChunk
  <2>4. Queued = Len(events) /\ Queued' = Len(rest) + 1 /\ Queued' = Queued
    BY <1>1, <1>3, <2>2 DEF Queued
  <2>5. Ahead' = Ahead - 1
    BY <1>1, <1>3, <2>2, <2>4 DEF Ahead
  <2>6. PICK s : InOrder(s, events, pushed, received, chunk) /\ AheadOf(s, events, Ahead, unsaid)
    BY <2>1, <2>3 DEF EventsInOrder
  <2>7. /\ \E t : InOrder(t, rest, Counted', received, LastChunk') /\ AheadOf(t, rest, Ahead - 1, unsaid)
        /\ Counted' <= received
        /\ Ahead >= 1 => \A l \in unsaid : Counted' <= l.at
        /\ \A l \in e.of : /\ e.kind = "overflow" => pushed <= l.at
                           /\ e.kind = "bad" => chunk < l.at
    <3>1. chunk \in Nat
      BY <1>2 DEF UartTypes
    <3> DEFINE ahead == Ahead
    <3>2. ahead \in Int /\ AheadOf(s, events, ahead, unsaid)
      BY <2>2, <2>6
    <3> HIDE DEF ahead
    <3>3. /\ \E t : /\ InOrder(t, rest, pushed + e.size, received, IF e.kind = "data" THEN pushed ELSE chunk)
                    /\ AheadOf(t, rest, ahead - 1, unsaid)
          /\ pushed + e.size <= received
          /\ ahead >= 1 => \A l \in unsaid : pushed + e.size <= l.at
          /\ \A l \in e.of : /\ e.kind = "overflow" => pushed <= l.at
                             /\ e.kind = "bad" => chunk < l.at
      BY <1>1, <2>2, <2>6, <3>1, <3>2, OrderedTail DEF e, rest
    <3> QED BY <3>3, <2>3 DEF ahead
  <2>8. unsaid # {} => Ahead >= 1
    <3> HAVE unsaid # {}
    <3>1. Queued >= QueueLength \/ suspect > 0
      BY <2>1 DEF UnsaidIsDue
    <3> QED BY <3>1, <1>1, <1>3, <2>2, <2>4 DEF Ahead
  <2>9. CountsOrder'
    BY <1>1, <2>1, <2>4, <2>7 DEF CountsOrder
  <2>10. EventsInOrder'
    BY <1>1, <2>5, <2>7 DEF EventsInOrder
  <2>11. GotInOrder'
    BY <1>1, <2>7 DEF GotInOrder
  <2>12. UnsaidIsDue'
    BY <1>1, <2>1, <2>4, <2>7, <2>8 DEF UnsaidIsDue
  <2>13. Coming' = Coming
    <3>1. read.of = {}
      BY <1>2 DEF Uart!Quiet
    <3> QED BY <3>1, <1>1, <1>4 DEF Coming
  <2>14. Placed' /\ Kept'
    BY <1>1, <2>1, <2>13 DEF Placed, Kept
  <2> QED BY <2>9, <2>10, <2>11, <2>12, <2>14 DEF UartParts
<1> QED BY <1>6, <1>7 DEF UartInv

\* The event taken is counted, and a full queue's drop placed once its events are.
LEMMA CountKeeps ==
  ASSUME Uart!UartAssumption, UartInv, Uart!Count
  PROVE  UartInv'
<1> DEFINE s == Uart!queueFull(Len(events) + 1)
<1>1. /\ tpc = "count" /\ read' = Uart!Quiet /\ Uart!event(read, s) /\ tpc' \in {"take", "taken"}
      /\ (unpublished' = unpublished + 1 \/ unpublished' = 0)
      /\ UNCHANGED <<received, losses, events, sawTaken, sawHeld, limit, blind>>
      /\ UNCHANGED <<stopping, rpc, rlimit, pending, taken, marked>>
  BY DEF Uart!Count, Uart!pollVars, Uart!readVars
<1>2. UartTypes
  BY DEF UartInv
<1>3. /\ read \in EventSet /\ SaysOne(read) /\ read.size \in Nat
      /\ Len(events) \in Nat /\ QueueLength \in Nat \ {0} /\ suspect \in Nat /\ pushed \in Nat /\ chunk \in Nat
      /\ limit \in Nat /\ rlimit \in Nat /\ Len(events) <= QueueLength /\ unsaid \subseteq LossSet
      /\ read.of \subseteq LossSet
  BY <1>1, <1>2, CountsTyped DEF UartTypes, EventSet
<1>4. /\ Queued = Len(events) + 1 /\ Queued' = Len(events)
      /\ Ahead = IF Len(events) + 1 >= QueueLength THEN Len(events) ELSE suspect - 1
      /\ Ahead' = IF Len(events) >= QueueLength THEN Len(events) ELSE suspect'
      /\ Counted = pushed + read.size /\ Counted' = pushed'
      /\ LastChunk = (IF read.kind = "data" THEN pushed ELSE chunk) /\ LastChunk' = chunk'
  <2>1. tpc' # "count" /\ events' = events
    BY <1>1
  <2>2. Queued = Len(events) + 1 /\ Queued' = Len(events)
    BY <1>1, <1>3, <2>1 DEF Queued
  <2>3. /\ Ahead = IF Len(events) + 1 >= QueueLength THEN Len(events) ELSE suspect - 1
        /\ Ahead' = IF Len(events) >= QueueLength THEN Len(events) ELSE suspect' - 0
    BY <1>1, <2>1, <2>2 DEF Ahead
  <2>4. s = 0 \/ s # 0
    OBVIOUS
  <2>5. suspect' = IF s = 0 THEN 0 ELSE s - 1
    BY <1>1 DEF Uart!event
  <2>6. s \in Nat
    BY <1>3 DEF Uart!queueFull
  <2>7. suspect' - 0 = suspect'
    <3> HIDE DEF s
    <3> DEFINE z == suspect'
    <3>1. z \in Int
      BY <2>5, <2>6
    <3> HIDE DEF z
    <3>2. z - 0 = z
      BY <3>1
    <3> QED BY <3>2 DEF z
  <2> QED BY <1>1, <2>1, <2>2, <2>3, <2>7 DEF Counted, LastChunk
<1>5. s \in Nat /\ s = IF Len(events) + 1 >= QueueLength /\ Len(events) + 1 > suspect THEN Len(events) + 1 ELSE suspect
  BY <1>3 DEF Uart!queueFull
<1> HIDE DEF s
<1>6. /\ pushed' = pushed + read.size /\ pushed' \in Nat
      /\ chunk' = IF read.kind = "data" THEN pushed ELSE chunk
      /\ suspect' = IF s = 0 THEN 0 ELSE s - 1
      /\ unsaid' = IF s = 1 THEN {} ELSE unsaid
  BY <1>1, <1>2, <1>3, <1>5, EventTells
<1>7. /\ hold' \in HeldSet /\ ring' \in Seq(PlaceSet)
      /\ hold'.of \subseteq hold.of \union read.of \union (IF s = 1 THEN unsaid ELSE {})
      /\ hold'.of \union OfAll(ring') =
           hold.of \union OfAll(ring) \union read.of \union (IF s = 1 THEN unsaid ELSE {})
      /\ /\ PlacesInTime(ring) /\ \A l \in hold.of : hold.at <= l.at
         /\ \A l \in read.of :
                 /\ read.kind = "overflow" => pushed <= l.at
                 /\ read.kind = "bad" => chunk < l.at /\ limit <= l.at
         /\ s = 1 => \A l \in unsaid : pushed' <= l.at
         => PlacesInTime(ring') /\ \A l \in hold'.of : hold'.at <= l.at
      /\ (hold # Uart!None => limit <= hold.at /\ hold.at <= pushed) /\ limit <= pushed /\ chunk <= pushed
         => (hold' # Uart!None => limit <= hold'.at /\ hold'.at <= pushed')
  <2>1. EventKept(read, s)
    BY <1>1, <1>2, <1>3, <1>5, EventKeeps
  <2> QED BY ONLY <2>1 DEF EventKept
<1>8. chunk' \in Nat /\ suspect' \in Nat
  BY <1>3, <1>5, <1>6
<1>9. UartTypes'
  <2>1. unpublished' \in Nat /\ unsaid' \subseteq LossSet
    BY <1>1, <1>2, <1>3, <1>6 DEF UartTypes
  <2>2. tpc' # "count" /\ tpc' \in {"take", "count", "taken", "held", "check", "publish", "ended"}
    BY <1>1
  <2> QED BY <1>1, <1>2, <1>6, <1>7, <1>8, <2>1, <2>2 DEF UartTypes, SaysOne
<1>10. ASSUME blind' = {} PROVE UartParts'
  <2>1. CountsOrder /\ EventsInOrder /\ GotInOrder /\ UnsaidIsDue /\ Placed /\ Kept
    BY <1>1, <1>10 DEF UartInv, UartParts
  <2>2. suspect <= Len(events) + 1 /\ chunk <= pushed /\ limit <= pushed /\ rlimit <= limit
    BY <1>4, <2>1 DEF CountsOrder
  <2>3. Counted' = Counted /\ LastChunk' = LastChunk
    BY <1>4, <1>6
  <2>4. /\ s = 0 => unsaid = {}
        /\ s >= 1 => Ahead' = Ahead
        /\ suspect' <= Len(events)
    <3>1. unsaid # {} => Len(events) + 1 >= QueueLength \/ suspect > 0
      BY <1>4, <2>1 DEF UnsaidIsDue
    <3>2. s = 0 => unsaid = {}
      BY <1>3, <1>5, <2>2, <3>1
    <3>3. s >= 1 => Ahead' = Ahead
      BY <1>3, <1>4, <1>5, <1>6, <2>2
    <3>4. suspect' <= Len(events)
      BY <1>3, <1>5, <1>6, <2>2
    <3> QED BY <3>2, <3>3, <3>4
  <2>5. \A l \in unsaid : pushed' <= l.at
    BY <1>4, <1>6, <2>1 DEF UnsaidIsDue
  <2>6. \A l \in read.of \union OfAll(events) \union unsaid \union hold.of : limit <= l.at
    BY <2>1 DEF Placed, Coming
  <2>7. hold' # Uart!None => limit <= hold'.at /\ hold'.at <= pushed'
    BY <1>7, <2>1, <2>2 DEF CountsOrder
  <2>8. PlacesInTime(ring') /\ \A l \in hold'.of : hold'.at <= l.at
    <3>1. PlacesInTime(ring) /\ \A l \in hold.of : hold.at <= l.at
      BY <2>1 DEF Placed
    <3>2. \A l \in read.of :
            /\ read.kind = "overflow" => pushed <= l.at
            /\ read.kind = "bad" => chunk < l.at /\ limit <= l.at
      BY <2>1, <2>6 DEF GotInOrder
    <3> QED BY <3>1, <3>2, <2>5, <1>7
  <2>9. CountsOrder'
    <3>1. tpc' # "held" /\ tpc' # "check"
      BY <1>1
    <3>2. chunk' <= pushed' /\ limit <= pushed'
      BY <1>3, <1>6, <2>2
    <3>3. suspect' <= Queued'
      BY <1>4, <2>4
    <3> QED BY <1>1, <2>1, <2>3, <2>7, <3>1, <3>2, <3>3 DEF CountsOrder
  <2>10. EventsInOrder'
    <3>1. PICK t : InOrder(t, events, Counted, received, LastChunk) /\ AheadOf(t, events, Ahead, unsaid)
      BY <2>1 DEF EventsInOrder
    <3>2. AheadOf(t, events, Ahead', unsaid')
      <4>1. CASE s >= 2
        BY <4>1, <1>5, <1>6, <2>4, <3>1
      <4>2. CASE ~(s >= 2)
        <5>1. unsaid' = {}
          <6>1. s = 0 \/ s = 1
            BY <4>2, <1>5
          <6> QED BY <6>1, <1>6, <2>4
        <5> QED BY <5>1 DEF AheadOf
      <4> QED BY <4>1, <4>2
    <3> QED BY <3>1, <3>2, <2>3, <1>1 DEF EventsInOrder
  <2>11. GotInOrder'
    BY <1>1 DEF GotInOrder, Uart!Quiet
  <2>12. UnsaidIsDue'
    <3>1. unsaid' \subseteq unsaid
      BY <1>6
    <3>2. unsaid' # {} => suspect' > 0
      BY <1>5, <1>6, <2>4
    <3> QED BY <3>1, <3>2, <2>1, <2>3 DEF UnsaidIsDue
  <2>13. /\ Coming' = OfAll(events) \union unsaid'
         /\ Coming = read.of \union OfAll(events) \union unsaid
    <3>1. Uart!Quiet.of = {}
      BY DEF Uart!Quiet
    <3> QED BY <3>1, <1>1 DEF Coming
  <2>14. Placed'
    <3>1. \A l \in Coming' \union hold'.of : limit <= l.at
      <4>1. Coming' \union hold'.of \subseteq read.of \union OfAll(events) \union unsaid \union hold.of
        BY <1>6, <1>7, <2>13
      <4> QED BY <4>1, <2>6
    <3>2. rpc = "take" => \A l \in OfAll(ring') : rlimit <= l.at
      <4> SUFFICES ASSUME rpc = "take", NEW l \in OfAll(ring') PROVE rlimit <= l.at
        OBVIOUS
      <4>1. l \in OfAll(ring) \/ l \in hold.of \union read.of \union unsaid
        BY <1>7
      <4>2. CASE l \in OfAll(ring)
        BY <4>2, <2>1 DEF Placed
      <4>3. CASE l \in hold.of \union read.of \union unsaid
        <5>1. limit <= l.at
          BY <4>3, <2>6
        <5>2. l \in LossSet
          BY <4>3, <1>2, <1>3 DEF UartTypes, HeldSet, PlaceSet
        <5> QED BY <5>1, <5>2, <1>3, <2>2 DEF LossSet
      <4> QED BY <4>1, <4>2, <4>3
    <3> QED BY <3>1, <3>2, <2>1, <2>8, <1>1 DEF Placed
  <2>15. Kept'
    <3> SUFFICES ASSUME NEW l \in losses' \ marked'
                 PROVE  /\ taken' <= l.at
                        /\ l \in Coming' \union hold'.of \union OfAll(ring') \union OfAll(pending')
      BY DEF Kept
    <3>1. taken <= l.at /\ l \in Coming \union hold.of \union OfAll(ring) \union OfAll(pending)
      BY <1>1, <2>1 DEF Kept
    <3> QED BY <3>1, <1>1, <1>6, <1>7, <2>13
  <2> QED BY <2>9, <2>10, <2>11, <2>12, <2>14, <2>15 DEF UartParts
<1> QED BY <1>9, <1>10 DEF UartInv

\* A step of the task that tells the ledger nothing.
LEMMA TaskKeeps ==
  ASSUME Uart!UartAssumption, UartInv,
         tpc # "count", tpc' \in {"taken", "held", "check", "publish"}, unpublished' \in Nat,
         UNCHANGED <<received, losses, events, unsaid, read>>, sawTaken' \in Nat, sawHeld' \in Int,
         UNCHANGED <<pushed, chunk, suspect, hold, limit, ring, blind, rpc, rlimit, pending, taken, marked>>,
         blind = {} => /\ (tpc' = "held" => sawTaken' <= taken)
                       /\ (tpc' = "check" => sawTaken' + sawHeld' <= received)
  PROVE  UartInv'
<1>1. UartTypes /\ read = Uart!Quiet
  BY DEF UartInv, UartTypes
<1>2. UartTypes'
  BY <1>1 DEF UartTypes, SaysOne
<1>3. ASSUME blind' = {} PROVE UartParts'
  <2>1. CountsOrder /\ EventsInOrder /\ GotInOrder /\ UnsaidIsDue /\ Placed /\ Kept
    BY <1>3 DEF UartInv, UartParts
  <2>2. tpc' # "count"
    OBVIOUS
  <2>3. Counted' = Counted /\ LastChunk' = LastChunk /\ Queued' = Queued
    BY <2>2 DEF Counted, LastChunk, Queued
  <2>4. Ahead' = Ahead
    BY <2>2, <2>3 DEF Ahead
  <2>5. Coming' = Coming
    BY DEF Coming
  <2>6. CountsOrder'
    BY <1>3, <2>1, <2>3 DEF CountsOrder
  <2>7. EventsInOrder'
    BY <2>1, <2>3, <2>4 DEF EventsInOrder
  <2>8. GotInOrder' /\ UnsaidIsDue'
    BY <2>1, <2>3 DEF GotInOrder, UnsaidIsDue
  <2>9. Placed' /\ Kept'
    BY <2>1, <2>5 DEF Placed, Kept
  <2> QED BY <2>6, <2>7, <2>8, <2>9 DEF UartParts
<1> QED BY <1>2, <1>3 DEF UartInv

\* The wait in vain, and the counts of loop() and the driver looked at.
LEMMA SeesKeeps ==
  ASSUME Uart!UartAssumption, UartInv, Uart!Waited \/ Uart!SeeTaken \/ Uart!SeeHeld
  PROVE  UartInv'
<1>1. UartTypes
  BY DEF UartInv
<1>2. CASE Uart!Waited
  <2>1. /\ tpc = "take" /\ tpc' = "taken" /\ unpublished' = 0 /\ UNCHANGED <<sawTaken, sawHeld>>
        /\ UNCHANGED <<received, losses, events, unsaid, read>>
        /\ UNCHANGED <<pushed, chunk, suspect, hold, limit, ring, blind, rpc, rlimit, pending, taken, marked>>
    BY <1>2 DEF Uart!Waited, Uart!driverVars, Uart!ledgerVars, Uart!pollVars, Uart!readVars
  <2>2. sawTaken' \in Nat /\ sawHeld' \in Int /\ unpublished' \in Nat
    BY <1>1, <2>1 DEF UartTypes
  <2> QED BY <2>1, <2>2, TaskKeeps
<1>3. CASE Uart!SeeTaken
  <2>1. /\ tpc = "taken" /\ tpc' = "held" /\ sawTaken' = taken /\ UNCHANGED <<unpublished, sawHeld>>
        /\ UNCHANGED <<received, losses, events, unsaid, read>>
        /\ UNCHANGED <<pushed, chunk, suspect, hold, limit, ring, blind, rpc, rlimit, pending, taken, marked>>
    BY <1>3 DEF Uart!SeeTaken, Uart!driverVars, Uart!ledgerVars, Uart!pollVars, Uart!readVars
  <2>2. sawTaken' \in Nat /\ sawHeld' \in Int /\ unpublished' \in Nat /\ sawTaken' <= taken
    BY <1>1, <2>1 DEF UartTypes
  <2> QED BY <2>1, <2>2, TaskKeeps
<1>4. CASE Uart!SeeHeld
  <2>1. /\ tpc = "held" /\ tpc' = "check" /\ sawHeld' = received - taken /\ UNCHANGED <<unpublished, sawTaken>>
        /\ UNCHANGED <<received, losses, events, unsaid, read>>
        /\ UNCHANGED <<pushed, chunk, suspect, hold, limit, ring, blind, rpc, rlimit, pending, taken, marked>>
    BY <1>4 DEF Uart!SeeHeld, Uart!driverVars, Uart!ledgerVars, Uart!pollVars, Uart!readVars
  <2>2. sawTaken' \in Nat /\ sawHeld' \in Int /\ unpublished' \in Nat /\ received \in Nat /\ taken \in Nat
    BY <1>1, <2>1 DEF UartTypes
  <2>3. blind = {} => sawTaken' + sawHeld' <= received
    <3> HAVE blind = {}
    <3>1. sawTaken <= taken /\ sawTaken \in Nat
      BY <1>1, <2>1 DEF UartInv, UartParts, CountsOrder, UartTypes
    <3>2. sawTaken' = sawTaken /\ sawHeld' = received - taken
      BY <2>1
    <3>3. sawTaken + (received - taken) <= received
      BY <2>2, <3>1
    <3> QED BY <3>2, <3>3
  <2> QED BY <2>1, <2>2, <2>3, TaskKeeps
<1> QED BY <1>2, <1>3, <1>4

\* No event waits: what was received and never counted is told of where publishing stopped.
LEMMA CheckKeeps ==
  ASSUME Uart!UartAssumption, UartInv, Uart!Check
  PROVE  UartInv'
<1> DEFINE seen == sawTaken + sawHeld
           now == [hold |-> hold, ring |-> ring]
           dropped == seen > pushed
           p == Uart!Place(limit, IF dropped /\ ~suspected THEN unsaid ELSE {})
           end == IF dropped /\ ~suspected THEN Uart!add(now, Uart!Place(limit, unsaid)) ELSE now
<1>1. /\ tpc = "check" /\ tpc' = "publish" /\ sawTaken' = 0 /\ sawHeld' = 0
      /\ UNCHANGED <<received, losses, events, read, unpublished, suspect, limit, blind>>
      /\ UNCHANGED <<stopping, rpc, rlimit, pending, taken, marked>>
  BY DEF Uart!Check, Uart!pollVars, Uart!readVars
<1>2. UartTypes
  BY DEF UartInv
<1>3. /\ pushed \in Nat /\ chunk \in Nat /\ limit \in Nat /\ suspect \in Nat /\ rlimit \in Nat
      /\ unsaid \subseteq LossSet /\ hold \in HeldSet /\ ring \in Seq(PlaceSet) /\ seen \in Int
      /\ unpublished \in Nat /\ QueueLength \in Nat \ {0} /\ read = Uart!Quiet
  BY <1>1, <1>2, CountsTyped DEF UartTypes
<1>4. CASE events # <<>>
  <2>1. UNCHANGED <<pushed, chunk, unsaid, hold, ring>>
    BY <1>4 DEF Uart!Check
  <2>2. tpc # "count" /\ tpc' \in {"taken", "held", "check", "publish"} /\ tpc' # "held" /\ tpc' # "check"
    BY <1>1
  <2>3. sawTaken' \in Nat /\ sawHeld' \in Int /\ unpublished' \in Nat
    BY <1>1, <1>3
  <2> QED BY <1>1, <2>1, <2>2, <2>3, TaskKeeps
<1>5. CASE events = <<>>
  <2>1. /\ pushed' = IF dropped THEN seen ELSE pushed
        /\ chunk' = IF dropped THEN pushed ELSE chunk
        /\ unsaid' = IF dropped /\ ~suspected THEN {} ELSE unsaid
        /\ hold' = end.hold /\ ring' = end.ring
    BY <1>5 DEF Uart!Check, Uart!check
  <2>2. now \in LedgerSet /\ now.hold = hold /\ now.ring = ring
    BY <1>3 DEF LedgerSet
  <2>3. p \in PlaceSet /\ p.at = limit /\ p.at >= 0 /\ p.of \subseteq unsaid
    BY <1>3 DEF Uart!Place, PlaceSet
  <2>4. Told(now, p, end) /\ end \in LedgerSet
    <3> HIDE DEF now, dropped
    <3>1. CASE dropped /\ ~suspected
      <4>1. end = Uart!add(now, p)
        BY <3>1
      <4> HIDE DEF end, p
      <4>2. Told(now, p, end)
        BY <4>1, <2>2, <2>3, AddTells
      <4> QED BY <4>2 DEF Told
    <3>2. CASE ~(dropped /\ ~suspected)
      <4>1. end = now /\ p.of = {}
        BY <3>2 DEF Uart!Place
      <4> HIDE DEF end, p
      <4> QED BY <4>1, <2>2, NoneTells
    <3> QED BY <3>1, <3>2
  <2> HIDE DEF now, end, p
  <2>5. pushed' \in Nat /\ chunk' \in Nat /\ pushed <= pushed'
    BY <1>3, <2>1
  <2>6. hold' \in HeldSet /\ ring' \in Seq(PlaceSet)
    BY <2>1, <2>4 DEF LedgerSet
  <2>7. UartTypes'
    <3>1. unsaid' \subseteq LossSet
      BY <1>3, <2>1
    <3>2. tpc' # "count" /\ tpc' \in {"take", "count", "taken", "held", "check", "publish", "ended"}
          /\ sawTaken' \in Nat /\ sawHeld' \in Int
      BY <1>1
    <3> QED BY <1>1, <1>2, <1>3, <2>5, <2>6, <3>1, <3>2 DEF UartTypes, SaysOne
  <2>8. ASSUME blind' = {} PROVE UartParts'
    <3>1. CountsOrder /\ EventsInOrder /\ GotInOrder /\ UnsaidIsDue /\ Placed /\ Kept
      BY <1>1, <2>8 DEF UartInv, UartParts
    <3>2. Len(events) = 0
      BY <1>5
    <3>3. Queued = 0 /\ Queued' = 0
      <4>1. tpc # "count" /\ tpc' # "count" /\ events' = events
        BY <1>1
      <4> QED BY <4>1, <3>2 DEF Queued
    <3>4. unsaid = {} /\ unsaid' = {}
      <4>1. ~(Queued >= QueueLength) /\ ~(suspect > 0)
        BY <1>3, <3>1, <3>3 DEF CountsOrder
      <4> QED BY <4>1, <3>1, <2>1 DEF UnsaidIsDue
    <3>5. p.of = {}
      BY <2>3, <3>4
    <3>6. hold'.of \union OfAll(ring') = hold.of \union OfAll(ring) /\ hold'.of \subseteq hold.of
      BY <2>1, <2>2, <2>4, <3>5 DEF Told
    <3>7. Counted = pushed /\ Counted' = pushed'
      BY <1>1 DEF Counted
    <3>8. /\ limit <= pushed /\ chunk <= pushed /\ pushed <= received /\ seen <= received
          /\ rlimit <= limit
      BY <1>1, <3>1, <3>7 DEF CountsOrder
    <3>9. pushed' <= received /\ chunk' <= pushed' /\ limit <= pushed'
      BY <1>3, <2>1, <2>5, <3>8
    <3>10. hold' # Uart!None => limit <= hold'.at /\ hold'.at <= pushed'
      <4>1. hold # Uart!None => limit <= hold.at /\ hold.at <= pushed'
        <5> HAVE hold # Uart!None
        <5>1. limit <= hold.at /\ hold.at <= pushed /\ hold.at \in Int
          BY <1>3, <3>1 DEF CountsOrder, HeldSet, PlaceSet
        <5> QED BY <5>1, <1>3, <2>5
      <4>2. limit <= p.at /\ p.at <= pushed'
        BY <1>3, <2>3, <3>9
      <4> QED BY <1>3, <2>1, <2>2, <2>4, <2>5, <4>1, <4>2 DEF Told
    <3>11. PlacesInTime(ring') /\ \A l \in hold'.of : hold'.at <= l.at
      <4>1. PlacesInTime(ring) /\ \A l \in hold.of : hold.at <= l.at
        BY <3>1 DEF Placed
      <4> QED BY <4>1, <3>5, <2>1, <2>2, <2>4 DEF Told
    <3>12. CountsOrder'
      <4>1. tpc' # "held" /\ tpc' # "check"
        BY <1>1
      <4> QED BY <1>1, <3>1, <3>3, <3>7, <3>9, <3>10, <4>1 DEF CountsOrder
    <3>13. EventsInOrder'
      <4> DEFINE t == [k \in 1 .. Len(events) |-> 0]
      <4>1. events' = <<>> /\ 1 .. Len(events') = {}
        BY <1>1, <1>5
      <4>2. t \in [1 .. Len(events') -> Nat]
        BY <1>1
      <4>3. InOrder(t, events', Counted', received', LastChunk')
        BY <4>1, <4>2 DEF InOrder
      <4>4. AheadOf(t, events', Ahead', unsaid')
        BY <4>1 DEF AheadOf
      <4> QED BY <4>3, <4>4 DEF EventsInOrder
    <3>14. GotInOrder' /\ UnsaidIsDue'
      BY <1>1, <1>3, <3>4 DEF GotInOrder, UnsaidIsDue, Uart!Quiet
    <3>15. Coming' = Coming
      BY <1>1, <3>4 DEF Coming
    <3>16. Placed'
      <4>1. \A l \in Coming' \union hold'.of : limit <= l.at
        BY <3>1, <3>6, <3>15 DEF Placed
      <4>2. rpc = "take" => \A l \in OfAll(ring') : rlimit <= l.at
        <5> SUFFICES ASSUME rpc = "take", NEW l \in OfAll(ring') PROVE rlimit <= l.at
          OBVIOUS
        <5>1. l \in OfAll(ring) \/ l \in hold.of
          BY <3>6
        <5>2. CASE l \in OfAll(ring)
          BY <5>2, <3>1 DEF Placed
        <5>3. CASE l \in hold.of
          <6>1. limit <= l.at
            BY <5>3, <3>1 DEF Placed
          <6>2. l \in LossSet
            BY <5>3, <1>3 DEF HeldSet, PlaceSet
          <6> QED BY <6>1, <6>2, <1>3, <3>8 DEF LossSet
        <5> QED BY <5>1, <5>2, <5>3
      <4> QED BY <4>1, <4>2, <3>1, <3>11, <1>1 DEF Placed
    <3>17. Kept'
      BY <3>1, <3>6, <3>15, <1>1 DEF Kept
    <3> QED BY <3>12, <3>13, <3>14, <3>16, <3>17 DEF UartParts
  <2> QED BY <2>7, <2>8 DEF UartInv
<1> QED BY <1>4, <1>5

\* What was counted is published: the reader may go up to it, or to the place held.
LEMMA PublishKeeps ==
  ASSUME Uart!UartAssumption, UartInv, Uart!publish,
         tpc \in {"take", "publish"}, tpc' \in {"take", "ended"},
         UNCHANGED <<received, losses, events, unsaid, read, unpublished, sawTaken, sawHeld>>,
         UNCHANGED <<pushed, chunk, suspect, rpc, rlimit, pending, taken, marked>>,
         blind' = {} => blind = {} /\ events = <<>>
  PROVE  UartInv'
<1> DEFINE give == hold # Uart!None /\ Uart!room(ring)
<1>1. /\ ring' = IF give THEN Append(ring, hold) ELSE ring
      /\ hold' = IF give THEN Uart!None ELSE hold
      /\ limit' = IF hold # Uart!None /\ ~give THEN hold.at ELSE pushed
  BY DEF Uart!publish
<1>2. UartTypes /\ read = Uart!Quiet
  BY DEF UartInv, UartTypes
<1>3. /\ pushed \in Nat /\ limit \in Nat /\ suspect \in Nat /\ rlimit \in Nat /\ QueueLength \in Nat \ {0}
      /\ hold \in HeldSet /\ hold \in PlaceSet /\ ring \in Seq(PlaceSet) /\ hold.at \in Int
      /\ (hold # Uart!None => hold.at \in Nat) /\ \A l \in hold.of : l.at \in Nat
  BY <1>2, CountsTyped DEF UartTypes, HeldSet, PlaceSet, LossSet
<1>4. Uart!None \in HeldSet /\ Uart!None.of = {}
  BY DEF Uart!None, Uart!Place, HeldSet, PlaceSet
<1>5. /\ hold' \in HeldSet /\ ring' \in Seq(PlaceSet) /\ limit' \in Nat
      /\ hold'.of \union OfAll(ring') = hold.of \union OfAll(ring)
      /\ (hold' # Uart!None => hold' = hold /\ limit' = hold.at) /\ (hold' = Uart!None => limit' = pushed)
  <2>1. CASE give
    <3>1. ring' = Append(ring, hold) /\ hold' = Uart!None /\ limit' = pushed
      BY <1>1, <2>1
    <3>2. ring' \in Seq(PlaceSet)
      BY <1>3, <3>1, AppendOf
    <3>3. OfAll(ring') = OfAll(ring) \union hold.of
      BY <1>3, <3>1, OfAppend
    <3> QED BY <1>3, <1>4, <3>1, <3>2, <3>3
  <2>2. CASE ~give
    BY <1>1, <1>3, <2>2
  <2> QED BY <2>1, <2>2
<1>6. UartTypes'
  <2>1. tpc' # "count" /\ tpc' \in {"take", "count", "taken", "held", "check", "publish", "ended"}
    OBVIOUS
  <2> QED BY <1>2, <1>5, <2>1 DEF UartTypes, SaysOne
<1>7. ASSUME blind' = {} PROVE UartParts'
  <2>1. CountsOrder /\ EventsInOrder /\ GotInOrder /\ UnsaidIsDue /\ Placed /\ Kept /\ events = <<>>
    BY <1>7 DEF UartInv, UartParts
  <2>2. tpc # "count" /\ tpc' # "count"
    OBVIOUS
  <2>3. Counted' = Counted /\ LastChunk' = LastChunk /\ Queued' = Queued /\ Queued = 0 /\ Counted = pushed
    <3>1. Len(events) = 0
      BY <2>1
    <3> QED BY <2>2, <3>1 DEF Counted, LastChunk, Queued
  <2>4. Ahead' = Ahead
    BY <2>2, <2>3 DEF Ahead
  <2>5. unsaid = {}
    <3>1. ~(Queued >= QueueLength) /\ ~(suspect > 0)
      BY <1>3, <2>1, <2>3 DEF CountsOrder
    <3> QED BY <3>1, <2>1 DEF UnsaidIsDue
  <2>6. Coming = {} /\ Coming' = {}
    BY <1>2, <2>1, <2>5, OfNone DEF Coming, Uart!Quiet
  <2>7. limit <= pushed /\ rlimit <= limit /\ (hold # Uart!None => limit <= hold.at /\ hold.at <= pushed)
    BY <2>1 DEF CountsOrder
  <2>8. /\ limit <= limit' /\ limit' <= pushed /\ rlimit <= limit'
        /\ (hold' # Uart!None => limit' <= hold'.at /\ hold'.at <= pushed)
    <3>1. CASE hold' = Uart!None
      BY <3>1, <1>3, <1>5, <2>7
    <3>2. CASE hold' # Uart!None
      <4>1. hold' = hold /\ limit' = hold.at /\ hold # Uart!None
        BY <3>2, <1>5
      <4> QED BY <4>1, <1>3, <2>7
    <3> QED BY <3>1, <3>2
  <2>9. CountsOrder'
    <3>1. tpc' # "held" /\ tpc' # "check"
      OBVIOUS
    <3> QED BY <2>1, <2>3, <2>8, <3>1 DEF CountsOrder
  <2>10. EventsInOrder'
    BY <2>1, <2>3, <2>4 DEF EventsInOrder
  <2>11. GotInOrder' /\ UnsaidIsDue'
    BY <2>1, <2>3, <2>5 DEF GotInOrder, UnsaidIsDue
  <2>12. \A l \in hold'.of : hold'.at <= l.at /\ limit' <= l.at
    <3>1. CASE hold' = Uart!None
      BY <3>1, <1>4
    <3>2. CASE hold' # Uart!None
      <4>1. hold' = hold /\ limit' = hold.at /\ \A l \in hold.of : hold.at <= l.at
        BY <3>2, <1>5, <2>1 DEF Placed
      <4> QED BY <4>1
    <3> QED BY <3>1, <3>2
  <2>13. PlacesInTime(ring')
    <3>1. PlacesInTime(ring) /\ \A l \in hold.of : hold.at <= l.at
      BY <2>1 DEF Placed
    <3>2. CASE give
      BY <3>1, <3>2, <1>1, <1>3, InTimeAppend
    <3>3. CASE ~give
      BY <3>1, <3>3, <1>1
    <3> QED BY <3>2, <3>3
  <2>14. rpc = "take" => \A l \in OfAll(ring') : rlimit <= l.at
    <3> SUFFICES ASSUME rpc = "take", NEW l \in OfAll(ring') PROVE rlimit <= l.at
      OBVIOUS
    <3>1. l \in OfAll(ring) \/ l \in hold.of
      BY <1>5
    <3>2. CASE l \in OfAll(ring)
      BY <3>2, <2>1 DEF Placed
    <3>3. CASE l \in hold.of
      <4>1. limit <= l.at /\ l.at \in Nat
        BY <3>3, <1>3, <2>1 DEF Placed
      <4> QED BY <4>1, <1>3, <2>7
    <3> QED BY <3>1, <3>2, <3>3
  <2>15. Placed'
    BY <2>1, <2>6, <2>12, <2>13, <2>14 DEF Placed
  <2>16. Kept'
    BY <2>1, <2>6, <1>5 DEF Kept
  <2> QED BY <2>9, <2>10, <2>11, <2>15, <2>16 DEF UartParts
<1> QED BY <1>6, <1>7 DEF UartInv

LEMMA PublishesKeeps ==
  ASSUME Uart!UartAssumption, UartInv, Uart!Publish \/ Uart!PublishLast
  PROVE  UartInv'
<1>1. CASE Uart!Publish
  <2>1. /\ tpc = "publish" /\ tpc' = "take" /\ Uart!publish
        /\ UNCHANGED <<received, losses, events, unsaid, read, unpublished, sawTaken, sawHeld>>
        /\ UNCHANGED <<pushed, chunk, suspect, rpc, rlimit, pending, taken, marked>>
        /\ blind' = blind \union IF events # <<>> THEN {"split"} ELSE {}
    BY <1>1 DEF Uart!Publish, Uart!driverVars, Uart!pollVars, Uart!readVars
  <2>2. blind' = {} => blind = {} /\ events = <<>>
    BY <2>1
  <2> QED BY <2>1, <2>2, PublishKeeps
<1>2. CASE Uart!PublishLast
  <2>1. /\ tpc = "take" /\ tpc' = "ended" /\ Uart!publish /\ events = <<>> /\ UNCHANGED blind
        /\ UNCHANGED <<received, losses, events, unsaid, read, unpublished, sawTaken, sawHeld>>
        /\ UNCHANGED <<pushed, chunk, suspect, rpc, rlimit, pending, taken, marked>>
    BY <1>2 DEF Uart!PublishLast, Uart!driverVars, Uart!pollVars, Uart!readVars
  <2>2. blind' = {} => blind = {} /\ events = <<>>
    BY <2>1
  <2> QED BY <2>1, <2>2, PublishKeeps
<1> QED BY <1>1, <1>2

\* stopEvents(): what is still queued is counted; no drop is left to be found.
LEMMA CountLastKeeps ==
  ASSUME Uart!UartAssumption, UartInv, Uart!CountLast
  PROVE  UartInv'
<1> DEFINE e == Head(events)
           rest == Tail(events)
<1>1. /\ tpc = "take" /\ events # <<>> /\ events' = rest /\ Uart!event(e, suspect)
      /\ blind' = blind \union IF unsaid # {} THEN {"stopped"} ELSE {}
      /\ UNCHANGED <<received, losses, tpc, read, unpublished, sawTaken, sawHeld, limit>>
      /\ UNCHANGED <<stopping, rpc, rlimit, pending, taken, marked>>
  BY DEF Uart!CountLast, Uart!taskVars, Uart!pollVars, Uart!readVars
<1>2. UartTypes /\ read = Uart!Quiet
  BY <1>1 DEF UartInv, UartTypes
<1>3. /\ e \in EventSet /\ e = events[1] /\ Len(events) \in Nat \ {0}
      /\ rest \in Seq(EventSet) /\ Len(rest) = Len(events) - 1
      /\ \A i \in 1 .. Len(rest) : i + 1 \in 2 .. Len(events) /\ rest[i] = events[i + 1]
  BY <1>1, <1>2, TailOf DEF UartTypes
<1>4. OfAll(events) = e.of \union OfAll(rest)
  BY <1>1, <1>2, OfTail DEF UartTypes
<1> HIDE DEF e, rest
<1>5. SaysOne(e) /\ \A k \in 1 .. Len(rest) : SaysOne(rest[k])
  <2>1. \A k \in 1 .. Len(events) : SaysOne(events[k])
    BY <1>2 DEF UartTypes
  <2>2. 1 \in 1 .. Len(events) /\ \A i \in 1 .. Len(rest) : i + 1 \in 1 .. Len(events)
    BY <1>3
  <2> QED BY <2>1, <2>2, <1>3
<1>6. /\ suspect \in Nat /\ pushed \in Nat /\ chunk \in Nat /\ limit \in Nat /\ rlimit \in Nat /\ received \in Nat
      /\ unsaid \subseteq LossSet /\ e.size \in Nat /\ e.of \subseteq LossSet
      /\ hold \in HeldSet /\ Len(events) <= QueueLength /\ QueueLength \in Nat
  BY <1>2, <1>3 DEF UartTypes, EventSet, Uart!UartAssumption
<1>7. /\ pushed' = pushed + e.size /\ pushed' \in Nat
      /\ chunk' = IF e.kind = "data" THEN pushed ELSE chunk
      /\ suspect' = IF suspect = 0 THEN 0 ELSE suspect - 1
      /\ unsaid' = IF suspect = 1 THEN {} ELSE unsaid
  BY <1>1, <1>2, <1>3, <1>5, <1>6, EventTells
<1>8. /\ hold' \in HeldSet /\ ring' \in Seq(PlaceSet)
      /\ hold'.of \subseteq hold.of \union e.of \union (IF suspect = 1 THEN unsaid ELSE {})
      /\ hold'.of \union OfAll(ring') =
           hold.of \union OfAll(ring) \union e.of \union (IF suspect = 1 THEN unsaid ELSE {})
      /\ /\ PlacesInTime(ring) /\ \A l \in hold.of : hold.at <= l.at
         /\ \A l \in e.of : /\ e.kind = "overflow" => pushed <= l.at
                            /\ e.kind = "bad" => chunk < l.at /\ limit <= l.at
         /\ suspect = 1 => \A l \in unsaid : pushed' <= l.at
         => PlacesInTime(ring') /\ \A l \in hold'.of : hold'.at <= l.at
      /\ (hold # Uart!None => limit <= hold.at /\ hold.at <= pushed) /\ limit <= pushed /\ chunk <= pushed
         => (hold' # Uart!None => limit <= hold'.at /\ hold'.at <= pushed')
  <2>1. EventKept(e, suspect)
    BY <1>1, <1>2, <1>3, <1>5, <1>6, EventKeeps
  <2> QED BY ONLY <2>1 DEF EventKept
<1>9. chunk' \in Nat /\ suspect' \in Nat
  BY <1>6, <1>7
<1>10. UartTypes'
  <2>1. Len(events') <= QueueLength /\ events' \in Seq(EventSet) /\ unsaid' \subseteq LossSet
    BY <1>1, <1>3, <1>6, <1>7
  <2>2. \A k \in 1 .. Len(events') : SaysOne(events'[k])
    BY <1>1, <1>5
  <2> QED BY <1>1, <1>2, <1>7, <1>8, <1>9, <2>1, <2>2 DEF UartTypes, SaysOne
<1>11. ASSUME blind' = {} PROVE UartParts'
  <2>1. CountsOrder /\ EventsInOrder /\ GotInOrder /\ UnsaidIsDue /\ Placed /\ Kept /\ unsaid = {}
    BY <1>1, <1>11 DEF UartInv, UartParts
  <2>2. unsaid' = {}
    BY <1>7, <2>1
  <2>3. /\ Counted = pushed /\ Counted' = pushed + e.size
        /\ LastChunk = chunk /\ LastChunk' = IF e.kind = "data" THEN pushed ELSE chunk
    BY <1>1, <1>7 DEF Counted, LastChunk
  <2>4. Queued = Len(events) /\ Queued' = Len(rest)
    <3>1. tpc # "count" /\ tpc' # "count"
      BY <1>1
    <3>2. Len(events) \in Nat /\ Len(rest) \in Nat
      BY <1>3
    <3>3. Len(events') = Len(rest)
      BY <1>1
    <3> QED BY <3>1, <3>2, <3>3 DEF Queued
  <2>5. PICK s : InOrder(s, events, pushed, received, chunk)
    BY <2>1, <2>3 DEF EventsInOrder
  <2>6. /\ \E t : InOrder(t, rest, pushed + e.size, received, IF e.kind = "data" THEN pushed ELSE chunk)
        /\ pushed + e.size <= received
        /\ \A l \in e.of : /\ e.kind = "overflow" => pushed <= l.at
                           /\ e.kind = "bad" => chunk < l.at
    <3>1. AheadOf(s, events, 0, {}) /\ {} \in SUBSET LossSet /\ 0 \in Int
      BY DEF AheadOf
    <3>2. events \in Seq(EventSet) /\ \A k \in 1 .. Len(events) : SaysOne(events[k])
      BY <1>2 DEF UartTypes
    <3>3. /\ \E t : /\ InOrder(t, rest, pushed + e.size, received, IF e.kind = "data" THEN pushed ELSE chunk)
                    /\ AheadOf(t, rest, 0 - 1, {})
          /\ pushed + e.size <= received
          /\ \A l \in e.of : /\ e.kind = "overflow" => pushed <= l.at
                             /\ e.kind = "bad" => chunk < l.at
      BY <1>1, <1>6, <2>5, <3>1, <3>2, OrderedTail DEF e, rest
    <3> QED BY <3>3
  <2>7. suspect <= Len(events) /\ chunk <= pushed /\ limit <= pushed /\ rlimit <= limit
    BY <2>1, <2>4 DEF CountsOrder
  <2>8. \A l \in e.of \union OfAll(rest) \union hold.of : limit <= l.at
    BY <1>4, <2>1 DEF Placed, Coming
  <2>9. CountsOrder'
    <3>1. chunk' <= pushed' /\ limit <= pushed' /\ Counted' <= received /\ suspect' <= Queued'
      BY <1>3, <1>6, <1>7, <2>3, <2>4, <2>6, <2>7
    <3>2. hold' # Uart!None => limit <= hold'.at /\ hold'.at <= pushed'
      BY <1>8, <2>1, <2>7 DEF CountsOrder
    <3>3. tpc' # "held" /\ tpc' # "check"
      BY <1>1
    <3> QED BY <1>1, <2>1, <3>1, <3>2, <3>3 DEF CountsOrder
  <2>10. EventsInOrder'
    <3>1. PICK t : InOrder(t, rest, Counted', received, LastChunk')
      BY <2>3, <2>6
    <3>2. AheadOf(t, rest, Ahead', unsaid')
      BY <2>2 DEF AheadOf
    <3> QED BY <1>1, <3>1, <3>2 DEF EventsInOrder
  <2>11. GotInOrder' /\ UnsaidIsDue'
    BY <1>1, <1>2, <2>2 DEF GotInOrder, UnsaidIsDue, Uart!Quiet
  <2>12. Coming = e.of \union OfAll(rest) /\ Coming' = OfAll(rest)
    <3>1. read.of = {}
      BY <1>2 DEF Uart!Quiet
    <3> QED BY <3>1, <1>1, <1>4, <2>1, <2>2 DEF Coming
  <2>13. PlacesInTime(ring') /\ \A l \in hold'.of : hold'.at <= l.at
    <3>1. PlacesInTime(ring) /\ \A l \in hold.of : hold.at <= l.at
      BY <2>1 DEF Placed
    <3>2. \A l \in e.of : /\ e.kind = "overflow" => pushed <= l.at
                          /\ e.kind = "bad" => chunk < l.at /\ limit <= l.at
      BY <2>6, <2>8
    <3> QED BY <3>1, <3>2, <2>1, <1>8
  <2>14. Placed'
    <3>1. \A l \in Coming' \union hold'.of : limit <= l.at
      BY <1>8, <2>1, <2>8, <2>12
    <3>2. rpc = "take" => \A l \in OfAll(ring') : rlimit <= l.at
      <4> SUFFICES ASSUME rpc = "take", NEW l \in OfAll(ring') PROVE rlimit <= l.at
        OBVIOUS
      <4>1. l \in OfAll(ring) \/ l \in hold.of \union e.of
        BY <1>8, <2>1
      <4>2. CASE l \in OfAll(ring)
        BY <4>2, <2>1 DEF Placed
      <4>3. CASE l \in hold.of \union e.of
        <5>1. limit <= l.at
          BY <4>3, <2>8
        <5>2. l \in LossSet
          BY <4>3, <1>6 DEF HeldSet, PlaceSet
        <5> QED BY <5>1, <5>2, <1>6, <2>7 DEF LossSet
      <4> QED BY <4>1, <4>2, <4>3
    <3> QED BY <3>1, <3>2, <2>1, <2>13, <1>1 DEF Placed
  <2>15. Kept'
    BY <2>1, <2>12, <1>1, <1>8 DEF Kept
  <2> QED BY <2>9, <2>10, <2>11, <2>14, <2>15 DEF UartParts
<1> QED BY <1>10, <1>11 DEF UartInv

\* A step of loop(): the driver, the task and what the ledger counts are left alone.
LEMMA LoopKeeps ==
  ASSUME Uart!UartAssumption, UartInv,
         UNCHANGED <<received, losses, events, unsaid, tpc, read, unpublished, sawTaken, sawHeld>>,
         UNCHANGED <<pushed, chunk, suspect, hold, limit>>,
         ring' \in Seq(PlaceSet), pending' \in Seq(PlaceSet), rlimit' \in Nat, taken' \in Nat,
         rpc' \in {"look", "drain", "take", "stopped", "begin"},
         blind' = {} =>
           /\ blind = {} /\ taken <= taken' /\ taken' <= received /\ rlimit' <= limit
           /\ PlacesInTime(ring') /\ PlacesInTime(pending') /\ Sorted(pending')
           /\ rpc' = "take" => \A l \in OfAll(ring') : rlimit' <= l.at
           /\ Kept'
  PROVE  UartInv'
<1>1. UartTypes
  BY DEF UartInv
<1>2. UartTypes'
  BY <1>1 DEF UartTypes, SaysOne
<1>3. ASSUME blind' = {} PROVE UartParts'
  <2>1. CountsOrder /\ EventsInOrder /\ GotInOrder /\ UnsaidIsDue /\ Placed
    BY <1>3 DEF UartInv, UartParts
  <2>2. Counted' = Counted /\ LastChunk' = LastChunk /\ Queued' = Queued
    BY DEF Counted, LastChunk, Queued
  <2>3. Ahead' = Ahead /\ Coming' = Coming
    BY <2>2 DEF Ahead, Coming
  <2>4. tpc = "held" => sawTaken <= taken'
    <3>1. sawTaken \in Nat /\ taken \in Nat
      BY <1>1 DEF UartTypes
    <3>2. tpc = "held" => sawTaken <= taken
      BY <2>1 DEF CountsOrder
    <3> QED BY <3>1, <3>2, <1>3
  <2>5. CountsOrder'
    BY <1>3, <2>1, <2>2, <2>4 DEF CountsOrder
  <2>6. EventsInOrder' /\ GotInOrder' /\ UnsaidIsDue'
    BY <2>1, <2>2, <2>3 DEF EventsInOrder, GotInOrder, UnsaidIsDue
  <2>7. Placed'
    BY <1>3, <2>1, <2>3 DEF Placed
  <2> QED BY <1>3, <2>5, <2>6, <2>7 DEF UartParts
<1> QED BY <1>2, <1>3 DEF UartInv

\* What waits, and what is left of it, are places however they came.
LEMMA WaitsTyped ==
  ASSUME NEW q \in Seq(PlaceSet)
  PROVE  /\ \A x \in PlaceSet : Len(q) < Pending => Uart!addPending(q, x) \in Seq(PlaceSet)
         /\ \A p \in Int : Uart!after(q, p) \in Seq(PlaceSet)
<1>1. ASSUME NEW x \in PlaceSet, Len(q) < Pending PROVE Uart!addPending(q, x) \in Seq(PlaceSet)
  <2> DEFINE n == Uart!reached(q, x.at)
  <2>1. n \in 0 .. Len(q)
    <3>1. x.at \in Int
      BY DEF PlaceSet
    <3> QED BY <3>1, ReachedTyped
  <2>2. Uart!addPending(q, x) = Inserted(q, x, n)
    BY <1>1 DEF Uart!addPending, Uart!before, Uart!after, Inserted
  <2> HIDE DEF n
  <2>3. Inserted(q, x, n) \in Seq(PlaceSet)
    BY <2>1, InsertIs
  <2> QED BY <2>2, <2>3
<1>2. ASSUME NEW p \in Int PROVE Uart!after(q, p) \in Seq(PlaceSet)
  <2> DEFINE n == Uart!reached(q, p)
  <2>1. n \in 0 .. Len(q)
    BY ReachedTyped
  <2>2. Uart!after(q, p) = SubSeq(q, n + 1, Len(q))
    BY DEF Uart!after
  <2> HIDE DEF n
  <2>3. SubSeq(q, n + 1, Len(q)) \in Seq(PlaceSet)
    BY <2>1
  <2> QED BY <2>2, <2>3
<1> QED BY <1>1, <1>2

\* The reader's limit taken, a place taken into what waits, the last of them.
LEMMA DrainKeeps ==
  ASSUME Uart!UartAssumption, UartInv, Uart!Look \/ Uart!Drain \/ Uart!Drained \/ Uart!Stop
  PROVE  UartInv'
<1>1. /\ UartTypes /\ ring \in Seq(PlaceSet) /\ pending \in Seq(PlaceSet)
      /\ rlimit \in Nat /\ taken \in Nat /\ limit \in Nat
      /\ rpc \in {"look", "drain", "take", "stopped", "begin"}
  BY DEF UartInv, UartTypes
<1>2. blind = {} => /\ taken <= taken /\ taken <= received /\ rlimit <= limit /\ limit <= limit
                    /\ PlacesInTime(ring) /\ PlacesInTime(pending) /\ Sorted(pending)
                    /\ (rpc = "take" => \A l \in OfAll(ring) : rlimit <= l.at) /\ Kept
  <2> HAVE blind = {}
  <2>1. CountsOrder /\ Placed /\ Kept
    BY DEF UartInv, UartParts
  <2> QED BY <2>1, <1>1 DEF CountsOrder, Placed
<1>3. CASE Uart!Look
  <2>1. /\ UNCHANGED <<received, losses, events, unsaid, tpc, read, unpublished, sawTaken, sawHeld>>
        /\ UNCHANGED <<pushed, chunk, suspect, hold, limit, ring, blind, pending, taken, marked>>
        /\ rlimit' = limit /\ rpc' = "drain"
    BY <1>3 DEF Uart!Look, Uart!driverVars, Uart!taskVars, Uart!ledgerVars
  <2>2. Kept' <=> Kept
    BY <2>1 DEF Kept, Coming
  <2> QED BY <1>1, <1>2, <2>1, <2>2, LoopKeeps
<1>4. CASE Uart!Drain
  <2> DEFINE x == Head(ring)
  <2>1. /\ UNCHANGED <<received, losses, events, unsaid, tpc, read, unpublished, sawTaken, sawHeld>>
        /\ UNCHANGED <<pushed, chunk, suspect, hold, limit, blind, rpc, rlimit, taken, marked>>
        /\ rpc = "drain" /\ Len(pending) < Pending /\ ring # <<>>
        /\ pending' = Uart!addPending(pending, x) /\ ring' = Tail(ring)
    BY <1>4 DEF Uart!Drain, Uart!driverVars, Uart!taskVars, Uart!ledgerVars
  <2>2. x \in PlaceSet /\ ring' \in Seq(PlaceSet) /\ OfAll(ring) = x.of \union OfAll(ring')
    BY <1>1, <2>1, TailOf, OfTail
  <2> HIDE DEF x
  <2>3. pending' \in Seq(PlaceSet)
    BY <1>1, <2>1, <2>2, WaitsTyped
  <2>4. blind = {} => /\ PlacesInTime(ring') /\ PlacesInTime(pending') /\ Sorted(pending')
                      /\ OfAll(pending') = OfAll(pending) \union x.of
    <3> HAVE blind = {}
    <3>1. PlacesInTime(ring') /\ \A l \in x.of : x.at <= l.at
      BY <1>1, <1>2, <2>1, InTimeTail DEF x
    <3>2. /\ Sorted(Uart!addPending(pending, x)) /\ PlacesInTime(Uart!addPending(pending, x))
          /\ OfAll(Uart!addPending(pending, x)) = OfAll(pending) \union x.of
      BY <1>1, <1>2, <2>1, <2>2, <3>1, PlaceWaits
    <3> QED BY <2>1, <3>1, <3>2
  <2>5. blind = {} => Kept'
    BY <1>2, <2>1, <2>2, <2>4 DEF Kept, Coming
  <2>6. rpc' # "take"
    BY <2>1
  <2> QED BY <1>1, <1>2, <2>1, <2>2, <2>3, <2>4, <2>5, <2>6, LoopKeeps
<1>5. CASE Uart!Drained
  <2>1. /\ UNCHANGED <<received, losses, events, unsaid, tpc, read, unpublished, sawTaken, sawHeld>>
        /\ UNCHANGED <<pushed, chunk, suspect, hold, limit, ring, rlimit, pending, taken, marked>>
        /\ rpc' = "take" /\ blind' = blind \union IF ring # <<>> THEN {"piled"} ELSE {}
    BY <1>5 DEF Uart!Drained, Uart!driverVars, Uart!taskVars, Uart!ledgerVars, Uart!readVars
  <2>2. Kept' <=> Kept
    BY <2>1 DEF Kept, Coming
  <2>3. blind' = {} => blind = {} /\ OfAll(ring') = {}
    BY <2>1, OfNone
  <2> QED BY <1>1, <1>2, <2>1, <2>2, <2>3, LoopKeeps
<1>6. CASE Uart!Stop
  <2>1. /\ UNCHANGED <<received, losses, events, unsaid, tpc, read, unpublished, sawTaken, sawHeld>>
        /\ UNCHANGED <<pushed, chunk, suspect, hold, limit, ring, blind, rpc, rlimit, pending, taken, marked>>
    BY <1>6 DEF Uart!Stop, Uart!driverVars, Uart!taskVars, Uart!ledgerVars, Uart!readVars
  <2>2. Kept' <=> Kept
    BY <2>1 DEF Kept, Coming
  <2> QED BY <1>1, <1>2, <2>1, <2>2, LoopKeeps
<1> QED BY <1>3, <1>4, <1>5, <1>6

\* The places reached are marked, and bytes taken up to the next.
LEMMA TakeKeeps ==
  ASSUME Uart!UartAssumption, UartInv, Uart!Take
  PROVE  UartInv'
<1> DEFINE rest == Uart!after(pending, taken)
           next == IF rest = <<>> THEN rlimit ELSE Uart!Least(rlimit, rest[1].at)
           want == Uart!Least(next, received)
<1>1. /\ UNCHANGED <<received, losses, events, unsaid, tpc, read, unpublished, sawTaken, sawHeld>>
      /\ UNCHANGED <<pushed, chunk, suspect, hold, limit, ring, blind>>
      /\ rpc = "take" /\ marked' = marked \union Uart!InTime(Uart!before(pending, taken), taken) /\ pending' = rest
      /\ \/ want > taken /\ taken' = want /\ UNCHANGED <<rpc, rlimit>>
         \/ taken' = taken /\ rlimit' = 0 /\ rpc' \in {"stopped", "look"}
  BY DEF Uart!Take, Uart!driverVars, Uart!taskVars, Uart!ledgerVars
<1>2. /\ UartTypes /\ ring \in Seq(PlaceSet) /\ pending \in Seq(PlaceSet)
      /\ rlimit \in Nat /\ taken \in Nat /\ limit \in Nat /\ received \in Nat
      /\ losses \subseteq LossSet
  BY DEF UartInv, UartTypes
<1>3. rest \in Seq(PlaceSet) /\ (rest # <<>> => rest[1].at \in Int)
  <2>1. rest \in Seq(PlaceSet)
    BY <1>2, WaitsTyped
  <2> HIDE DEF rest
  <2>2. rest # <<>> => rest[1] \in PlaceSet
    BY <2>1
  <2> QED BY <2>1, <2>2 DEF PlaceSet
<1>4. blind = {} =>
        /\ PlacesInTime(rest) /\ Sorted(rest)
        /\ \A l \in OfAll(rest) : rest # <<>> /\ rest[1].at <= l.at
        /\ \A l \in OfAll(pending) :
             taken <= l.at => l \in Uart!InTime(Uart!before(pending, taken), taken) \/ l \in OfAll(rest)
  <2> HAVE blind = {}
  <2>1. PlacesInTime(pending) /\ Sorted(pending)
    BY DEF UartInv, UartParts, Placed
  <2> QED BY <1>2, <2>1, RestIs
<1> HIDE DEF rest
<1>5. /\ want \in Int /\ want <= rlimit /\ want <= received
      /\ rest # <<>> => want <= rest[1].at
  BY <1>2, <1>3 DEF Uart!Least
<1> HIDE DEF want
<1>6. taken' \in Nat /\ rlimit' \in Nat /\ rpc' \in {"look", "drain", "take", "stopped", "begin"}
  BY <1>1, <1>2, <1>5
<1>7. blind = {} =>
        /\ taken <= taken' /\ taken' <= received /\ rlimit' <= limit
        /\ PlacesInTime(ring)
        /\ (rpc' = "take" => \A l \in OfAll(ring) : rlimit' <= l.at)
        /\ Kept'
  <2> HAVE blind = {}
  <2>1. CountsOrder /\ Placed /\ Kept
    BY DEF UartInv, UartParts
  <2>2. taken <= received /\ rlimit <= limit
    BY <2>1 DEF CountsOrder
  <2>3. taken <= taken' /\ taken' <= received /\ rlimit' <= limit
    BY <1>1, <1>2, <1>5, <2>2
  <2>4. rpc' = "take" => \A l \in OfAll(ring) : rlimit' <= l.at
    BY <1>1, <2>1 DEF Placed
  <2>5. Kept'
    <3> SUFFICES ASSUME NEW l \in losses' \ marked'
                 PROVE  /\ taken' <= l.at
                        /\ l \in Coming' \union hold'.of \union OfAll(ring') \union OfAll(pending')
      BY DEF Kept
    <3>1. l \in losses \ marked /\ l.at \in Nat /\ l \notin Uart!InTime(Uart!before(pending, taken), taken)
      BY <1>1, <1>2 DEF LossSet
    <3>2. taken <= l.at /\ l \in Coming \union hold.of \union OfAll(ring) \union OfAll(pending)
      BY <2>1, <3>1 DEF Kept
    <3>3. l \in Coming \union hold.of \union OfAll(ring) \union OfAll(rest)
      BY <1>4, <3>1, <3>2
    <3>4. want <= l.at
      <4>1. CASE l \in Coming \union hold.of
        <5>1. limit <= l.at
          BY <4>1, <2>1 DEF Placed
        <5> QED BY <5>1, <1>2, <1>5, <2>2, <3>1
      <4>2. CASE l \in OfAll(ring)
        <5>1. rlimit <= l.at
          BY <4>2, <1>1, <2>1 DEF Placed
        <5> QED BY <5>1, <1>2, <1>5, <3>1
      <4>3. CASE l \in OfAll(rest)
        <5>1. rest # <<>> /\ rest[1].at <= l.at
          BY <4>3, <1>4
        <5> QED BY <5>1, <1>3, <1>5, <3>1
      <4> QED BY <3>3, <4>1, <4>2, <4>3
    <3>5. Coming' = Coming
      BY <1>1 DEF Coming
    <3> QED BY <1>1, <3>2, <3>3, <3>4, <3>5
  <2> QED BY <2>1, <2>3, <2>4, <2>5 DEF Placed
<1> QED BY <1>1, <1>2, <1>3, <1>4, <1>6, <1>7, LoopKeeps

\* stopUart() marks what still waits.
LEMMA MarkRestKeeps ==
  ASSUME Uart!UartAssumption, UartInv, Uart!MarkRest
  PROVE  UartInv'
<1>1. /\ UNCHANGED <<received, losses, events, unsaid, tpc, read, unpublished, sawTaken, sawHeld>>
      /\ UNCHANGED <<pushed, chunk, suspect, hold, limit, ring, blind, rlimit, taken>>
      /\ rpc' = "begin" /\ marked' = marked \union Uart!InTime(pending, taken) /\ pending' = <<>>
  BY DEF Uart!MarkRest, Uart!driverVars, Uart!taskVars, Uart!ledgerVars
<1>2. /\ UartTypes /\ ring \in Seq(PlaceSet) /\ rlimit \in Nat /\ taken \in Nat /\ pending' \in Seq(PlaceSet)
  BY <1>1 DEF UartInv, UartTypes
<1>3. PlacesInTime(<<>>) /\ Sorted(<<>>)
  BY DEF PlacesInTime, Sorted
<1>4. blind = {} => /\ taken <= taken /\ taken <= received /\ rlimit <= limit /\ PlacesInTime(ring) /\ Kept'
  <2> HAVE blind = {}
  <2>1. CountsOrder /\ Placed /\ Kept
    BY DEF UartInv, UartParts
  <2>2. Kept'
    <3> SUFFICES ASSUME NEW l \in losses' \ marked'
                 PROVE  /\ taken' <= l.at
                        /\ l \in Coming' \union hold'.of \union OfAll(ring') \union OfAll(pending')
      BY DEF Kept
    <3>1. l \in losses \ marked /\ l \notin Uart!InTime(pending, taken)
      BY <1>1
    <3>2. taken <= l.at /\ l \in Coming \union hold.of \union OfAll(ring) \union OfAll(pending)
      BY <2>1, <3>1 DEF Kept
    <3>3. l \notin OfAll(pending)
      BY <3>1, <3>2 DEF Uart!InTime, OfAll
    <3>4. Coming' = Coming
      BY <1>1 DEF Coming
    <3> QED BY <1>1, <3>2, <3>3, <3>4
  <2> QED BY <1>2, <2>1, <2>2 DEF CountsOrder, Placed
<1> QED BY <1>1, <1>2, <1>3, <1>4, LoopKeeps

\* Nothing received, nothing lost.
LEMMA UartStarts == Uart!UartAssumption => (Uart!UartInit => UartInv)
<1> SUFFICES ASSUME Uart!UartAssumption, Uart!UartInit PROVE UartInv
  OBVIOUS
<1>1. /\ received = 0 /\ losses = {} /\ events = <<>> /\ unsaid = {}
      /\ tpc = "take" /\ read = Uart!Quiet /\ unpublished = 0 /\ sawTaken = 0 /\ sawHeld = 0
      /\ pushed = 0 /\ chunk = 0 /\ suspect = 0 /\ hold = Uart!None /\ ring = <<>> /\ limit = 0
      /\ rpc = "look" /\ rlimit = 0 /\ pending = <<>> /\ taken = 0 /\ marked = {}
  BY DEF Uart!UartInit
<1>2. Uart!None \in HeldSet /\ Uart!None.of = {} /\ Uart!Quiet.of = {}
  BY DEF Uart!None, Uart!Place, HeldSet, PlaceSet, Uart!Quiet
<1>3. /\ <<>> \in Seq(EventSet) /\ <<>> \in Seq(PlaceSet) /\ Len(events) = 0 /\ Len(ring) = 0 /\ Len(pending) = 0
      /\ 0 <= QueueLength
  BY <1>1 DEF Uart!UartAssumption
<1>4. UartTypes
  BY <1>1, <1>2, <1>3 DEF UartTypes
<1>5. Counted = 0 /\ Queued = 0 /\ Coming = {}
  BY <1>1, <1>2, <1>3, OfNone DEF Counted, Queued, Coming
<1>6. CountsOrder
  BY <1>1, <1>5 DEF CountsOrder
<1>7. EventsInOrder
  <2> DEFINE s == [k \in 1 .. Len(events) |-> 0]
  <2>1. 1 .. Len(events) = {} /\ s \in [1 .. Len(events) -> Nat]
    BY <1>3
  <2>2. InOrder(s, events, Counted, received, LastChunk) /\ AheadOf(s, events, Ahead, unsaid)
    BY <2>1 DEF InOrder, AheadOf
  <2> QED BY <2>2 DEF EventsInOrder
<1>8. GotInOrder /\ UnsaidIsDue
  BY <1>1, <1>2 DEF GotInOrder, UnsaidIsDue
<1>9. Placed
  BY <1>1, <1>2, <1>3, <1>5 DEF Placed, PlacesInTime, Sorted
<1>10. Kept
  BY <1>1 DEF Kept
<1> QED BY <1>4, <1>6, <1>7, <1>8, <1>9, <1>10 DEF UartInv, UartParts

\* begin(): the same once more.
LEMMA BeginKeeps ==
  ASSUME Uart!UartAssumption, Uart!Begin
  PROVE  UartInv'
<1>1. Uart!UartInit'
  BY DEF Uart!Begin, Uart!UartInit
<1>2. (Uart!UartAssumption => (Uart!UartInit => UartInv))'
  BY UartStarts, PTL
<1>3. Uart!UartAssumption'
  BY DEF Uart!UartAssumption
<1> QED BY <1>1, <1>2, <1>3

\* No step of the interrupt, the task or loop() leaves a loss untold.
LEMMA UartNextKeeps ==
  ASSUME Uart!UartAssumption, UartInv, [Uart!UartNext]_Uart!uartVars
  PROVE  UartInv'
<1>1. CASE UNCHANGED Uart!uartVars
  <2>1. /\ UNCHANGED <<received, losses, events, unsaid, tpc, read, unpublished, sawTaken, sawHeld>>
        /\ UNCHANGED <<pushed, chunk, suspect, hold, limit, ring, blind>>
        /\ UNCHANGED <<rpc, rlimit, pending, taken, marked>>
    BY <1>1 DEF Uart!uartVars, Uart!driverVars, Uart!taskVars, Uart!ledgerVars, Uart!pollVars, Uart!readVars
  <2>2. /\ UartTypes /\ ring' \in Seq(PlaceSet) /\ pending' \in Seq(PlaceSet) /\ rlimit' \in Nat /\ taken' \in Nat
        /\ rpc' \in {"look", "drain", "take", "stopped", "begin"}
    BY <2>1 DEF UartInv, UartTypes
  <2>3. Kept' <=> Kept
    BY <2>1 DEF Kept, Coming
  <2>4. blind = {} => /\ taken <= taken /\ taken <= received /\ rlimit <= limit
                      /\ PlacesInTime(ring) /\ PlacesInTime(pending) /\ Sorted(pending)
                      /\ (rpc = "take" => \A l \in OfAll(ring) : rlimit <= l.at) /\ Kept
    <3> HAVE blind = {}
    <3>1. CountsOrder /\ Placed /\ Kept
      BY DEF UartInv, UartParts
    <3> QED BY <3>1, <2>2 DEF CountsOrder, Placed, UartTypes
  <2> QED BY <2>1, <2>2, <2>3, <2>4, LoopKeeps
<1>2. CASE Uart!Arrive \/ Uart!Overflow \/ Uart!BadByte
  BY <1>2, InterruptKeeps
<1>3. CASE Uart!Receive \/ Uart!Count
  BY <1>3, ReceiveKeeps, CountKeeps
<1>4. CASE Uart!Waited \/ Uart!SeeTaken \/ Uart!SeeHeld \/ Uart!Check
  BY <1>4, SeesKeeps, CheckKeeps
<1>5. CASE Uart!Publish \/ Uart!PublishLast \/ Uart!CountLast
  BY <1>5, PublishesKeeps, CountLastKeeps
<1>6. CASE Uart!Look \/ Uart!Drain \/ Uart!Drained \/ Uart!Stop
  BY <1>6, DrainKeeps
<1>7. CASE Uart!Take \/ Uart!MarkRest \/ Uart!Begin
  BY <1>7, TakeKeeps, MarkRestKeeps, BeginKeeps
<1> QED BY <1>1, <1>2, <1>3, <1>4, <1>5, <1>6, <1>7 DEF Uart!UartNext

\* A loss passed is marked.
LEMMA PassedMarked == ASSUME UartInv PROVE LossMarked
<1> SUFFICES ASSUME blind = {}, NEW l \in losses, l.at < taken, l \notin marked PROVE FALSE
  BY DEF LossMarked, Uart!LossMarked, Uart!Passed
<1>1. taken <= l.at
  BY DEF UartInv, UartParts, Kept
<1>2. l.at \in Nat /\ taken \in Nat
  BY DEF UartInv, UartTypes, LossSet
<1> QED BY <1>1, <1>2

\* With what the ledger has no guard against left out, each loss is marked before a
\* byte after it is read: it is in the driver's queue, held or in the ring of the
\* ledger, or waits in loop(), and no limit handed on is past it.
THEOREM LossesAreMarked == Uart!UartSpec => []LossMarked
<1>1. Uart!UartInit => UartInv
  BY BesideAssumption, UartStarts
<1>2. UartInv /\ [Uart!UartNext]_Uart!uartVars => UartInv'
  BY BesideAssumption, UartNextKeeps
<1>3. UartInv => LossMarked
  BY PassedMarked
<1> QED BY <1>1, <1>2, <1>3, PTL DEF Uart!UartSpec
-----------------------------------------------------------------------------
(* A poll misses one access at most, as confirm() has it.                  *)
OneMiss == Misses \in {0, 1}
MailParts == Mail!MailAssumption /\ OneMiss

\* The mailbox's words, wherever they are while a host uses the registers.
Word0 == IF kept = <<>> THEN data0 ELSE kept[1]
Word1 == IF kept = <<>> THEN data1 ELSE kept[2]
Talked == Len(Mail!Said)
TextsOf(i) == {<<Mail!Said[i].first, rest>> : rest \in Mail!RestsFor(i)}
Texts == UNION {TextsOf(i) : i \in 1 .. Talked}
IsLong == target.next \in 1 .. Talked /\ Mail!Said[target.next].rest # none
RestNow == Mail!RestOf(Mail!Frame, Mail!Said[target.next].rest)
Sequenced == mechanism = "dmseq"

MailTypes ==
  /\ mechanism \in Mechanisms /\ missed \in 0 .. Misses
  /\ asked \in BOOLEAN /\ hartHalted \in BOOLEAN /\ halted \in BOOLEAN /\ sawEmpty \in BOOLEAN
  /\ target \in [at : {"post", "post0", "wait"}, next : 0 .. Talked + 1, s : {0, 1}, lastH : {0, 1},
                 syn : BOOLEAN, rx : Seq(Nat)]
  /\ seq \in [synced : BOOLEAN, s : {0, 1}, syn : BOOLEAN, h : {0, 1}, chunk : Seq(Nat)]
  /\ queue \in Seq(Nat)
  /\ got \in Seq(Texts) /\ Len(got) <= Talked /\ \A i \in 1 .. Len(got) : got[i] \in TextsOf(i)

Path == {"first", "data1", "between", "data1again", "same1", "data0again", "same0"}

\* The look at the hart, and what the console takes from it.
Looks ==
  /\ pc = "control" /\ missed = 0 => w0 = Mail!Status(halted)
  /\ pc = "again" /\ missed = 0 => lastRead = Mail!Control
  /\ pc = "judge" => w1 \in {Mail!Status(halted), Mail!Control}
Hart ==
  /\ ~asked => (hartHalted <=> halted)
  /\ kept # <<>> => halted
  /\ pc = "data0" \/ pc \in Path => ~halted

\* What lies in the mailbox.
Lies ==
  /\ Word0.kind \in {"zero", "ones", "frame", "empty", "answer"}
  /\ Word0.kind = "frame" => target.at = "wait" /\ target.next >= 1 /\ Word0 = Mail!Frame
  /\ Word0.kind = "empty" => Word0 = Mail!Empty /\ target.at = "wait" /\ mechanism = "dmdata"
                             /\ target.next > Talked
  /\ Word0.kind = "ones" /\ ~Sequenced => target.at = "wait" /\ target.next = 0
  /\ Sequenced /\ target.at = "wait" => Word0.kind \in {"frame", "answer"}
  /\ Word0.kind = "answer" => mechanism # "sdi"
  /\ Word1.kind \in {"zero", "rest"}
  /\ target.at \in {"post0", "wait"} /\ IsLong => Word1 = RestNow
  /\ target.next = 0 => target.at = "wait" /\ ~Sequenced
  /\ mechanism = "sdi" => target.next <= Talked

\* The target's frame is taken; and the mailbox shows it.
Taken == IF Sequenced THEN seq.synced /\ seq.s = target.s
         ELSE target.at = "wait" /\ Word0.kind \notin {"frame", "empty"}
Answered == target.at = "wait" /\ Word0.kind \in IF Sequenced THEN {"answer"} ELSE {"zero", "answer"}
Counts ==
  /\ Len(got) = IF Taken THEN Mail!Least(target.next, Talked) ELSE target.next - 1
  /\ Word0.kind = "empty" => Len(got) = Talked

\* The input: at the target, on its way, or waiting.
OnWay == IF Sequenced THEN IF seq.synced /\ target.lastH # seq.h THEN seq.chunk ELSE <<>>
         ELSE IF target.at = "wait" THEN Mail!BytesOf(Word0) ELSE <<>>
TypedIn ==
  /\ mechanism # "sdi" => Input = target.rx \o OnWay \o queue
  /\ mechanism = "sdi" => target.rx = <<>> /\ queue = <<>>
  /\ Word0.kind = "answer" /\ ~Sequenced => target.next # 0
  /\ Word0.kind = "answer" => Word0.bytes \in Seq(Nat)

\* dmseq's bits.
SeqBits == Sequenced =>
  /\ target.syn /\ seq.synced => seq.s = target.s /\ seq.syn
  /\ ~target.syn => seq.synced
  /\ ~seq.synced => seq.chunk = <<>>
  /\ seq.synced /\ seq.chunk = <<>> => target.lastH # seq.h
  /\ Answered => Word0 = [kind |-> "answer", k |-> target.s, h |-> seq.h, bytes |-> seq.chunk] /\ Taken

\* A head the console has seen, and the rest that goes with it.
Rests(X) == {i \in 1 .. Talked : i <= target.next /\ Mail!Said[i].first = X.first /\ Mail!Said[i].rest # none}
RestsOf(X) == {Mail!RestOf(X, Mail!Said[i].rest) : i \in Rests(X)}
Fits(X, w) == IF Sequenced THEN (X.s = target.s => w = RestNow)
              ELSE w \in RestsOf(X) \/ (target.at \in {"post0", "wait"} /\ IsLong /\ w = RestNow)
Seen(X) == X.kind = "frame" =>
  /\ X.long => Fits(X, Word1)
  /\ Sequenced => X.s \in {0, 1} /\ (X.s = target.s => X = Mail!Frame) /\ (Answered => X.s = target.s)
  /\ ~Sequenced /\ Answered => target.next > Talked \/ (target.next \in 1 .. Talked /\ X = Mail!Frame)

\* A word that stays where it is until the console acts on it.
Firm(w) == Mail!Like(w) \/ w.kind = "empty" \/ (w.kind \in {"ones", "status"} /\ mechanism = "dmdata")
Confirms == pc \in Path /\ w0.kind = "frame" /\ w0.long =>
  /\ pc \in {"between", "data1again"} /\ missed = 0 => Fits(w0, w1)
  /\ pc = "same1" => Fits(w0, w1) \/ Fits(w0, other)
  /\ pc \in {"data0again", "same0"} => Fits(w0, w1)
Reads ==
  /\ ~halted => Seen(lastRead)
  /\ pc \in Path => Seen(w0)
  /\ pc \in Path \ {"first"} => Mail!ActedOn(w0)
  /\ pc \in Path /\ missed = 0 /\ Firm(w0) => data0 = w0
  /\ Confirms
  /\ pc = "same0" => other = lastRead /\ (other = w0 /\ Firm(w0) => data0 = w0)

MailWords == Lies /\ Counts /\ TypedIn /\ SeqBits
MailInv == MailTypes /\ Looks /\ Hart /\ MailWords /\ Reads
-----------------------------------------------------------------------------
\* What the frame the target posts is.
LEMMA FrameIs ==
  ASSUME Mail!MailAssumption, MailTypes
  PROVE  /\ mechanism = "dmdata" /\ target.next > Talked => Mail!Frame = Mail!Empty
         /\ ~(mechanism = "dmdata" /\ target.next > Talked) =>
              /\ Mail!Frame.kind = "frame"
              /\ target.next >= 1 => (Mail!Frame.long <=> IsLong)
              /\ target.next \in 1 .. Talked => Mail!Frame.first = Mail!Said[target.next].first
              /\ target.next > Talked => Mail!Frame.first = none /\ ~Mail!Frame.long
              /\ Sequenced => Mail!Frame.s = target.s /\ Mail!Frame.a = target.lastH /\ Mail!Frame.syn = target.syn
<1>1. target.next \in Nat /\ Talked \in Nat /\ (Mail!Whole <=> target.next > Talked)
  BY DEF Mail!MailAssumption, MailTypes, Mail!Whole, Talked, Mail!Said
<1>2. CASE mechanism = "dmdata" /\ target.next > Talked
  BY <1>1, <1>2 DEF Mail!Frame
<1>3. CASE ~(mechanism = "dmdata" /\ target.next > Talked)
  <2> DEFINE says == IF Mail!Whole THEN [first |-> none, rest |-> none] ELSE Mail!Said[target.next]
             bits == IF mechanism = "dmseq" THEN target ELSE [s |-> 0, lastH |-> 0, syn |-> FALSE]
  <2>1. Mail!Frame = [kind |-> "frame", first |-> says.first, long |-> says.rest # none,
                 s |-> bits.s, a |-> bits.lastH, syn |-> bits.syn]
    BY <1>1, <1>3 DEF Mail!Frame
  <2>2. target.next > Talked => says.first = none /\ says.rest = none
    BY <1>1
  <2>3. target.next \in 1 .. Talked => says = Mail!Said[target.next]
    BY <1>1
  <2>4. target.next >= 1 => (says.rest # none <=> IsLong)
    BY <1>1, <2>2, <2>3 DEF IsLong
  <2>5. Sequenced => bits = target
    BY DEF Sequenced
  <2> HIDE DEF says, bits
  <2>6. /\ Mail!Frame.kind = "frame" /\ Mail!Frame.first = says.first /\ (Mail!Frame.long <=> says.rest # none)
        /\ Mail!Frame.s = bits.s /\ Mail!Frame.a = bits.lastH /\ Mail!Frame.syn = bits.syn
    BY ONLY <2>1
  <2>7. target.next >= 1 => (Mail!Frame.long <=> IsLong)
    BY <2>4, <2>6
  <2>8. target.next > Talked => Mail!Frame.first = none /\ ~Mail!Frame.long
    BY <2>2, <2>6
  <2> QED BY <1>3, <2>3, <2>5, <2>6, <2>7, <2>8
<1> QED BY <1>2, <1>3

SeenGoesOn == \A X : Seen(X) => Seen(X)'
FitsGoOn == \A X, w : Seen(X) /\ X.kind = "frame" /\ X.long /\ Fits(X, w) => Fits(X, w)'

\* A step that moves no word of the mailbox, nor what the console or the target holds of it.
LEMMA WordsStay ==
  ASSUME MailWords, Word0' = Word0, Word1' = Word1, UNCHANGED <<mechanism, target, seq, queue, got>>
  PROVE  MailWords' /\ SeenGoesOn /\ FitsGoOn
<1>1. /\ Talked' = Talked /\ (Sequenced' <=> Sequenced) /\ (IsLong' <=> IsLong)
      /\ Mail!Frame' = Mail!Frame /\ RestNow' = RestNow /\ Mail!Said' = Mail!Said
  BY DEF Talked, Mail!Said, Sequenced, IsLong, Mail!Frame, Mail!Whole, RestNow, Mail!RestOf
<1>2. (Taken' <=> Taken) /\ (Answered' <=> Answered) /\ OnWay' = OnWay
  BY <1>1 DEF Taken, Answered, OnWay
<1>3. \A X : RestsOf(X)' = RestsOf(X)
  BY <1>1 DEF RestsOf, Rests, Mail!RestOf
<1>4. \A X, w : Fits(X, w)' <=> Fits(X, w)
  BY <1>1, <1>3 DEF Fits
<1>5. \A X : Seen(X)' <=> Seen(X)
  BY <1>1, <1>2, <1>4 DEF Seen
<1>6. Lies'
  BY <1>1 DEF MailWords, Lies
<1>7. Counts'
  BY <1>1, <1>2 DEF MailWords, Counts
<1>8. TypedIn'
  BY <1>1, <1>2 DEF MailWords, TypedIn
<1>9. SeqBits'
  BY <1>1, <1>2 DEF MailWords, SeqBits
<1> QED BY <1>4, <1>5, <1>6, <1>7, <1>8, <1>9 DEF MailWords, SeenGoesOn, FitsGoOn

\* What lies in the mailbox of a hart that runs is a head the console may see.
LEMMA SeenNow ==
  ASSUME Mail!MailAssumption, MailTypes, MailWords, kept = <<>>
  PROVE  Seen(data0)
<1>1. Word0 = data0
  BY DEF Word0
<1> SUFFICES ASSUME data0.kind = "frame" PROVE Seen(data0)
  BY DEF Seen
<1>2. target.at = "wait" /\ target.next >= 1 /\ data0 = Mail!Frame /\ ~Answered
  BY <1>1 DEF MailWords, Lies, Answered
<1>3. data0.long => IsLong
  BY <1>2, FrameIs DEF Mail!Empty
<1>4. data0.long => Fits(data0, Word1)
  BY <1>2, <1>3 DEF Fits, MailWords, Lies
<1>5. Sequenced => data0.s = target.s /\ target.s \in {0, 1}
  BY <1>2, FrameIs DEF Sequenced, MailTypes
<1> QED BY <1>2, <1>4, <1>5 DEF Seen

\* What a poll has read stays so over a step of the target.
LEMMA ReadsGoOn ==
  ASSUME Reads, SeenGoesOn, FitsGoOn, Firm(data0) => data0' = data0,
         UNCHANGED <<mechanism, pc, missed, w0, w1, other, lastRead, halted>>
  PROVE  Reads'
<1>1. (Firm(w0)' <=> Firm(w0)) /\ (Mail!ActedOn(w0)' <=> Mail!ActedOn(w0))
  BY DEF Firm, Mail!ActedOn
<1>2. data0 = w0 /\ Firm(w0) => data0' = w0
  OBVIOUS
<1>3. ~halted' => Seen(lastRead)'
  BY DEF Reads, SeenGoesOn
<1>4. pc' \in Path => Seen(w0)'
  BY DEF Reads, SeenGoesOn
<1>5. Confirms'
  BY <1>4 DEF Reads, Confirms, FitsGoOn
<1>6. pc' \in Path \ {"first"} => Mail!ActedOn(w0)'
  BY <1>1 DEF Reads
<1>7. pc' \in Path /\ missed' = 0 /\ Firm(w0)' => data0' = w0'
  BY <1>1, <1>2 DEF Reads
<1>8. pc' = "same0" => other' = lastRead' /\ (other' = w0' /\ Firm(w0)' => data0' = w0')
  BY <1>1, <1>2 DEF Reads
<1> QED BY <1>3, <1>4, <1>5, <1>6, <1>7, <1>8 DEF Reads

\* The same of the look at the hart.
LEMMA LooksGoOn ==
  ASSUME Looks, Hart, UNCHANGED <<pc, missed, w0, w1, lastRead, asked, hartHalted, halted, kept>>
  PROVE  Looks' /\ Hart'
<1>1. Path' = Path
  BY DEF Path
<1> QED BY <1>1 DEF Looks, Hart, Mail!Status

\* No poll is on its way.
LEMMA IdleReads ==
  ASSUME pc' = "idle", ~halted' => Seen(lastRead)'
  PROVE  Reads' /\ Looks'
<1>1. Confirms' /\ Looks'
  BY DEF Confirms, Looks, Path
<1> QED BY <1>1 DEF Reads, Path

\* The frame to post is that of the target's place and bits.
LEMMA FrameStays ==
  ASSUME MailTypes, UNCHANGED mechanism, target'.next = target.next, target'.s = target.s,
         target'.lastH = target.lastH, target'.syn = target.syn
  PROVE  /\ Mail!Said' = Mail!Said /\ Talked' = Talked /\ (Sequenced' <=> Sequenced) /\ (IsLong' <=> IsLong)
         /\ Mail!Frame' = Mail!Frame /\ RestNow' = RestNow /\ \A X : RestsOf(X)' = RestsOf(X)
<1>1. Mail!Said' = Mail!Said /\ Talked' = Talked /\ (Sequenced' <=> Sequenced)
  BY DEF Mail!Said, Talked, Sequenced
<1>2. (IsLong' <=> IsLong) /\ (Mail!Whole' <=> Mail!Whole)
  BY <1>1 DEF IsLong, Mail!Whole
<1>3. Mail!Frame' = Mail!Frame
  BY <1>1, <1>2 DEF Mail!Frame
<1>4. RestNow' = RestNow
  BY <1>1, <1>3 DEF RestNow, Mail!RestOf
<1>5. \A X : RestsOf(X)' = RestsOf(X)
  BY <1>1 DEF RestsOf, Rests, Mail!RestOf
<1> QED BY <1>1, <1>2, <1>3, <1>4, <1>5

\* A step of the target leaves the console's side to what it has seen.
LEMMA TargetSteps ==
  ASSUME MailInv, Mail!External, MailTypes', MailWords', SeenGoesOn, FitsGoOn, Firm(data0) => data0' = data0
  PROVE  MailInv'
<1>1. UNCHANGED <<mechanism, pc, missed, w0, w1, other, lastRead, asked, hartHalted, halted, kept>>
  BY DEF Mail!External, Mail!pollVars, Mail!lookVars, Mail!takeVars, Mail!hostVars
<1> QED BY <1>1, ReadsGoOn, LooksGoOn DEF MailInv

\* The texts are those of the mechanism's frames.
LEMMA TextsStay ==
  ASSUME UNCHANGED mechanism
  PROVE  Texts' = Texts /\ \A i : TextsOf(i)' = TextsOf(i)
<1>1. Mail!Said' = Mail!Said /\ Talked' = Talked
  BY DEF Mail!Said, Talked
<1>2. \A i : Mail!RestsFor(i)' = Mail!RestsFor(i)
  BY <1>1 DEF Mail!RestsFor
<1>3. \A i : TextsOf(i)' = TextsOf(i)
  BY <1>1, <1>2 DEF TextsOf
<1> QED BY <1>1, <1>3 DEF Texts

\* Only the target's side changes.
LEMMA TypesOfTarget ==
  ASSUME MailTypes,
         UNCHANGED <<mechanism, missed, asked, hartHalted, halted, sawEmpty, seq, queue, got>>,
         target' \in [at : {"post", "post0", "wait"}, next : 0 .. Talked + 1, s : {0, 1}, lastH : {0, 1},
                      syn : BOOLEAN, rx : Seq(Nat)]
  PROVE  MailTypes'
<1>1. Mail!Said' = Mail!Said /\ Talked' = Talked
  BY DEF Mail!Said, Talked
<1>2. Texts' = Texts /\ \A i : TextsOf(i)' = TextsOf(i)
  BY TextsStay
<1> QED BY <1>1, <1>2 DEF MailTypes

\* The new rest is that of no head seen but its own, which is not posted yet.
LEMMA TargetPostsRestKeeps == ASSUME Mail!MailAssumption, MailInv, Mail!TargetPostsRest PROVE MailInv'
<1> USE DEF MailInv
<1>1. /\ kept = <<>> /\ kept' = <<>> /\ target.at = "post" /\ target' = [target EXCEPT !.at = "post0"]
      /\ UNCHANGED <<mechanism, data0, seq, queue, got, missed, asked, hartHalted, halted, sawEmpty>>
  BY DEF Mail!TargetPostsRest, Mail!External, Hart, Mail!pollVars, Mail!lookVars, Mail!takeVars, Mail!hostVars
<1>2. /\ target'.at = "post0" /\ target'.next = target.next /\ target'.s = target.s
      /\ target'.lastH = target.lastH /\ target'.syn = target.syn /\ target'.rx = target.rx
  BY <1>1 DEF MailTypes
<1>3. /\ Mail!Said' = Mail!Said /\ Talked' = Talked /\ (Sequenced' <=> Sequenced) /\ (IsLong' <=> IsLong)
      /\ Mail!Frame' = Mail!Frame /\ RestNow' = RestNow /\ \A X : RestsOf(X)' = RestsOf(X)
  BY <1>1, <1>2, FrameStays
<1>4. Word0 = data0 /\ Word0' = data0 /\ Word1 = data1 /\ Word1' = data1'
  BY <1>1 DEF Word0, Word1
<1>5. target.next \in 0 .. Talked + 1 /\ target.next # 0 /\ Talked \in Nat
  BY <1>1 DEF MailTypes, MailWords, Lies, Mail!MailAssumption, Talked, Mail!Said
<1>6. Word1' = IF IsLong THEN RestNow ELSE Word1
  BY <1>4, <1>5 DEF Mail!TargetPostsRest, Mail!Whole, IsLong, RestNow, Talked
<1>7. Word0.kind # "frame" /\ Word0.kind # "empty"
  BY <1>1 DEF MailWords, Lies
<1>8. MailTypes'
  <2>1. target' \in [at : {"post", "post0", "wait"}, next : 0 .. Talked + 1, s : {0, 1}, lastH : {0, 1},
                     syn : BOOLEAN, rx : Seq(Nat)]
    BY <1>1 DEF MailTypes
  <2> QED BY <1>1, <2>1, TypesOfTarget
<1>9. ~Answered /\ ~Answered' /\ (Taken' <=> Taken) /\ OnWay' = OnWay
  BY <1>1, <1>2, <1>3 DEF Answered, Taken, OnWay
<1>10. RestNow.kind = "rest"
  BY DEF RestNow, Mail!RestOf
<1>11. Lies'
  BY <1>1, <1>2, <1>3, <1>4, <1>6, <1>7, <1>10 DEF MailWords, Lies
<1>12. Counts'
  BY <1>1, <1>2, <1>3, <1>4, <1>9 DEF MailWords, Counts
<1>13. TypedIn'
  BY <1>1, <1>2, <1>3, <1>4, <1>9 DEF MailWords, TypedIn
<1>14. SeqBits'
  BY <1>1, <1>2, <1>3, <1>9 DEF MailWords, SeqBits
<1>15. ASSUME NEW X, X.kind = "frame", Seen(X), X.long PROVE Fits(X, Word1)'
  <2>1. CASE Sequenced
    <3>1. X.s = target.s => X = Mail!Frame
      BY <1>15, <2>1 DEF Seen
    <3>2. X.s = target.s => IsLong
      BY <1>5, <1>15, <2>1, <3>1, FrameIs DEF Sequenced
    <3> QED BY <1>2, <1>3, <1>6, <2>1, <3>2 DEF Fits
  <2>2. CASE ~Sequenced
    <3>1. Fits(X, Word1)
      BY <1>15 DEF Seen
    <3> QED BY <1>1, <1>2, <1>3, <1>6, <2>2, <3>1 DEF Fits
  <2> QED BY <2>1, <2>2
<1>16. SeenGoesOn
  BY <1>2, <1>3, <1>9, <1>15 DEF SeenGoesOn, Seen
<1>17. FitsGoOn
  BY <1>1, <1>2, <1>3 DEF FitsGoOn, Fits
<1> QED BY <1>1, <1>8, <1>11, <1>12, <1>13, <1>14, <1>16, <1>17, TargetSteps DEF MailWords, Mail!TargetPostsRest

\* What the frame is posted over is no word a poll holds on to.
LEMMA TargetPostsKeeps == ASSUME Mail!MailAssumption, MailInv, Mail!TargetPosts PROVE MailInv'
<1> USE DEF MailInv
<1>1. /\ kept = <<>> /\ kept' = <<>> /\ target.at = "post0" /\ target' = [target EXCEPT !.at = "wait"]
      /\ UNCHANGED <<mechanism, data1, seq, queue, got, missed, asked, hartHalted, halted, sawEmpty>>
      /\ data0' = Mail!Frame
  BY DEF Mail!TargetPosts, Mail!External, Hart, Mail!pollVars, Mail!lookVars, Mail!takeVars, Mail!hostVars
<1>2. /\ target'.at = "wait" /\ target'.next = target.next /\ target'.s = target.s
      /\ target'.lastH = target.lastH /\ target'.syn = target.syn /\ target'.rx = target.rx
  BY <1>1 DEF MailTypes
<1>3. /\ Mail!Said' = Mail!Said /\ Talked' = Talked /\ (Sequenced' <=> Sequenced) /\ (IsLong' <=> IsLong)
      /\ Mail!Frame' = Mail!Frame /\ RestNow' = RestNow /\ \A X : RestsOf(X)' = RestsOf(X)
  BY <1>1, <1>2, FrameStays
<1>4. Word0 = data0 /\ Word0' = Mail!Frame /\ Word1 = data1 /\ Word1' = data1
  BY <1>1 DEF Word0, Word1
<1>5. target.next \in 0 .. Talked + 1 /\ target.next # 0 /\ Talked \in Nat
  BY <1>1 DEF MailTypes, MailWords, Lies, Mail!MailAssumption, Talked, Mail!Said
<1>6. /\ mechanism = "dmdata" /\ target.next > Talked => Mail!Frame = Mail!Empty
      /\ ~(mechanism = "dmdata" /\ target.next > Talked) => Mail!Frame.kind = "frame"
      /\ Mail!Empty.kind = "empty"
  BY FrameIs DEF Mail!Empty
<1>7. ~Firm(data0)
  BY <1>1, <1>4 DEF MailWords, Lies, Firm, Mail!Like, Sequenced
<1>8. MailTypes'
  <2>1. target' \in [at : {"post", "post0", "wait"}, next : 0 .. Talked + 1, s : {0, 1}, lastH : {0, 1},
                     syn : BOOLEAN, rx : Seq(Nat)]
    BY <1>1 DEF MailTypes
  <2> QED BY <1>1, <2>1, TypesOfTarget
<1>9. ~Answered /\ ~Answered' /\ (Taken' <=> Taken) /\ OnWay' = OnWay
  BY <1>1, <1>2, <1>3, <1>4, <1>6 DEF Answered, Taken, OnWay, Mail!BytesOf
<1>10. Lies'
  BY <1>1, <1>2, <1>3, <1>4, <1>5, <1>6 DEF MailWords, Lies, Sequenced
<1>11. Counts'
  <2>1. Word0'.kind = "empty" => Len(got) = Talked
    BY <1>1, <1>4, <1>5, <1>6 DEF MailWords, Counts, Taken, Sequenced
  <2> QED BY <1>1, <1>2, <1>3, <1>9, <2>1 DEF MailWords, Counts
<1>12. TypedIn'
  BY <1>1, <1>2, <1>3, <1>4, <1>6, <1>9 DEF MailWords, TypedIn
<1>13. SeqBits'
  BY <1>1, <1>2, <1>3, <1>9 DEF MailWords, SeqBits
<1>14. FitsGoOn
  BY <1>1, <1>2, <1>3 DEF FitsGoOn, Fits
<1>15. SeenGoesOn
  <2>1. \A X, w : Fits(X, w) => Fits(X, w)'
    BY <1>1, <1>2, <1>3 DEF Fits
  <2> QED BY <1>1, <1>2, <1>3, <1>4, <1>9, <2>1 DEF SeenGoesOn, Seen
<1> QED BY <1>7, <1>8, <1>10, <1>11, <1>12, <1>13, <1>14, <1>15, TargetSteps DEF MailWords, Mail!TargetPosts

\* The target goes on to its next frame only once the console has taken this one, and with the
\* input that rode on the answer.
LEMMA TargetGoesOn ==
  ASSUME Mail!MailAssumption, MailTypes, MailWords, kept = <<>>, Mail!TargetSees
  PROVE  /\ Answered /\ Taken /\ target'.at = "post" /\ target'.next = Mail!Least(target.next + 1, Talked + 1)
         /\ target'.rx = target.rx \o OnWay /\ OnWay \in Seq(Nat) /\ target'.lastH \in {0, 1}
         /\ target' \in [at : {"post", "post0", "wait"}, next : 0 .. Talked + 1, s : {0, 1}, lastH : {0, 1},
                         syn : BOOLEAN, rx : Seq(Nat)]
         /\ Sequenced => /\ target'.s = 1 - target.s /\ target'.syn = FALSE /\ target'.s \in {0, 1}
                         /\ target'.lastH = IF seq.chunk # <<>> THEN seq.h ELSE target.lastH
         /\ ~Sequenced => target'.s = target.s /\ target'.syn = target.syn
         /\ mechanism = "sdi" => target.next < Talked
<1>1. Word0 = data0 /\ target.at = "wait"
  BY DEF Word0, Mail!TargetSees
<1>2. /\ target.rx \in Seq(Nat) /\ target.next \in Nat /\ Talked \in Nat /\ seq.chunk \in Seq(Nat)
      /\ target.s \in {0, 1} /\ target.lastH \in {0, 1} /\ seq.h \in {0, 1}
  BY DEF MailTypes, Mail!MailAssumption, Talked, Mail!Said
<1>3. \A q \in Seq(Nat) : q \o <<>> = q
  OBVIOUS
<1> DEFINE next == Mail!Least(target.next + 1, Talked + 1)
           Sides == [at : {"post", "post0", "wait"}, next : 0 .. Talked + 1, s : {0, 1}, lastH : {0, 1},
                     syn : BOOLEAN, rx : Seq(Nat)]
<1>7. next \in 0 .. Talked + 1 /\ target \in Sides
  BY <1>2 DEF Mail!Least, MailTypes
<1> HIDE DEF next
<1>4. CASE Mail!TargetSdi
  <2>1. /\ mechanism = "sdi" /\ data0.kind = "zero" /\ target.next < Talked /\ ~Sequenced
        /\ target' = Mail!Onward(target)
    BY <1>4 DEF Mail!TargetSdi, Mail!Zero, Talked, Sequenced
  <2>2. OnWay = <<>>
    BY <1>1, <2>1 DEF OnWay, Mail!BytesOf
  <2>3. Answered /\ Taken
    BY <1>1, <2>1 DEF Answered, Taken
  <2>4. target' = [target EXCEPT !.at = "post", !.next = next]
    BY <1>7, <2>1 DEF Mail!Onward, Talked, next
  <2>6. target.rx = target.rx \o OnWay
    BY <1>2, <1>3, <2>2
  <2>5. /\ target'.at = "post" /\ target'.next = next /\ target'.s = target.s /\ target' \in Sides
        /\ target'.lastH = target.lastH /\ target'.syn = target.syn /\ target'.rx = target.rx
    BY ONLY <1>7, <2>4
  <2>7. target'.rx = target.rx \o OnWay /\ OnWay \in Seq(Nat)
    BY <2>2, <2>5, <2>6
  <2> QED BY <1>2, <2>1, <2>3, <2>5, <2>7 DEF next
<1>5. CASE Mail!TargetDmdata
  <2>1. mechanism = "dmdata" /\ ~Sequenced /\ data0.kind \in {"zero", "answer"}
    BY <1>1, <1>5 DEF Mail!TargetDmdata, Mail!Bit7, Mail!Like, Sequenced, MailWords, Lies
  <2>2. Answered /\ Taken /\ OnWay = Mail!BytesOf(data0) /\ (target.next = 0 => OnWay = <<>>)
    BY <1>1, <2>1 DEF Answered, Taken, OnWay, Mail!BytesOf, MailWords, TypedIn
  <2>3. OnWay \in Seq(Nat)
    BY <1>1, <2>1, <2>2 DEF Mail!BytesOf, MailWords, TypedIn
  <2>4. target.rx \o OnWay = IF target.next = 0 THEN target.rx ELSE target.rx \o Mail!BytesOf(data0)
    BY <1>2, <1>3, <2>2
  <2>5. target' = Mail!Onward([target EXCEPT !.rx = target.rx \o OnWay])
    BY <1>5, <2>4 DEF Mail!TargetDmdata
  <2>6. target' = [target EXCEPT !.at = "post", !.next = next, !.rx = target.rx \o OnWay]
    BY <1>7, <2>5 DEF Mail!Onward, Talked, next
  <2>7. target.rx \o OnWay \in Seq(Nat)
    BY <1>2, <2>3
  <2>8. /\ target'.at = "post" /\ target'.next = next /\ target'.s = target.s /\ target' \in Sides
        /\ target'.lastH = target.lastH /\ target'.syn = target.syn /\ target'.rx = target.rx \o OnWay
    BY ONLY <1>7, <2>6, <2>7
  <2> QED BY <1>2, <2>1, <2>2, <2>3, <2>8 DEF next
<1>6. CASE Mail!TargetSeq
  <2>1. mechanism = "dmseq" /\ Sequenced /\ data0 # Mail!Frame
    BY <1>6 DEF Mail!TargetSeq, Sequenced
  <2>2. Answered
    BY <1>1, <2>1 DEF Answered, MailWords, Lies
  <2>3. Taken /\ data0 = [kind |-> "answer", k |-> target.s, h |-> seq.h, bytes |-> seq.chunk]
    BY <1>1, <2>1, <2>2 DEF MailWords, SeqBits
  <2>4. ~Mail!Bit7(data0) /\ data0.k = target.s /\ data0.h = seq.h /\ data0.bytes = seq.chunk
    BY <2>3 DEF Mail!Bit7, Mail!Like
  <2>5. seq.synced /\ (seq.chunk = <<>> => target.lastH # seq.h)
    BY <2>1, <2>3 DEF Taken, MailWords, SeqBits
  <2>6. OnWay = (IF target.lastH # seq.h THEN seq.chunk ELSE <<>>) /\ OnWay \in Seq(Nat)
    BY <1>2, <2>1, <2>5 DEF OnWay
  <2> DEFINE t == IF seq.chunk # <<>> /\ seq.h # target.lastH
                  THEN [target EXCEPT !.rx = @ \o seq.chunk, !.lastH = seq.h] ELSE target
             h == IF seq.chunk # <<>> THEN seq.h ELSE target.lastH
  <2>7. target' = Mail!Onward([t EXCEPT !.s = 1 - @, !.syn = FALSE])
    BY <1>6, <2>4 DEF Mail!TargetSeq
  <2>8. t = [target EXCEPT !.rx = target.rx \o OnWay, !.lastH = h]
    BY <1>2, <1>3, <1>7, <2>6
  <2> HIDE DEF t
  <2>9. target' = [target EXCEPT !.at = "post", !.next = next, !.s = 1 - target.s, !.lastH = h,
                                 !.syn = FALSE, !.rx = target.rx \o OnWay]
    BY <1>7, <2>7, <2>8 DEF Mail!Onward, Talked, next
  <2>10. h \in {0, 1} /\ 1 - target.s \in {0, 1} /\ target.rx \o OnWay \in Seq(Nat)
    BY <1>2, <2>6
  <2> HIDE DEF h
  <2>11. /\ target'.at = "post" /\ target'.next = next /\ target' \in Sides
         /\ target'.s = 1 - target.s /\ target'.lastH = h /\ target'.syn = FALSE
         /\ target'.rx = target.rx \o OnWay
    BY ONLY <1>7, <2>9, <2>10
  <2> QED BY <2>1, <2>2, <2>3, <2>6, <2>10, <2>11 DEF h, next
<1> QED BY <1>4, <1>5, <1>6 DEF Mail!TargetSees

\* A head seen before is answered now: in dmseq its bit is the other one, else its rest stays known.
LEMMA TargetSeesKeeps == ASSUME Mail!MailAssumption, MailInv, Mail!TargetSees PROVE MailInv'
<1> USE DEF MailInv
<1>1. /\ kept = <<>> /\ kept' = <<>> /\ target.at = "wait"
      /\ UNCHANGED <<mechanism, data0, data1, seq, queue, got, missed, asked, hartHalted, halted, sawEmpty>>
  BY DEF Mail!TargetSees, Mail!External, Hart, Mail!pollVars, Mail!lookVars, Mail!takeVars,
         Mail!hostVars, Mail!wordVars
<1>2. /\ Answered /\ Taken /\ target'.at = "post" /\ target'.next = Mail!Least(target.next + 1, Talked + 1)
      /\ target'.rx = target.rx \o OnWay /\ OnWay \in Seq(Nat)
      /\ target' \in [at : {"post", "post0", "wait"}, next : 0 .. Talked + 1, s : {0, 1}, lastH : {0, 1},
                      syn : BOOLEAN, rx : Seq(Nat)]
      /\ Sequenced => /\ target'.s = 1 - target.s /\ target'.syn = FALSE
                      /\ target'.lastH = IF seq.chunk # <<>> THEN seq.h ELSE target.lastH
      /\ mechanism = "sdi" => target.next < Talked
  BY <1>1, TargetGoesOn
<1>3. Mail!Said' = Mail!Said /\ Talked' = Talked /\ (Sequenced' <=> Sequenced)
  BY <1>1 DEF Mail!Said, Talked, Sequenced
<1>4. Word0 = data0 /\ Word0' = data0 /\ Word1 = data1 /\ Word1' = data1
  BY <1>1 DEF Word0, Word1
<1>5. /\ target.next \in 0 .. Talked + 1 /\ Talked \in Nat /\ seq.s \in {0, 1} /\ target.s \in {0, 1}
      /\ target'.next \in 1 .. Talked + 1 /\ target'.next = Mail!Least(target.next, Talked) + 1
  <2>1. /\ target.next \in 0 .. Talked + 1 /\ Talked \in Nat /\ seq.s \in {0, 1} /\ target.s \in {0, 1}
    BY DEF MailTypes, Mail!MailAssumption, Talked, Mail!Said
  <2>2. target'.next = Mail!Least(target.next + 1, Talked + 1)
    BY <1>2
  <2> QED BY ONLY <2>1, <2>2 DEF Mail!Least
<1>6. Word0.kind = IF mechanism = "sdi" THEN "zero" ELSE IF Sequenced THEN "answer" ELSE Word0.kind
  BY <1>2 DEF Answered, MailWords, Lies
<1>7. Word0.kind \in {"zero", "answer"}
  BY <1>2 DEF Answered
<1>8. ~Answered' /\ ~Taken'
  BY <1>1, <1>2, <1>3, <1>5 DEF Answered, Taken
<1>9. OnWay' = <<>>
  <2>1. CASE Sequenced
    BY <1>1, <1>2, <1>3, <2>1 DEF OnWay
  <2>2. CASE ~Sequenced
    BY <1>2, <1>3, <2>2 DEF OnWay
  <2> QED BY <2>1, <2>2
<1>10. MailTypes'
  BY <1>1, <1>2, TypesOfTarget
<1>11. Lies'
  BY <1>1, <1>2, <1>3, <1>4, <1>5, <1>7 DEF MailWords, Lies, Mail!Least
<1>12. Counts'
  <2>1. Len(got) = Mail!Least(target.next, Talked)
    BY <1>2 DEF MailWords, Counts
  <2>2. Len(got') = target'.next - 1
    BY <1>1, <1>5, <2>1 DEF Mail!Least
  <2> QED BY <1>4, <1>7, <1>8, <2>2 DEF Counts
<1>13. TypedIn'
  <2>1. mechanism # "sdi" => Input = target'.rx \o OnWay' \o queue'
    <3>1. target.rx \o OnWay \in Seq(Nat)
      BY <1>2 DEF MailTypes
    <3>2. (target.rx \o OnWay) \o <<>> = target.rx \o OnWay
      BY <3>1
    <3> QED BY <1>1, <1>2, <1>9, <3>2 DEF MailWords, TypedIn
  <2>2. mechanism = "sdi" => target'.rx = <<>> /\ queue' = <<>>
    <3>1. mechanism = "sdi" => OnWay = <<>> /\ target.rx = <<>>
      BY <1>6 DEF OnWay, Mail!BytesOf, Sequenced, MailWords, TypedIn
    <3> QED BY <1>1, <1>2, <3>1 DEF MailWords, TypedIn
  <2> QED BY <1>1, <1>3, <1>4, <1>5, <2>1, <2>2 DEF MailWords, TypedIn
<1>14. SeqBits'
  <2>1. Sequenced => seq.synced /\ (seq.chunk = <<>> => target.lastH # seq.h)
    BY <1>2 DEF MailWords, SeqBits, Taken
  <2> QED BY <1>1, <1>2, <1>3, <1>8, <2>1 DEF SeqBits
<1>15. ASSUME NEW X, X.kind = "frame", Seen(X) PROVE Sequenced => X.s = target.s /\ X.s # target'.s
  BY <1>2, <1>5, <1>15 DEF Seen
<1>16. ASSUME NEW X, NEW w, X.kind = "frame", X.long, Seen(X), Fits(X, w) PROVE Fits(X, w)'
  <2>1. CASE Sequenced
    BY <1>3, <1>15, <1>16, <2>1 DEF Fits
  <2>2. CASE ~Sequenced
    <3>1. RestsOf(X) \subseteq RestsOf(X)'
      <4>1. target.next <= target'.next
        BY <1>2, <1>5 DEF Mail!Least
      <4>2. Rests(X) \subseteq Rests(X)'
        BY <1>3, <1>5, <4>1 DEF Rests
      <4> QED BY <1>1, <1>3, <4>2 DEF RestsOf, Mail!RestOf
    <3>2. target.next > Talked \/ (target.next \in 1 .. Talked /\ X = Mail!Frame)
      BY <1>2, <1>16, <2>2 DEF Seen
    <3>3. IsLong => RestNow \in RestsOf(X)
      <4> SUFFICES ASSUME IsLong PROVE RestNow \in RestsOf(X)
        OBVIOUS
      <4>1. target.next \in 1 .. Talked /\ X = Mail!Frame /\ Mail!Said[target.next].rest # none
        BY <1>5, <3>2 DEF IsLong
      <4>2. X.first = Mail!Said[target.next].first
        BY <1>5, <4>1, FrameIs
      <4>3. RestNow = Mail!RestOf(X, Mail!Said[target.next].rest)
        BY <4>1 DEF RestNow
      <4> QED BY <4>1, <4>2, <4>3 DEF RestsOf, Rests
    <3>4. w \in RestsOf(X)
      BY <1>16, <2>2, <3>3 DEF Fits
    <3> QED BY <1>3, <2>2, <3>1, <3>4 DEF Fits
  <2> QED BY <2>1, <2>2
<1>17. FitsGoOn
  BY <1>16 DEF FitsGoOn
<1>18. SeenGoesOn
  <2> SUFFICES ASSUME NEW X, Seen(X), X.kind = "frame" PROVE Seen(X)'
    BY DEF SeenGoesOn, Seen
  <2>1. X.long => Fits(X, Word1)'
    BY <1>4, <1>16 DEF Seen
  <2>2. Sequenced => X.s \in {0, 1}
    BY DEF Seen
  <2> QED BY <1>3, <1>8, <1>15, <2>1, <2>2 DEF Seen
<1> QED BY <1>1, <1>10, <1>11, <1>12, <1>13, <1>14, <1>17, <1>18, TargetSteps DEF MailWords, Mail!TargetSees

\* A step that moves no word of the mailbox.
LEMMA NothingMoves ==
  ASSUME MailTypes, MailWords, Word0' = Word0, Word1' = Word1,
         UNCHANGED <<mechanism, target, seq, queue, got>>, missed' \in 0 .. Misses,
         asked' \in BOOLEAN, hartHalted' \in BOOLEAN, halted' \in BOOLEAN, sawEmpty' \in BOOLEAN
  PROVE  MailTypes' /\ MailWords' /\ SeenGoesOn /\ FitsGoOn
<1>1. Mail!Said' = Mail!Said /\ Talked' = Talked
  BY DEF Mail!Said, Talked
<1>2. Texts' = Texts /\ \A i : TextsOf(i)' = TextsOf(i)
  BY TextsStay
<1>3. MailTypes'
  BY <1>1, <1>2 DEF MailTypes
<1> QED BY <1>3, WordsStay

\* A host moves the words aside and back, and the next poll looks at the hart first.
LEMMA HostKeeps ==
  ASSUME MailInv, Mail!Halt \/ Mail!keepMailbox \/ Mail!giveMailbox \/ Mail!Resume
  PROVE  MailInv'
<1> USE DEF MailInv
<1>1. /\ UNCHANGED <<mechanism, target, seq, queue, got, missed, hartHalted, sawEmpty>>
      /\ pc' = "idle" /\ asked' = TRUE
  BY DEF Mail!Halt, Mail!keepMailbox, Mail!giveMailbox, Mail!Resume, Mail!Probe, Mail!takeVars
<1>2. Word0' = Word0 /\ Word1' = Word1 /\ halted' \in BOOLEAN /\ (kept' # <<>> => halted')
  <2>1. CASE Mail!Halt \/ Mail!Resume
    BY <2>1 DEF Mail!Halt, Mail!Resume, Word0, Word1, Mail!wordVars, Hart
  <2>2. CASE Mail!keepMailbox
    <3>1. kept = <<>> /\ kept' = <<data0, data1>> /\ halted' = halted /\ halted
      BY <2>2 DEF Mail!keepMailbox, Mail!wordVars
    <3>2. kept' # <<>> /\ kept'[1] = data0 /\ kept'[2] = data1
      BY <3>1
    <3> QED BY <3>1, <3>2 DEF Word0, Word1
  <2>3. CASE Mail!giveMailbox
    BY <2>3 DEF Mail!giveMailbox, Word0, Word1, MailTypes
  <2> QED BY <2>1, <2>2, <2>3
<1>3. ~halted' => lastRead' = Mail!Status(FALSE)
  BY DEF Mail!Halt, Mail!keepMailbox, Mail!giveMailbox, Mail!Resume, Hart, MailTypes
<1>4. Seen(Mail!Status(FALSE))'
  BY DEF Seen, Mail!Status
<1>5. ~halted' => Seen(lastRead)'
  BY <1>3, <1>4
<1>6. Reads' /\ Looks'
  BY <1>1, <1>5, IdleReads
<1>7. Hart'
  BY <1>1, <1>2 DEF Hart, Path
<1>8. MailTypes' /\ MailWords'
  BY <1>1, <1>2, NothingMoves DEF MailTypes
<1> QED BY <1>6, <1>7, <1>8

\* A step of a poll before it acts.
LEMMA PollMoves ==
  ASSUME MailInv, Mail!Same, missed' \in 0 .. Misses
  PROVE  /\ MailTypes' /\ MailWords' /\ SeenGoesOn /\ FitsGoOn
         /\ UNCHANGED <<mechanism, data0, data1, halted, kept, asked, hartHalted>>
<1>1. UNCHANGED <<mechanism, data0, data1, halted, kept, asked, hartHalted, sawEmpty, target, seq, queue, got>>
  BY DEF Mail!Same, Mail!wordVars, Mail!lookVars, Mail!takeVars, Mail!hostVars
<1>2. Word0' = Word0 /\ Word1' = Word1
  BY <1>1 DEF Word0, Word1
<1>3. MailTypes' /\ MailWords' /\ SeenGoesOn /\ FitsGoOn
  BY <1>1, <1>2, NothingMoves DEF MailInv, MailTypes
<1> QED BY <1>1, <1>3

\* Away from the words of the mailbox.
LEMMA OffPath ==
  ASSUME pc' \notin Path, ~halted' => Seen(lastRead)'
  PROVE  Reads'
BY DEF Reads, Confirms, Path

\* Two reads of DMSTATUS that agree are DMSTATUS: one missed gives what was before or DMCONTROL.
LEMMA LookKeeps ==
  ASSUME Mail!MailAssumption, OneMiss, MailInv,
         Mail!PollLooks \/ Mail!PollReads \/ Mail!ReadStatus \/ Mail!ReadControl \/ Mail!ReadAgain \/ Mail!Judge
  PROVE  MailInv'
<1> USE DEF MailInv
<1>1. missed \in Nat /\ Misses \in {0, 1} /\ missed \in 0 .. Misses
  BY DEF MailTypes, Mail!MailAssumption, OneMiss
<1>2. ASSUME NEW X, X.kind # "frame" PROVE Seen(X)'
  BY <1>2 DEF Seen
<1>3. Mail!Control.kind # "frame" /\ \A h : Mail!Status(h).kind # "frame"
  BY DEF Mail!Control, Mail!Status
<1>4. CASE Mail!PollLooks \/ Mail!PollReads
  <2>1. /\ Mail!Same /\ missed' = 0 /\ lastRead' = lastRead
        /\ pc' \in {"status", "data0"} /\ (pc' = "data0" => ~halted)
    BY <1>4 DEF Mail!PollLooks, Mail!PollReads, Hart
  <2>2. /\ MailTypes' /\ MailWords' /\ SeenGoesOn
        /\ UNCHANGED <<halted, kept, asked, hartHalted>>
    BY <1>1, <2>1, PollMoves
  <2>3. pc' \notin Path /\ ~halted' => Seen(lastRead)'
    BY <2>1, <2>2 DEF Path, Reads, SeenGoesOn
  <2>4. Reads'
    BY <2>1, <2>2, <2>3, OffPath DEF Path
  <2> QED BY <2>1, <2>2, <2>4 DEF Looks, Hart, Path
<1>5. CASE Mail!ReadStatus \/ Mail!ReadControl \/ Mail!ReadAgain
  <2>1. /\ Mail!Same /\ missed' \in 0 .. Misses /\ pc' \in {"control", "again", "judge", "idle"}
        /\ lastRead' \in {lastRead, Mail!Control, Mail!Status(halted)}
    <3>1. Mail!Same /\ (missed' = missed \/ (missed < Misses /\ missed' = missed + 1))
      BY <1>5 DEF Mail!ReadStatus, Mail!ReadControl, Mail!ReadAgain, Mail!ReadTo
    <3>2. /\ pc' \in {"control", "again", "judge", "idle"}
          /\ lastRead' \in {lastRead, Mail!Control, Mail!Status(halted)}
      BY <1>5 DEF Mail!ReadStatus, Mail!ReadControl, Mail!ReadAgain, Mail!ReadTo, Mail!Ends
    <3> QED BY ONLY <1>1, <3>1, <3>2
  <2>2. /\ MailTypes' /\ MailWords' /\ SeenGoesOn /\ halted' = halted
        /\ UNCHANGED <<halted, kept, asked, hartHalted>>
    BY <1>1, <2>1, PollMoves
  <2>3. ~halted' => Seen(lastRead)'
    BY <1>2, <1>3, <2>1, <2>2 DEF Reads, SeenGoesOn
  <2>4. Reads'
    BY <2>1, <2>3, OffPath DEF Path
  <2>5. pc' = "control" /\ missed' = 0 => w0' = Mail!Status(halted)
    BY <1>1, <1>5 DEF Mail!ReadStatus, Mail!ReadControl, Mail!ReadAgain, Mail!ReadTo, Mail!Ends, Mail!Keeps0
  <2>6. pc' = "again" /\ missed' = 0 => lastRead' = Mail!Control
    BY <1>1, <1>5 DEF Mail!ReadStatus, Mail!ReadControl, Mail!ReadAgain, Mail!ReadTo, Mail!Ends
  <2>7. pc' = "judge" => w1' \in {Mail!Status(halted), Mail!Control}
    BY <1>1, <1>5 DEF Mail!ReadStatus, Mail!ReadControl, Mail!ReadAgain, Mail!ReadTo, Mail!Ends, Mail!Keeps1, Looks
  <2>8. Looks'
    BY <2>2, <2>5, <2>6, <2>7 DEF Looks, Mail!Status, Mail!Control
  <2> QED BY <2>1, <2>2, <2>4, <2>8 DEF Hart, Path
<1>6. CASE Mail!Judge
  <2>1. /\ UNCHANGED <<mechanism, data0, data1, lastRead, missed, sawEmpty, seq, queue, got, halted, kept, target>>
        /\ Word0' = Word0 /\ Word1' = Word1
    BY <1>6 DEF Mail!Judge, Mail!wordVars, Mail!takeVars,
           Mail!hostVars, Word0, Word1
  <2>2. /\ pc' \in {"idle", "data0"} /\ (~asked' => (hartHalted' <=> halted)) /\ (pc' = "data0" => ~halted)
        /\ asked' \in BOOLEAN /\ hartHalted' \in BOOLEAN
    <3>1. CASE w0 = w1 /\ Mail!Module(w0)
      <4>1. w0 = Mail!Status(halted) /\ Mail!MayBeHalted(w0) = {halted}
        BY <1>6, <3>1 DEF Mail!Judge, Looks, Mail!Module, Mail!Control, Mail!Status, Mail!MayBeHalted
      <4>2. asked' = FALSE /\ hartHalted' = halted
            /\ IF halted THEN Mail!Ends ELSE pc' = "data0" /\ w0' = Mail!Zero /\ w1' = Mail!Zero /\ UNCHANGED other
        <5>1. Mail!LookDone(w0)
          BY <1>6, <3>1 DEF Mail!Judge
        <5>2. \E h \in Mail!MayBeHalted(w0) :
                /\ asked' = FALSE /\ hartHalted' = h
                /\ IF h THEN Mail!Ends ELSE pc' = "data0" /\ w0' = Mail!Zero /\ w1' = Mail!Zero /\ UNCHANGED other
          BY <3>1, <5>1 DEF Mail!LookDone
        <5> QED BY <4>1, <5>2
      <4> QED BY <4>2 DEF Mail!Ends, MailTypes
    <3>2. CASE ~(w0 = w1 /\ Mail!Module(w0))
      BY <1>6, <3>2 DEF Mail!Judge, Mail!LookDone, Mail!Ends, MailTypes, Mail!lookVars, Hart
    <3> QED BY <3>1, <3>2
  <2>3. MailTypes' /\ MailWords' /\ SeenGoesOn
    BY <2>1, <2>2, NothingMoves DEF MailTypes
  <2>4. ~halted' => Seen(lastRead)'
    BY <2>1, <2>3 DEF Reads, SeenGoesOn
  <2>5. Reads'
    BY <2>2, <2>4, OffPath DEF Path
  <2> QED BY <2>1, <2>2, <2>3, <2>5 DEF Looks, Hart, Path
<1> QED BY <1>4, <1>5, <1>6

\* A poll that goes on with the word it has read, and one that ends.
LEMMA PathGoesOn ==
  ASSUME MailInv, Mail!Same, missed' \in 0 .. Misses, pc \in Path,
         \/ /\ missed' = 0 => missed = 0
            /\ pc' \in Path \ {"first"} /\ w0' = w0 /\ Mail!ActedOn(w0) /\ Confirms'
            /\ pc' = "same0" => other' = lastRead' /\ (other' = w0 /\ Firm(w0) => data0 = w0)
         \/ pc' = "idle",
         Seen(lastRead)'
  PROVE  MailInv'
<1> USE DEF MailInv
<1>1. /\ MailTypes' /\ MailWords' /\ SeenGoesOn
      /\ UNCHANGED <<mechanism, data0, halted, kept, asked, hartHalted>>
  BY PollMoves
<1>2. Hart'
  BY <1>1 DEF Hart, Path
<1>3. CASE pc' = "idle"
  BY <1>1, <1>2, <1>3, IdleReads
<1>4. CASE pc' # "idle"
  <2>1. /\ missed' = 0 => missed = 0
        /\ pc' \in Path \ {"first"} /\ w0' = w0 /\ Mail!ActedOn(w0) /\ Confirms'
        /\ pc' = "same0" => other' = lastRead' /\ (other' = w0 /\ Firm(w0) => data0 = w0)
    BY <1>4
  <2>2. (Firm(w0)' <=> Firm(w0)) /\ (Mail!ActedOn(w0)' <=> Mail!ActedOn(w0))
    BY <1>1, <2>1 DEF Firm, Mail!ActedOn
  <2>3. Seen(w0)'
    BY <1>1, <2>1 DEF Reads, SeenGoesOn
  <2>4. missed' = 0 /\ Firm(w0)' => data0' = w0'
    BY <1>1, <2>1, <2>2 DEF Reads
  <2>5. Reads'
    BY <1>1, <2>1, <2>2, <2>3, <2>4 DEF Reads
  <2>6. Looks'
    BY <2>1 DEF Looks, Path
  <2> QED BY <1>1, <1>2, <2>5, <2>6
<1> QED BY <1>3, <1>4

\* A poll misses one access at most.
LEMMA MissesOne ==
  ASSUME MailTypes, Mail!MailAssumption, OneMiss, missed' = missed \/ (missed < Misses /\ missed' = missed + 1)
  PROVE  missed' \in 0 .. Misses /\ (missed' = 0 => missed = 0) /\ (missed' # missed => missed = 0 /\ missed' = 1)
BY DEF MailTypes, Mail!MailAssumption, OneMiss

\* A first read of DATA0 gives what lies there, or, missed, the word read last.
LEMMA ReadData0Keeps ==
  ASSUME Mail!MailAssumption, OneMiss, MailInv, Mail!ReadData0
  PROVE  MailInv'
<1> USE DEF MailInv
<1>1. /\ pc = "data0" /\ Mail!Same /\ missed' \in 0 .. Misses /\ (missed' = 0 => missed = 0)
      /\ \/ w0' = data0 /\ pc' = "first" /\ lastRead' = data0
         \/ missed' = 1 /\ lastRead' = lastRead /\ ((w0' = lastRead /\ pc' = "first") \/ pc' = "idle")
  <2>1. /\ pc = "data0" /\ Mail!Same /\ (missed' = missed \/ (missed < Misses /\ missed' = missed + 1))
        /\ \/ w0' = data0 /\ pc' = "first" /\ lastRead' = data0 /\ missed' = missed
           \/ /\ missed < Misses /\ missed' = missed + 1 /\ lastRead' = lastRead
              /\ (w0' = lastRead /\ pc' = "first") \/ pc' = "idle"
    BY DEF Mail!ReadData0, Mail!ReadTo, Mail!Keeps0, Mail!Ends
  <2>2. missed < Misses /\ missed' = missed + 1 => missed' = 1
    BY DEF MailTypes, Mail!MailAssumption, OneMiss
  <2>3. missed' \in 0 .. Misses /\ (missed' = 0 => missed = 0)
    BY <2>1, MissesOne
  <2> QED BY <2>1, <2>2, <2>3
<1>2. /\ MailTypes' /\ MailWords' /\ SeenGoesOn
      /\ UNCHANGED <<mechanism, data0, halted, kept, asked, hartHalted>>
  BY <1>1, PollMoves
<1>3. ~halted /\ kept = <<>>
  BY <1>1 DEF Hart
<1>4. Seen(data0)' /\ Seen(lastRead)
  BY <1>2, <1>3, SeenNow DEF SeenGoesOn, Reads
<1>5. Seen(lastRead)'
  <2>1. CASE lastRead' = data0
    BY <1>2, <1>4, <2>1
  <2>2. CASE lastRead' = lastRead
    BY <1>2, <1>4, <2>2 DEF SeenGoesOn
  <2> QED BY <1>1, <2>1, <2>2
<1>6. pc' = "first" => w0' = lastRead' /\ (missed' = 0 => data0' = w0')
  BY <1>1, <1>2
<1>7. pc' = "first" => Seen(w0)'
  BY <1>5, <1>6
<1>8. Looks' /\ Confirms'
  BY <1>1 DEF Looks, Confirms, Path
<1>9. Reads'
  BY <1>1, <1>5, <1>6, <1>7, <1>8 DEF Reads, Path
<1>10. Hart'
  BY <1>2, <1>3 DEF Hart
<1> QED BY <1>2, <1>8, <1>9, <1>10

\* What is to be acted on is read again.
LEMMA FirstKeeps ==
  ASSUME Mail!MailAssumption, OneMiss, MailInv, Mail!First
  PROVE  MailInv'
<1> USE DEF MailInv
<1>1. /\ pc = "first" /\ UNCHANGED <<mechanism, data0, data1, lastRead, missed, asked, hartHalted, seq, queue, got,
                                     halted, kept, target>>
      /\ Word0' = Word0 /\ Word1' = Word1 /\ sawEmpty' \in BOOLEAN
      /\ \/ Mail!ActedOn(w0) /\ pc' = (IF Mail!WithData1 THEN "data1" ELSE "between") /\ w0' = w0 /\ w1' = w1
         \/ pc' = "idle"
  BY DEF Mail!First, Mail!wordVars, Mail!lookVars, Mail!hostVars, Mail!pollVars, Mail!Ends, Word0, Word1,
         MailTypes
<1>2. MailTypes' /\ MailWords' /\ SeenGoesOn
  BY <1>1, NothingMoves DEF MailTypes
<1>3. Hart' /\ Looks'
  BY <1>1 DEF Hart, Looks, Path
<1>4. Seen(lastRead)'
  BY <1>1, <1>2 DEF Hart, Path, Reads, SeenGoesOn
<1>5. CASE pc' = "idle"
  BY <1>2, <1>3, <1>4, <1>5, IdleReads
<1>6. CASE pc' # "idle"
  <2>1. Seen(w0)'
    BY <1>1, <1>2, <1>6 DEF Reads, SeenGoesOn, Path
  <2>2. (Firm(w0)' <=> Firm(w0)) /\ (Mail!ActedOn(w0)' <=> Mail!ActedOn(w0))
    BY <1>1, <1>6 DEF Firm, Mail!ActedOn
  <2>3. Confirms'
    BY <1>1, <1>6 DEF Confirms, Mail!WithData1
  <2>4. Reads'
    BY <1>1, <1>4, <1>6, <2>1, <2>2, <2>3 DEF Reads, Path
  <2> QED BY <1>2, <1>3, <2>4
<1> QED BY <1>5, <1>6

\* The words of a poll that confirms: no head, and no rest but the one that goes with the head.
LEMMA ConfirmKeeps ==
  ASSUME Mail!MailAssumption, OneMiss, MailInv,
         Mail!ReadData1 \/ Mail!ReadBetween \/ Mail!ReadData1Again \/ Mail!Same1 \/ Mail!ReadData0Again
  PROVE  MailInv'
<1> USE DEF MailInv
<1>1. /\ Mail!Same /\ (missed' = missed \/ (missed < Misses /\ missed' = missed + 1))
      /\ pc \in {"data1", "between", "data1again", "same1", "data0again"}
  BY DEF Mail!ReadData1, Mail!ReadBetween, Mail!ReadData1Again, Mail!Same1, Mail!ReadData0Again, Mail!ReadTo
<1>2. missed' \in 0 .. Misses /\ (missed' = 0 => missed = 0) /\ (missed' # missed => missed = 0 /\ missed' = 1)
  BY <1>1, MissesOne
<1>3. missed < Misses /\ missed' = missed + 1 => missed' # missed
  BY DEF MailTypes, Mail!MailAssumption
<1>4. /\ MailTypes' /\ MailWords' /\ SeenGoesOn /\ FitsGoOn
      /\ UNCHANGED <<mechanism, data0, data1, halted, kept, asked, hartHalted>>
  BY <1>1, <1>2, PollMoves
<1>5. /\ ~halted /\ kept = <<>> /\ Word1 = data1 /\ Seen(data0) /\ Seen(lastRead) /\ Seen(w0) /\ Mail!ActedOn(w0)
      /\ pc \in Path
  BY <1>1, SeenNow DEF Hart, Path, Word1, Reads
<1>6. ASSUME NEW X, X.kind # "frame" PROVE Seen(X)'
  BY <1>6 DEF Seen
<1>7. data1.kind # "frame" /\ Mail!Between.kind # "frame"
  BY <1>5 DEF Mail!Between, Mail!Control, Mail!Status, MailWords, Lies
<1>8. lastRead' \in {lastRead, data0, data1, Mail!Between}
  BY DEF Mail!ReadData1, Mail!ReadBetween, Mail!ReadData1Again, Mail!Same1, Mail!ReadData0Again, Mail!ReadTo
<1>9. Seen(lastRead)'
  <2>1. CASE lastRead' = lastRead
    BY <1>4, <1>5, <2>1 DEF SeenGoesOn
  <2>2. CASE lastRead' = data0
    BY <1>4, <1>5, <2>2 DEF SeenGoesOn
  <2>3. CASE lastRead' = data1
    BY <1>6, <1>7, <2>3
  <2>4. CASE lastRead' = Mail!Between
    BY <1>6, <1>7, <2>4
  <2> QED BY <1>8, <2>1, <2>2, <2>3, <2>4
<1>10. ASSUME NEW w, w0' = w0, w0.kind = "frame", w0.long, Fits(w0, w) PROVE Fits(w0, w)'
  BY <1>4, <1>5, <1>10 DEF FitsGoOn
<1>11. w0.kind = "frame" /\ w0.long => Fits(w0, data1)
  BY <1>5 DEF Seen
<1>12. CASE Mail!ReadData1
  <2>1. \/ pc' = "between" /\ w0' = w0 /\ (w1' = data1 \/ missed' # missed)
        \/ pc' = "idle"
    BY <1>3, <1>12 DEF Mail!ReadData1, Mail!ReadTo, Mail!Keeps1, Mail!Ends
  <2>2. pc' # "idle" => Confirms'
    BY <1>2, <1>10, <1>11, <2>1 DEF Confirms
  <2> QED BY <1>1, <1>2, <1>5, <1>9, <2>1, <2>2, PathGoesOn DEF Path
<1>13. CASE Mail!ReadBetween
  <2>1. \/ /\ pc' \in {"data1again", "data0again"} /\ (pc' = "data0again" => ~Mail!WithData1)
           /\ w0' = w0 /\ w1' = w1 /\ pc = "between"
        \/ pc' = "idle"
    BY <1>13 DEF Mail!ReadBetween, Mail!ReadTo, Mail!KeepsNone, Mail!Ends, Mail!pollVars
  <2>2. pc' # "idle" => Confirms'
    BY <1>2, <1>10, <2>1 DEF Confirms, Mail!WithData1, Reads, Path
  <2> QED BY <1>1, <1>2, <1>5, <1>9, <2>1, <2>2, PathGoesOn DEF Path
<1>14. CASE Mail!ReadData1Again
  <2>1. \/ /\ pc' = "same1" /\ w0' = w0 /\ w1' = w1 /\ pc = "data1again"
           /\ other' = data1 \/ missed' # missed
        \/ pc' = "idle"
    BY <1>3, <1>14 DEF Mail!ReadData1Again, Mail!ReadTo, Mail!KeepsOther, Mail!Ends
  <2>2. pc' # "idle" => Confirms'
    BY <1>2, <1>10, <1>11, <2>1 DEF Confirms, Reads, Path
  <2> QED BY <1>1, <1>2, <1>5, <1>9, <2>1, <2>2, PathGoesOn DEF Path
<1>15. CASE Mail!Same1
  <2>1. /\ pc = "same1"
        /\ \/ pc' = "data0again" /\ w0' = w0 /\ w1' = w1 /\ other = w1
           \/ pc' = "idle"
    BY <1>15 DEF Mail!Same1, Mail!Ends, Mail!pollVars
  <2>2. pc' # "idle" => Confirms'
    BY <1>10, <2>1 DEF Confirms, Reads, Path
  <2> QED BY <1>1, <1>2, <1>5, <1>9, <2>1, <2>2, PathGoesOn DEF Path
<1>16. CASE Mail!ReadData0Again
  <2>1. \/ /\ pc' = "same0" /\ w0' = w0 /\ w1' = w1 /\ pc = "data0again" /\ other' = lastRead'
           /\ other' = data0 \/ missed' # missed
        \/ pc' = "idle"
    BY <1>3, <1>16 DEF Mail!ReadData0Again, Mail!ReadTo, Mail!KeepsOther, Mail!Ends
  <2>2. pc' # "idle" => Confirms'
    BY <1>10, <2>1 DEF Confirms, Reads, Path
  <2>3. pc' # "idle" /\ other' = w0 /\ Firm(w0) => data0 = w0
    BY <1>2, <1>5, <2>1 DEF Reads
  <2> QED BY <1>1, <1>2, <1>5, <1>9, <2>1, <2>2, <2>3, PathGoesOn DEF Path
<1> QED BY <1>12, <1>13, <1>14, <1>15, <1>16

\* Input put together.
LEMMA Joins == \A a, b, c \in Seq(Nat) : a \o (b \o c) = (a \o b) \o c
<1> SUFFICES ASSUME NEW a \in Seq(Nat), NEW b \in Seq(Nat), NEW c \in Seq(Nat)
             PROVE  a \o (b \o c) = (a \o b) \o c
  OBVIOUS
<1>1. /\ b \o c \in Seq(Nat) /\ a \o b \in Seq(Nat)
      /\ Len(b \o c) = Len(b) + Len(c) /\ Len(a \o b) = Len(a) + Len(b)
      /\ Len(a) \in Nat /\ Len(b) \in Nat /\ Len(c) \in Nat
  OBVIOUS
<1>2. /\ a \o (b \o c) \in Seq(Nat) /\ (a \o b) \o c \in Seq(Nat)
      /\ Len(a \o (b \o c)) = Len(a) + Len(b) + Len(c) /\ Len((a \o b) \o c) = Len(a) + Len(b) + Len(c)
  BY <1>1
<1>3. ASSUME NEW i \in 1 .. Len(a) + Len(b) + Len(c) PROVE (a \o (b \o c))[i] = ((a \o b) \o c)[i]
  <2>1. (a \o (b \o c))[i] = IF i <= Len(a) THEN a[i] ELSE (b \o c)[i - Len(a)]
    BY <1>1
  <2>2. ((a \o b) \o c)[i] = IF i <= Len(a) + Len(b) THEN (a \o b)[i] ELSE c[i - (Len(a) + Len(b))]
    BY <1>1
  <2>3. CASE i <= Len(a)
    BY <1>1, <2>1, <2>2, <2>3
  <2>4. CASE i > Len(a)
    BY <1>1, <2>1, <2>2, <2>4
  <2> QED BY <1>1, <2>3, <2>4
<1> QED BY <1>2, <1>3, SeqEqual

\* What an answer takes of the queue, and what it leaves.
LEMMA Pieces ==
  ASSUME NEW q \in Seq(Nat), NEW k \in Nat
  PROVE  Mail!Upto(q, k) \in Seq(Nat) /\ Mail!After(q, k) \in Seq(Nat) /\ Mail!Upto(q, k) \o Mail!After(q, k) = q
<1> DEFINE m == Mail!Least(k, Len(q))
<1>1. m \in 0 .. Len(q) /\ Len(q) \in Nat
  BY DEF Mail!Least
<1> HIDE DEF m
<1>2. SubSeq(q, 1, m) \in Seq(Nat) /\ SubSeq(q, m + 1, Len(q)) \in Seq(Nat)
  BY <1>1
<1>3. SubSeq(q, 1, m) \o SubSeq(q, m + 1, Len(q)) = q
  <2>1. SubSeq(q, 1, m) \o SubSeq(q, m + 1, Len(q)) = SubSeq(q, 1, Len(q))
    <3>1. 1 \in 1 .. Len(q) + 1 /\ m \in 1 - 1 .. Len(q) /\ Len(q) \in m .. Len(q)
      BY <1>1
    <3> QED BY ONLY <3>1, q \in Seq(Nat), ConcatAdjacentSubSeq
  <2> QED BY <2>1, SubSeqFull
<1> QED BY <1>2, <1>3 DEF Mail!Upto, Mail!After, m

\* What is acted on is what lies in the mailbox, and its rest goes with it.
LEMMA TextIs ==
  ASSUME Mail!MailAssumption, MailTypes, Reads, pc = "same0", w0 = Mail!Frame,
         Mail!Frame.kind = "frame",
         target.next \in 1 .. Talked
  PROVE  Mail!Text \in TextsOf(target.next)
<1>1. /\ (w0.long <=> IsLong) /\ w0.first = Mail!Said[target.next].first /\ (Sequenced => w0.s = target.s)
      /\ Talked \in Nat /\ w0.kind = "frame" /\ mechanism \in Mechanisms
  BY FrameIs DEF Mail!Empty, Mail!MailAssumption, Talked, Mail!Said, MailTypes
<1>3. CASE ~IsLong
  <2>1. Mail!Said[target.next].rest = none
    BY <1>3 DEF IsLong
  <2>2. Mail!Text = <<Mail!Said[target.next].first, none>> /\ Mail!RestsFor(target.next) = {none}
    BY <1>1, <1>3, <2>1 DEF Mail!Text, Mail!RestsFor
  <2> QED BY <2>2 DEF TextsOf
<1>4. CASE IsLong
  <2>1. Fits(w0, w1)
    BY <1>1, <1>4 DEF Reads, Confirms, Path
  <2>2. w1.kind = "rest" /\ w1.rest \in Mail!RestsFor(target.next)
    <3>1. CASE w1 = RestNow
      <4>1. w1.kind = "rest" /\ w1.rest = Mail!Said[target.next].rest
        BY <3>1 DEF RestNow, Mail!RestOf
      <4>2. Mail!Said[target.next].rest # none /\ target.next \in 1 .. target.next
        BY <1>4 DEF IsLong
      <4> QED BY <4>1, <4>2 DEF Mail!RestsFor
    <3>2. CASE ~Sequenced /\ w1 \in RestsOf(w0)
      <4>1. PICK i \in 1 .. Talked : /\ i <= target.next
                                     /\ Mail!Said[i].first = w0.first /\ Mail!Said[i].rest # none
                                     /\ w1 = Mail!RestOf(w0, Mail!Said[i].rest)
        BY <3>2 DEF RestsOf, Rests
      <4>2. w1.kind = "rest" /\ w1.rest = Mail!Said[i].rest
        BY <4>1 DEF Mail!RestOf
      <4>3. i \in 1 .. target.next /\ Mail!Said[i].first = Mail!Said[target.next].first
        BY <1>1, <4>1
      <4>4. mechanism # "dmseq" /\ Mail!Said[target.next].rest # none
        BY <1>4, <3>2 DEF Sequenced, IsLong
      <4> QED BY <4>1, <4>2, <4>3, <4>4 DEF Mail!RestsFor
    <3> QED BY <1>1, <2>1, <3>1, <3>2 DEF Fits
  <2>3. Mail!Text = <<w0.first, w1.rest>>
    BY <1>1, <1>4, <2>2 DEF Mail!Text
  <2> QED BY <1>1, <2>2, <2>3 DEF TextsOf
<1> QED BY <1>3, <1>4

\* The sink gets the next frame.
LEMMA GotGrows ==
  ASSUME Mail!MailAssumption, MailTypes, mechanism' = mechanism, target.next \in 1 .. Talked,
         Len(got) = target.next - 1, NEW text \in TextsOf(target.next), got' = Append(got, text)
  PROVE  /\ got' \in Seq(Texts') /\ Len(got') = target.next /\ Len(got') <= Talked'
         /\ \A i \in 1 .. Len(got') : got'[i] \in TextsOf(i)'
<1>1. Mail!Said' = Mail!Said /\ Talked' = Talked /\ Talked \in Nat
  BY DEF Mail!Said, Talked, Mail!MailAssumption, MailTypes
<1>2. Texts' = Texts /\ \A i : TextsOf(i)' = TextsOf(i)
  BY TextsStay
<1>3. /\ got \in Seq(Texts) /\ \A i \in 1 .. Len(got) : got[i] \in TextsOf(i)
      /\ text \in Texts
  BY DEF MailTypes, Texts
<1>4. Len(got') = target.next /\ got' \in Seq(Texts)
  BY <1>1, <1>3
<1>5. \A i \in 1 .. Len(got') : got'[i] = IF i = target.next THEN text ELSE got[i]
  BY <1>1, <1>3, <1>4
<1> QED BY <1>1, <1>2, <1>3, <1>4, <1>5

\* What of the console's step is the same for the three mechanisms.
LEMMA Acts ==
  ASSUME Mail!MailAssumption, OneMiss, MailInv, Mail!Act
  PROVE  /\ pc = "same0" /\ ~halted /\ kept = <<>> /\ pc' = "idle" /\ Mail!ActedOn(w0) /\ other = lastRead
         /\ UNCHANGED <<mechanism, data1, lastRead, asked, hartHalted, halted, kept, target>>
         /\ Word0 = data0 /\ Word0' = data0' /\ Word1' = Word1
         /\ Mail!Said' = Mail!Said /\ Talked' = Talked /\ (Sequenced' <=> Sequenced) /\ (IsLong' <=> IsLong)
         /\ Mail!Frame' = Mail!Frame /\ RestNow' = RestNow
         /\ Seen(w0) /\ (other = w0 /\ Firm(w0) => data0 = w0)
         /\ Hart'
<1>1. /\ pc = "same0" /\ pc' = "idle"
      /\ UNCHANGED <<mechanism, data1, lastRead, asked, hartHalted, halted, kept, target>>
  BY DEF Mail!Act, Mail!Ends, Mail!lookVars, Mail!hostVars
<1>2. ~halted /\ kept = <<>> /\ Mail!ActedOn(w0) /\ other = lastRead
      /\ Seen(w0) /\ (other = w0 /\ Firm(w0) => data0 = w0)
  BY <1>1 DEF MailInv, Hart, Path, Reads
<1>3. Word0 = data0 /\ Word0' = data0' /\ Word1' = Word1
  BY <1>1, <1>2 DEF Word0, Word1
<1>4. /\ Mail!Said' = Mail!Said /\ Talked' = Talked /\ (Sequenced' <=> Sequenced) /\ (IsLong' <=> IsLong)
      /\ Mail!Frame' = Mail!Frame /\ RestNow' = RestNow
  BY <1>1, FrameStays DEF MailInv
<1>5. Hart'
  BY <1>1 DEF MailInv, Hart, Path
<1> QED BY <1>1, <1>2, <1>3, <1>4, <1>5

\* The head that was acted on.
LEMMA SeenTaken ==
  ASSUME MailTypes, UNCHANGED <<mechanism, target>>, Word1' = Word1, NEW X, Seen(X),
         X.kind = "frame" => X = Mail!Frame /\ (Sequenced => X.s = target.s)
                             /\ (~Sequenced => target.next > Talked \/ target.next \in 1 .. Talked)
  PROVE  Seen(X)'
<1>1. /\ Mail!Said' = Mail!Said /\ Talked' = Talked /\ (Sequenced' <=> Sequenced) /\ (IsLong' <=> IsLong)
      /\ Mail!Frame' = Mail!Frame /\ RestNow' = RestNow /\ RestsOf(X)' = RestsOf(X)
  BY FrameStays
<1>2. Fits(X, Word1)' <=> Fits(X, Word1)
  BY <1>1 DEF Fits
<1> QED BY <1>1, <1>2 DEF Seen

\* What is taken keeps the types.
LEMMA TypesOfTake ==
  ASSUME MailTypes, UNCHANGED <<mechanism, asked, hartHalted, halted, target>>,
         missed' \in 0 .. Misses, sawEmpty' \in BOOLEAN, queue' \in Seq(Nat),
         seq' \in [synced : BOOLEAN, s : {0, 1}, syn : BOOLEAN, h : {0, 1}, chunk : Seq(Nat)],
         \/ got' = got
         \/ /\ got' \in Seq(Texts') /\ Len(got') <= Talked'
            /\ \A i \in 1 .. Len(got') : got'[i] \in TextsOf(i)'
  PROVE  MailTypes'
<1>1. Mail!Said' = Mail!Said /\ Talked' = Talked
  BY DEF Mail!Said, Talked
<1>2. Texts' = Texts /\ \A i : TextsOf(i)' = TextsOf(i)
  BY TextsStay
<1>3. got' \in Seq(Texts') /\ Len(got') <= Talked' /\ \A i \in 1 .. Len(got') : got'[i] \in TextsOf(i)'
  BY <1>1, <1>2 DEF MailTypes
<1> QED BY <1>1, <1>3 DEF MailTypes

\* A confirmed word that is like a frame is the target's frame.
LEMMA Confirmed ==
  ASSUME Mail!MailAssumption, OneMiss, MailInv, Mail!Act, other = w0, Mail!Like(w0)
  PROVE  /\ data0 = w0 /\ w0 = Mail!Frame /\ w0.kind = "frame" /\ target.at = "wait"
         /\ target.next \in 1 .. Talked + 1 /\ (~Sequenced => target.next \in 1 .. Talked) /\ Talked \in Nat
         /\ (Sequenced => w0.s = target.s /\ w0.a = target.lastH /\ w0.syn = target.syn)
<1>1. data0 = w0 /\ Word0 = w0
  BY Acts DEF Firm
<1>2. w0.kind = "frame" /\ w0 = Mail!Frame /\ target.at = "wait" /\ target.next >= 1
  BY <1>1 DEF Mail!Like, MailInv, MailWords, Lies
<1>3. target.next \in 1 .. Talked + 1 /\ Talked \in Nat
  BY <1>2 DEF MailInv, MailTypes, Mail!MailAssumption, Talked, Mail!Said
<1>4. ~(mechanism = "dmdata" /\ target.next > Talked)
  BY <1>2, FrameIs DEF Mail!Empty, MailInv
<1>5. Sequenced => w0.s = target.s /\ w0.a = target.lastH /\ w0.syn = target.syn
  BY <1>2, <1>4, FrameIs DEF MailInv
<1>6. ~Sequenced => target.next \in 1 .. Talked
  <2>1. mechanism \in {"sdi", "dmdata", "dmseq"}
    BY DEF MailInv, MailTypes, Mail!MailAssumption
  <2> QED BY <1>3, <1>4, <2>1 DEF Sequenced, MailInv, MailWords, Lies
<1> QED BY <1>1, <1>2, <1>3, <1>5, <1>6

\* A poll that acted ends, with the words as they should be.
LEMMA ActEnds ==
  ASSUME Mail!MailAssumption, OneMiss, MailInv, Mail!Act, MailTypes', MailWords', Seen(lastRead)'
  PROVE  MailInv'
BY Acts, IdleReads DEF MailInv

\* sdi: the frame goes to the sink, and 0 over it.
LEMMA SdiKeeps ==
  ASSUME Mail!MailAssumption, OneMiss, MailInv, Mail!Act, other = w0, mechanism = "sdi", Mail!TakeSdi
  PROVE  MailInv'
<1> USE DEF MailInv
<1>1. /\ data0 = w0 /\ w0 = Mail!Frame /\ w0.kind = "frame" /\ target.at = "wait"
      /\ target.next \in 1 .. Talked /\ Talked \in Nat
  BY Acts, Confirmed DEF Mail!ActedOn, Sequenced
<1>2. Mail!Text \in TextsOf(target.next)
  BY <1>1, Acts, TextIs
<1>3. ~Sequenced /\ Word0 = w0 /\ Len(got) = target.next - 1
  BY <1>1, Acts DEF Sequenced, MailWords, Counts, Taken
<1>4. data0' = Mail!Zero /\ UNCHANGED <<missed, sawEmpty, seq, queue>> /\ got' = Append(got, Mail!Text)
  BY DEF Mail!TakeSdi, Mail!Writes
<1>5. /\ got' \in Seq(Texts') /\ Len(got') = target.next /\ Len(got') <= Talked'
      /\ \A i \in 1 .. Len(got') : got'[i] \in TextsOf(i)'
  BY <1>1, <1>2, <1>3, <1>4, Acts, GotGrows
<1>6. MailTypes'
  BY <1>4, <1>5, Acts, TypesOfTake DEF MailTypes
<1>7. Word0' = Mail!Zero /\ Mail!Zero.kind = "zero" /\ ~Sequenced'
  BY <1>3, <1>4, Acts DEF Mail!Zero
<1>8. Lies'
  BY <1>1, <1>3, <1>7, Acts DEF MailWords, Lies
<1>9. Counts'
  BY <1>1, <1>5, <1>7, Acts DEF Counts, Taken, Mail!Least
<1>10. TypedIn'
  BY <1>4, <1>7, Acts DEF MailWords, TypedIn
<1>11. SeqBits'
  BY <1>7 DEF SeqBits
<1>12. Seen(lastRead)'
  BY <1>1, <1>3, Acts, SeenTaken
<1> QED BY <1>6, <1>8, <1>9, <1>10, <1>11, <1>12, ActEnds DEF MailWords

\* dmdata's answer: up to three bytes of the input ride on it.
LEMMA Rides ==
  ASSUME Mail!MailAssumption, OneMiss, MailInv, Mail!Act, mechanism = "dmdata", Mail!answerDmdata,
         target.at = "wait",
         target.next # 0, Word0.kind \in {"frame", "empty"}
  PROVE  /\ data0'.kind \in {"zero", "answer"} /\ missed' = missed /\ queue' \in Seq(Nat) /\ sawEmpty' = FALSE
         /\ TypedIn'
<1> USE DEF MailInv
<1>1. /\ queue \in Seq(Nat) /\ target.rx \in Seq(Nat) /\ ~Sequenced /\ mechanism # "sdi"
  BY DEF MailTypes, Sequenced
<1>2. /\ Mail!Upto(queue, 3) \in Seq(Nat) /\ Mail!After(queue, 3) \in Seq(Nat)
      /\ Mail!Upto(queue, 3) \o Mail!After(queue, 3) = queue
  BY <1>1, Pieces
<1>3. /\ data0' = IF queue = <<>> THEN Mail!Zero ELSE [kind |-> "answer", bytes |-> Mail!Upto(queue, 3)]
      /\ missed' = missed /\ queue' = Mail!After(queue, 3) /\ sawEmpty' = FALSE
  BY DEF Mail!answerDmdata, Mail!Writes
<1>4. /\ Mail!BytesOf(data0') \o queue' = queue /\ Mail!BytesOf(data0') \in Seq(Nat)
      /\ data0'.kind \in {"zero", "answer"}
      /\ (data0'.kind = "answer" => data0'.bytes \in Seq(Nat))
  <2>1. CASE queue = <<>>
    <3>1. data0' = Mail!Zero /\ Mail!Zero.kind = "zero"
      BY <1>3, <2>1 DEF Mail!Zero
    <3>2. Mail!BytesOf(data0') = <<>>
      BY <3>1 DEF Mail!BytesOf
    <3>3. Mail!After(queue, 3) = <<>>
      BY <2>1 DEF Mail!After, Mail!Least
    <3> QED BY <1>1, <1>3, <2>1, <3>1, <3>2, <3>3
  <2>2. CASE queue # <<>>
    <3>1. data0'.kind = "answer" /\ data0'.bytes = Mail!Upto(queue, 3)
      BY <1>3, <2>2
    <3> QED BY <1>2, <1>3, <3>1 DEF Mail!BytesOf
  <2> QED BY <2>1, <2>2
<1>5. OnWay = <<>> /\ OnWay' = Mail!BytesOf(data0')
  BY <1>1, Acts DEF OnWay, Mail!BytesOf
<1>6. Input = target.rx \o queue
  <2>1. Input = (target.rx \o <<>>) \o queue
    BY <1>1, <1>5 DEF MailWords, TypedIn
  <2>2. target.rx \o <<>> = target.rx
    BY <1>1
  <2> QED BY <2>1, <2>2
<1>7. Input = (target.rx \o OnWay') \o queue'
  <2>1. target.rx \o (Mail!BytesOf(data0') \o queue') = (target.rx \o Mail!BytesOf(data0')) \o queue'
    <3>1. target.rx \in Seq(Nat) /\ Mail!BytesOf(data0') \in Seq(Nat) /\ queue' \in Seq(Nat)
      BY <1>1, <1>2, <1>3, <1>4
    <3> QED BY ONLY <3>1, Joins
  <2> QED BY <1>4, <1>5, <1>6, <2>1
<1>8. TypedIn'
  BY <1>1, <1>4, <1>7, Acts DEF TypedIn
<1> QED BY <1>2, <1>3, <1>4, <1>8

\* dmdata: the frame goes to the sink; the answer carries input, as after two looks at an empty slot.
LEMMA DmdataKeeps ==
  ASSUME Mail!MailAssumption, OneMiss, MailInv, Mail!Act, other = w0, mechanism = "dmdata", Mail!TakeDmdata
  PROVE  MailInv'
<1> USE DEF MailInv
<1>1. /\ ~Sequenced /\ ~Sequenced' /\ Talked \in Nat /\ target.next \in 0 .. Talked + 1 /\ seq' = seq
      /\ queue \in Seq(Nat)
  BY Acts DEF Sequenced, MailTypes, Mail!MailAssumption, Talked, Mail!Said, Mail!TakeDmdata
<1>2. SeqBits'
  BY <1>1 DEF SeqBits
<1>3. CASE Mail!Like(w0) /\ got' = Append(got, Mail!Text) /\ Mail!answerDmdata
  <2>1. /\ data0 = w0 /\ w0 = Mail!Frame /\ w0.kind = "frame" /\ target.at = "wait"
        /\ target.next \in 1 .. Talked
    BY <1>1, <1>3, Confirmed
  <2>2. Mail!Text \in TextsOf(target.next)
    BY <2>1, Acts, TextIs
  <2>3. Word0 = w0 /\ Len(got) = target.next - 1
    BY <1>1, <2>1, Acts DEF MailWords, Counts, Taken
  <2>4. /\ got' \in Seq(Texts') /\ Len(got') = target.next /\ Len(got') <= Talked'
        /\ \A i \in 1 .. Len(got') : got'[i] \in TextsOf(i)'
    BY <1>3, <2>1, <2>2, <2>3, Acts, GotGrows
  <2>5. /\ data0'.kind \in {"zero", "answer"} /\ missed' = missed /\ queue' \in Seq(Nat) /\ sawEmpty' = FALSE
        /\ TypedIn'
    <3>1. target.next # 0 /\ Word0.kind = "frame"
      BY <1>1, <2>1, <2>3
    <3> QED BY <1>3, <2>1, <3>1, Rides
  <2>6. MailTypes'
    BY <1>1, <2>4, <2>5, Acts, TypesOfTake DEF MailTypes
  <2>7. Lies'
    BY <1>1, <2>1, <2>5, Acts DEF MailWords, Lies
  <2>8. Counts'
    BY <1>1, <2>1, <2>4, <2>5, Acts DEF Counts, Taken, Mail!Least
  <2>9. Seen(lastRead)'
    BY <1>1, <2>1, Acts, SeenTaken
  <2> QED BY <1>2, <2>5, <2>6, <2>7, <2>8, <2>9, ActEnds DEF MailWords
<1>4. ASSUME w0.kind # "frame" PROVE Seen(lastRead)'
  BY <1>4, Acts DEF Seen
<1>5. CASE w0.kind \in {"ones", "status"} /\ Mail!Writes(Mail!Zero) /\ sawEmpty' = FALSE /\ UNCHANGED <<got, queue>>
  <2>1. data0 = w0 /\ Word0 = w0
    BY <1>5, Acts DEF Firm
  <2>2. target.at = "wait" /\ target.next = 0 /\ Word0.kind = "ones"
    BY <1>1, <1>5, <2>1 DEF MailWords, Lies
  <2>3. Word0' = Mail!Zero /\ Mail!Zero.kind = "zero" /\ missed' = missed
    BY <1>5, Acts DEF Mail!Writes, Mail!Zero
  <2>4. MailTypes'
    BY <1>1, <1>5, <2>3, Acts, TypesOfTake DEF MailTypes
  <2>5. Lies'
    BY <1>1, <2>2, <2>3, Acts DEF MailWords, Lies
  <2>6. Counts'
    BY <1>1, <1>5, <2>2, <2>3, Acts DEF MailWords, Counts, Taken
  <2>7. TypedIn'
    BY <1>1, <1>5, <2>2, <2>3, Acts DEF MailWords, TypedIn, OnWay, Mail!BytesOf
  <2> QED BY <1>2, <1>4, <1>5, <2>4, <2>5, <2>6, <2>7, ActEnds DEF MailWords
<1>6. CASE w0 = Mail!Empty /\ ~sawEmpty /\ sawEmpty' = TRUE /\ UNCHANGED <<got, queue, data0, missed>>
  <2>1. MailTypes' /\ MailWords'
    BY <1>1, <1>6, Acts, NothingMoves DEF MailTypes
  <2> QED BY <1>4, <1>6, <2>1, ActEnds DEF Mail!Empty
<1>7. CASE w0 = Mail!Empty /\ sawEmpty /\ Mail!answerDmdata /\ UNCHANGED got
  <2>1. w0.kind = "empty" /\ data0 = w0 /\ Word0 = w0
    BY <1>7, Acts DEF Firm, Mail!Empty
  <2>2. target.at = "wait" /\ target.next > Talked /\ Len(got) = Talked
    BY <2>1 DEF MailWords, Lies, Counts
  <2>3. /\ data0'.kind \in {"zero", "answer"} /\ missed' = missed /\ queue' \in Seq(Nat) /\ sawEmpty' = FALSE
        /\ TypedIn'
    <3>1. target.next # 0 /\ Word0.kind = "empty"
      BY <1>1, <2>1, <2>2
    <3> QED BY <1>7, <2>2, <3>1, Rides
  <2>4. MailTypes'
    BY <1>1, <1>7, <2>3, Acts, TypesOfTake DEF MailTypes
  <2>5. Lies'
    BY <1>1, <2>2, <2>3, Acts DEF MailWords, Lies
  <2>6. Counts'
    BY <1>1, <1>7, <2>2, <2>3, Acts DEF Counts, Taken, Mail!Least
  <2> QED BY <1>2, <1>4, <2>1, <2>3, <2>4, <2>5, <2>6, ActEnds DEF MailWords
<1> QED BY <1>3, <1>5, <1>6, <1>7 DEF Mail!TakeDmdata

\* dmseq's bits once the console has seen a frame: those of the target, the chunk kept until the
\* target has it.
ChunkKept(f) == Mail!Acked(Mail!Counted(Mail!Synced(f), f), f)
Waits == seq.synced /\ seq.chunk # <<>> /\ target.lastH # seq.h

LEMMA KeptIs ==
  ASSUME MailTypes, SeqBits, Sequenced, NEW f, f.s = target.s, f.a = target.lastH, f.syn = target.syn
  PROVE  /\ ChunkKept(f) \in [synced : BOOLEAN, s : {0, 1}, syn : BOOLEAN, h : {0, 1}, chunk : Seq(Nat)]
         /\ ChunkKept(f).synced /\ ChunkKept(f).s = target.s /\ (target.syn => ChunkKept(f).syn)
         /\ Waits => ChunkKept(f).chunk = seq.chunk /\ ChunkKept(f).h = seq.h
         /\ ~Waits => ChunkKept(f).chunk = <<>> /\ ChunkKept(f).h # target.lastH
         /\ f.s # Mail!Synced(f).s <=> ~Taken
<1> DEFINE Counters == [synced : BOOLEAN, s : {0, 1}, syn : BOOLEAN, h : {0, 1}, chunk : Seq(Nat)]
           q == Mail!Synced(f)
           r == Mail!Counted(q, f)
<1>1. /\ target.s \in {0, 1} /\ target.lastH \in {0, 1} /\ target.syn \in BOOLEAN /\ seq \in Counters
      /\ <<>> \in Seq(Nat)
  BY DEF MailTypes
<1>2. /\ target.syn /\ seq.synced => seq.s = target.s /\ seq.syn
      /\ ~target.syn => seq.synced
      /\ seq.synced /\ seq.chunk = <<>> => target.lastH # seq.h
  BY DEF SeqBits
<1>3. seq.synced => q = seq
  BY <1>2 DEF Mail!Synced, Mail!Duplicate
<1>4. ~seq.synced => q = [seq EXCEPT !.synced = TRUE, !.s = 1 - f.s, !.h = 1 - f.a, !.chunk = <<>>]
  BY DEF Mail!Synced, Mail!Duplicate
<1>5. 1 - target.s \in {0, 1} /\ 1 - target.lastH \in {0, 1} /\ 1 - target.lastH # target.lastH
      /\ 1 - target.s # target.s
  BY <1>1
<1>6. ~seq.synced => /\ q \in Counters /\ q.synced /\ q.s # target.s /\ q.chunk = <<>>
                     /\ q.h # target.lastH
  BY <1>1, <1>4, <1>5
<1>7. /\ q \in Counters /\ q.synced /\ (q.s # target.s <=> ~Taken)
      /\ target.syn /\ q.s = target.s => q.syn
      /\ Waits => q.chunk = seq.chunk /\ q.h = seq.h /\ q.chunk # <<>> /\ q.h # target.lastH
      /\ ~Waits => IF q.chunk = <<>> THEN q.h # target.lastH ELSE q.h = target.lastH
  BY <1>1, <1>2, <1>3, <1>6 DEF Waits, Taken
<1> HIDE DEF q
<1>8. /\ r \in Counters /\ r.synced /\ r.s = target.s /\ r.chunk = q.chunk /\ r.h = q.h
      /\ target.syn => r.syn
  BY <1>1, <1>7 DEF Mail!Counted
<1> HIDE DEF r
<1>9. ChunkKept(f) = IF r.chunk # <<>> /\ target.lastH = r.h THEN [r EXCEPT !.chunk = <<>>, !.h = 1 - r.h] ELSE r
  BY DEF ChunkKept, Mail!Acked, r, q
<1>10. 1 - r.h \in {0, 1} /\ 1 - r.h # r.h
  BY <1>8
<1>11. CASE r.chunk # <<>> /\ target.lastH = r.h
  <2>1. /\ ChunkKept(f) \in Counters /\ ChunkKept(f).synced
        /\ ChunkKept(f).s = r.s /\ ChunkKept(f).syn = r.syn
        /\ ChunkKept(f).chunk = <<>> /\ ChunkKept(f).h = 1 - r.h
    BY <1>1, <1>8, <1>9, <1>10, <1>11
  <2>2. ~Waits
    BY <1>7, <1>8, <1>11
  <2> QED BY <1>7, <1>8, <1>10, <1>11, <2>1, <2>2 DEF q
<1>12. CASE ~(r.chunk # <<>> /\ target.lastH = r.h)
  BY <1>7, <1>8, <1>9, <1>12 DEF q
<1> QED BY <1>11, <1>12

\* dmseq: a new frame goes to the sink once, and the answer carries the chunk on its way.
LEMMA SeqKeeps ==
  ASSUME Mail!MailAssumption, OneMiss, MailInv, Mail!Act, other = w0, mechanism = "dmseq", Mail!TakeSeq
  PROVE  MailInv'
<1> USE DEF MailInv
<1>1. /\ Sequenced /\ Sequenced' /\ sawEmpty' = sawEmpty /\ queue \in Seq(Nat) /\ seq.chunk \in Seq(Nat)
      /\ target.rx \in Seq(Nat) /\ mechanism # "sdi"
  BY Acts DEF Sequenced, Mail!TakeSeq, MailTypes
<1>2. CASE ~Mail!CrcRight
  <2>1. UNCHANGED <<got, queue, seq, data0, missed, sawEmpty>>
    BY <1>2 DEF Mail!TakeSeq
  <2>2. MailTypes' /\ MailWords' /\ SeenGoesOn
    BY <2>1, Acts, NothingMoves DEF MailTypes
  <2>3. Seen(lastRead) /\ lastRead' = lastRead
    BY Acts
  <2> QED BY <2>2, <2>3, ActEnds DEF SeenGoesOn
<1>3. CASE Mail!CrcRight
  <2>1. /\ data0 = w0 /\ w0 = Mail!Frame /\ w0.kind = "frame" /\ target.at = "wait"
        /\ target.next \in 1 .. Talked + 1 /\ Talked \in Nat
        /\ w0.s = target.s /\ w0.a = target.lastH /\ w0.syn = target.syn
    BY <1>1, <1>3, Confirmed DEF Mail!CrcRight
  <2>2. Mail!AsFrame = w0
    BY <2>1 DEF Mail!AsFrame
  <2> DEFINE k == ChunkKept(w0)
             piece == IF k.chunk # <<>> THEN k.chunk ELSE Mail!Upto(queue, 2)
  <2>3. /\ k \in [synced : BOOLEAN, s : {0, 1}, syn : BOOLEAN, h : {0, 1}, chunk : Seq(Nat)]
        /\ k.synced /\ k.s = target.s /\ (target.syn => k.syn)
        /\ Waits => k.chunk = seq.chunk /\ k.h = seq.h
        /\ ~Waits => k.chunk = <<>> /\ k.h # target.lastH
        /\ w0.s # Mail!Synced(w0).s <=> ~Taken
    BY <1>1, <2>1, KeptIs DEF MailWords
  <2>4. /\ got' = (IF w0.s # Mail!Synced(w0).s /\ w0.first # none THEN Append(got, Mail!Text) ELSE got)
        /\ Mail!seqAnswer(w0.s, k)
    BY <1>3, <2>2 DEF Mail!TakeSeq, ChunkKept
  <2> HIDE DEF k
  <2>5. /\ queue' = (IF k.chunk # <<>> THEN queue ELSE Mail!After(queue, 2)) /\ seq' = [k EXCEPT !.chunk = piece]
        /\ Mail!Writes([kind |-> "answer", k |-> target.s, h |-> k.h, bytes |-> piece])
    BY <2>1, <2>4 DEF Mail!seqAnswer
  <2>6. /\ Mail!Upto(queue, 2) \in Seq(Nat) /\ Mail!After(queue, 2) \in Seq(Nat)
        /\ Mail!Upto(queue, 2) \o Mail!After(queue, 2) = queue
    BY <1>1, Pieces
  <2>7. piece \in Seq(Nat) /\ queue' \in Seq(Nat)
    BY <1>1, <2>3, <2>5, <2>6
  <2>8. /\ Waits => piece = seq.chunk /\ queue' = queue
        /\ ~Waits => piece = Mail!Upto(queue, 2) /\ queue' = Mail!After(queue, 2)
    BY <2>3, <2>5 DEF Waits
  <2> HIDE DEF piece
  <2>9. /\ seq' \in [synced : BOOLEAN, s : {0, 1}, syn : BOOLEAN, h : {0, 1}, chunk : Seq(Nat)]
        /\ seq'.synced /\ seq'.s = target.s /\ (target.syn => seq'.syn) /\ seq'.chunk = piece
        /\ seq'.h = k.h /\ k.h # target.lastH
    BY <2>3, <2>5, <2>7 DEF Waits
  <2>10. /\ data0' = [kind |-> "answer", k |-> target.s, h |-> k.h, bytes |-> piece] \/ data0' = data0
         /\ missed' = missed \/ (missed < Misses /\ missed' = missed + 1)
    BY <2>5 DEF Mail!Writes
  <2>11. missed' \in 0 .. Misses
    BY <2>10, MissesOne
  <2>12. /\ Word0'.kind \in {"frame", "answer"} /\ (Word0'.kind = "frame" => Word0' = Mail!Frame)
         /\ Word0'.kind = "answer" =>
              Word0' = [kind |-> "answer", k |-> target.s, h |-> seq'.h, bytes |-> seq'.chunk]
    BY <2>1, <2>9, <2>10, Acts
  <2>13. Taken' /\ (w0.first # none <=> target.next <= Talked)
    <3>1. target.next <= Talked => target.next \in 1 .. Talked
      BY <2>1
    <3>2. \A i \in 1 .. Talked : Mail!Said[i].first # none
      BY DEF Mail!MailAssumption, MailTypes, Mail!Said, Talked
    <3>3. /\ target.next \in 1 .. Talked => w0.first = Mail!Said[target.next].first
          /\ target.next > Talked => w0.first = none
      BY <2>1, FrameIs DEF Mail!Empty
    <3> QED BY <1>1, <2>1, <2>9, <3>1, <3>2, <3>3, Acts DEF Taken
  <2>14. /\ Len(got') = Mail!Least(target.next, Talked)
         /\ \/ got' = got
            \/ /\ got' \in Seq(Texts') /\ Len(got') <= Talked'
               /\ \A i \in 1 .. Len(got') : got'[i] \in TextsOf(i)'
    <3>1. CASE Taken
      BY <2>3, <2>4, <3>1 DEF MailWords, Counts
    <3>2. CASE ~Taken /\ target.next <= Talked
      <4>1. target.next \in 1 .. Talked /\ Len(got) = target.next - 1
        BY <2>1, <3>2 DEF MailWords, Counts
      <4>2. Mail!Text \in TextsOf(target.next)
        BY <2>1, <4>1, Acts, TextIs
      <4>3. got' = Append(got, Mail!Text)
        BY <2>3, <2>4, <2>13, <3>2, <4>2
      <4>4. /\ got' \in Seq(Texts') /\ Len(got') = target.next /\ Len(got') <= Talked'
            /\ \A i \in 1 .. Len(got') : got'[i] \in TextsOf(i)'
        BY <4>1, <4>2, <4>3, Acts, GotGrows
      <4>5. Mail!Least(target.next, Talked) = target.next
        BY <2>1, <4>1 DEF Mail!Least
      <4> QED BY <4>4, <4>5
    <3>3. CASE ~Taken /\ target.next > Talked
      BY <2>1, <2>4, <2>13, <3>3 DEF MailWords, Counts, Mail!Least
    <3> QED BY <2>1, <3>1, <3>2, <3>3
  <2>15. MailTypes'
    BY <1>1, <2>7, <2>9, <2>11, <2>14, Acts, TypesOfTake DEF MailTypes
  <2>16. Lies'
    BY <1>1, <2>1, <2>12, Acts DEF MailWords, Lies
  <2>17. Counts'
    BY <2>12, <2>13, <2>14, Acts DEF Counts
  <2>18. OnWay' = piece /\ (Waits => OnWay = seq.chunk) /\ (~Waits => OnWay = <<>>)
    BY <1>1, <2>9, Acts DEF OnWay, Waits
  <2>19. TypedIn'
    <3>2. target.rx \o <<>> = target.rx
      BY <1>1
    <3>3. Input = (target.rx \o OnWay) \o queue
      BY <1>1 DEF MailWords, TypedIn
    <3>4. Input = (target.rx \o piece) \o queue'
      <4>1. CASE Waits
        BY <2>8, <2>18, <3>3, <4>1
      <4>2. CASE ~Waits
        <5>1. Input = target.rx \o queue
          BY <2>18, <3>2, <3>3, <4>2
        <5>2. piece \o queue' = queue
          BY <2>6, <2>8, <4>2
        <5>3. target.rx \o (piece \o queue') = (target.rx \o piece) \o queue'
          BY ONLY <1>1, <2>7, Joins
        <5> QED BY <5>1, <5>2, <5>3
      <4> QED BY <4>1, <4>2
    <3>5. Word0'.kind = "answer" => Word0'.bytes \in Seq(Nat)
      BY <2>7, <2>9, <2>12
    <3> QED BY <1>1, <2>18, <3>4, <3>5, Acts DEF TypedIn
  <2>20. SeqBits'
    BY <1>1, <2>9, <2>12, <2>13, Acts DEF SeqBits, Answered
  <2>21. Seen(lastRead)'
    BY <1>1, <2>1, Acts, SeenTaken
  <2> QED BY <2>15, <2>16, <2>17, <2>19, <2>20, <2>21, ActEnds DEF MailWords
<1> QED BY <1>2, <1>3

LEMMA MailInitially == ASSUME Mail!MailAssumption, Mail!MailInit PROVE MailInv
<1>1. /\ mechanism \in Mechanisms /\ mechanism \in {"sdi", "dmdata", "dmseq"} /\ Talked \in Nat /\ kept = <<>>
      /\ data0 \in {Mail!Zero, Mail!AllOnes} /\ data1 = Mail!Zero /\ lastRead = Mail!Control /\ missed = 0
      /\ pc = "idle" /\ asked = TRUE
      /\ hartHalted = FALSE /\ sawEmpty = FALSE /\ halted = FALSE /\ got = <<>>
      /\ seq = [synced |-> FALSE, s |-> 0, syn |-> FALSE, h |-> 0, chunk |-> <<>>]
      /\ queue = (IF mechanism = "sdi" THEN <<>> ELSE Input) /\ Input \in Seq(Nat) /\ Misses \in Nat
      /\ target = [at |-> IF mechanism = "dmseq" THEN "post" ELSE "wait",
                   next |-> IF mechanism = "dmseq" THEN 1 ELSE 0,
                   s |-> 0, lastH |-> 1, syn |-> TRUE, rx |-> <<>>]
  BY DEF Mail!MailInit, Mail!MailAssumption, Talked, Mail!Said
<1>2. /\ target.at = (IF Sequenced THEN "post" ELSE "wait") /\ target.next = (IF Sequenced THEN 1 ELSE 0)
      /\ target.s = 0 /\ target.lastH = 1 /\ target.syn = TRUE /\ target.rx = <<>>
  BY <1>1 DEF Sequenced
<1>3. Word0 \in {Mail!Zero, Mail!AllOnes} /\ Word0.kind \in {"zero", "ones"} /\ Word1.kind = "zero"
  BY <1>1 DEF Word0, Word1, Mail!Zero, Mail!AllOnes
<1>4. MailTypes
  <2>1. target \in [at : {"post", "post0", "wait"}, next : 0 .. Talked + 1, s : {0, 1}, lastH : {0, 1},
                    syn : BOOLEAN, rx : Seq(Nat)]
    BY <1>1
  <2>2. got \in Seq(Texts) /\ Len(got) <= Talked /\ \A i \in 1 .. Len(got) : got[i] \in TextsOf(i)
    BY <1>1
  <2>3. seq \in [synced : BOOLEAN, s : {0, 1}, syn : BOOLEAN, h : {0, 1}, chunk : Seq(Nat)]
    BY <1>1
  <2>4. queue \in Seq(Nat) /\ missed \in 0 .. Misses
    BY <1>1
  <2> QED BY <1>1, <2>1, <2>2, <2>3, <2>4 DEF MailTypes
<1>5. Lies
  BY <1>1, <1>2, <1>3 DEF Lies, IsLong, Sequenced
<1>6. ~Taken \/ ~Sequenced
  BY <1>1 DEF Taken
<1>7. Counts
  BY <1>1, <1>2, <1>3, <1>6 DEF Counts, Taken, Mail!Least
<1>8. OnWay = <<>>
  BY <1>1, <1>2, <1>3 DEF OnWay, Mail!BytesOf
<1>9. TypedIn
  BY <1>1, <1>2, <1>3, <1>8 DEF TypedIn, Sequenced
<1>10. SeqBits
  BY <1>1, <1>2 DEF SeqBits, Answered
<1>11. Looks /\ Hart /\ Confirms
  BY <1>1 DEF Looks, Hart, Confirms, Path
<1>12. Reads
  BY <1>1, <1>11 DEF Reads, Path, Seen, Mail!Control
<1> QED BY <1>4, <1>5, <1>7, <1>9, <1>10, <1>11, <1>12 DEF MailInv, MailWords

\* MailInv is inductive.
LEMMA MailNexts ==
  ASSUME Mail!MailAssumption, OneMiss, MailInv, [Mail!MailNext]_Mail!mailVars
  PROVE  MailInv'
<1>1. CASE Mail!PollLooks \/ Mail!PollReads \/ Mail!ReadStatus \/ Mail!ReadControl \/ Mail!ReadAgain \/ Mail!Judge
  BY <1>1, LookKeeps
<1>2. CASE Mail!ReadData0
  BY <1>2, ReadData0Keeps
<1>3. CASE Mail!First
  BY <1>3, FirstKeeps
<1>4. CASE Mail!ReadData1 \/ Mail!ReadBetween \/ Mail!ReadData1Again \/ Mail!Same1 \/ Mail!ReadData0Again
  BY <1>4, ConfirmKeeps
<1>5. CASE Mail!Act
  <2>1. CASE other # w0
    <3>1. UNCHANGED <<sawEmpty, seq, queue, got, data0, missed>>
      BY <1>5, <2>1 DEF Mail!Act, Mail!takeVars
    <3>2. MailTypes' /\ MailWords' /\ SeenGoesOn
      BY <1>5, <3>1, Acts, NothingMoves DEF MailInv, MailTypes
    <3>3. Seen(lastRead) /\ lastRead' = lastRead
      BY <1>5, Acts DEF MailInv, Reads
    <3> QED BY <1>5, <3>2, <3>3, ActEnds DEF SeenGoesOn
  <2>2. CASE other = w0
    BY <1>5, <2>2, SdiKeeps, DmdataKeeps, SeqKeeps DEF Mail!Act
  <2> QED BY <2>1, <2>2
<1>6. CASE Mail!Halt \/ Mail!keepMailbox \/ Mail!giveMailbox \/ Mail!Resume
  BY <1>6, HostKeeps
<1>7. CASE Mail!TargetPostsRest \/ Mail!TargetPosts \/ Mail!TargetSees
  BY <1>7, TargetPostsRestKeeps, TargetPostsKeeps, TargetSeesKeeps
<1>8. CASE UNCHANGED Mail!mailVars
  <2>1. /\ UNCHANGED <<mechanism, data0, data1, lastRead, missed, pc, w0, w1, other, asked, hartHalted, sawEmpty,
                       seq, queue, got, halted, kept, target>>
        /\ Word0' = Word0 /\ Word1' = Word1
    BY <1>8 DEF Mail!mailVars, Mail!wordVars, Mail!pollVars, Mail!lookVars, Mail!takeVars,
           Mail!hostVars, Word0, Word1
  <2>2. MailTypes' /\ MailWords' /\ SeenGoesOn /\ FitsGoOn
    BY <2>1, NothingMoves DEF MailInv, MailTypes
  <2>3. Reads'
    BY <2>1, <2>2, ReadsGoOn DEF MailInv
  <2> QED BY <2>1, <2>2, <2>3, LooksGoOn DEF MailInv
<1> QED BY <1>1, <1>2, <1>3, <1>4, <1>5, <1>6, <1>7, <1>8 DEF Mail!MailNext

LEMMA MailIsKept == ASSUME Mail!MailAssumption, MailInv PROVE MailboxKept
<1> USE DEF MailInv
<1>1. /\ Talked \in Nat /\ got \in Seq(Texts) /\ Len(got) <= Talked /\ target.next \in 0 .. Talked + 1
      /\ \A i \in 1 .. Len(got) : got[i] \in TextsOf(i)
  BY DEF MailTypes, Mail!MailAssumption, Talked, Mail!Said
<1>3. Len(got) + 1 >= target.next
  BY <1>1 DEF MailWords, Counts, Mail!Least
<1>4. Mail!IsPrefixOf(target.rx, Input)
  <2>1. target.rx \in Seq(Nat) /\ Input \in Seq(Nat) /\ mechanism \in {"sdi", "dmdata", "dmseq"}
    BY DEF MailTypes, Mail!MailAssumption
  <2>2. CASE mechanism = "sdi"
    <3>1. target.rx = <<>>
      BY <2>2 DEF MailWords, TypedIn
    <3>2. SubSeq(Input, 1, 0) = <<>>
      BY <2>1
    <3> QED BY <2>1, <3>1, <3>2 DEF Mail!IsPrefixOf
  <2>3. CASE mechanism # "sdi"
    <3>1. OnWay \in Seq(Nat) /\ queue \in Seq(Nat)
      BY DEF OnWay, Mail!BytesOf, MailTypes, MailWords, TypedIn
    <3> DEFINE more == OnWay \o queue
    <3>2. Input = target.rx \o more /\ more \in Seq(Nat)
      <4>1. Input = (target.rx \o OnWay) \o queue
        BY <2>3 DEF MailWords, TypedIn
      <4>3. more \in Seq(Nat)
        BY <3>1
      <4>4. target.rx \o (OnWay \o queue) = (target.rx \o OnWay) \o queue
        BY ONLY <2>1, <3>1, Joins
      <4> QED BY <4>1, <4>3, <4>4
    <3> HIDE DEF more
    <3>3. Len(target.rx) <= Len(Input) /\ SubSeq(target.rx \o more, 1, Len(target.rx)) = target.rx
      BY <2>1, <3>2
    <3> QED BY <3>2, <3>3 DEF Mail!IsPrefixOf
  <2> QED BY <2>2, <2>3
<1>5. Mail!InOrderOnce
  BY <1>1, <1>3, <1>4 DEF Mail!InOrderOnce, TextsOf, Talked
<1>6. Mail!LeavesOperands
  BY DEF Mail!LeavesOperands, Hart, Path
<1> QED BY <1>5, <1>6 DEF MailboxKept, Mail!MailboxKept

\* Whichever access of a poll is missed, one at most, and wherever the target is between two,
\* the head of each frame reaches the sink once and in order, in dmseq with its own rest and
\* else with that of a frame said so far under the same head; the input reaches the target once
\* and in order; and no operand is taken.  What a poll confirms is what lies in the mailbox, and
\* a rest it has read goes with a head it has seen until that head is answered.
THEOREM MailboxIsKept ==
  ASSUME OneMiss
  PROVE  Mail!MailSpec => []MailboxKept
<1>1. Mail!MailInit => MailInv
  BY BesideAssumption, MailInitially
<1>2. MailInv /\ [Mail!MailNext]_Mail!mailVars => MailInv'
  BY BesideAssumption, MailNexts
<1>3. MailInv => MailboxKept
  BY BesideAssumption, MailIsKept
<1> QED BY <1>1, <1>2, <1>3, PTL DEF Mail!MailSpec
=============================================================================
