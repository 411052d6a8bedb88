------------------------------ MODULE PinPlan ------------------------------
(***************************************************************************)
(* Which fn has which channel of the probe: the plan (Endpoint::planApply, *)
(* replaceFns, planRelease, replacePlan), the pin table it is kept in      *)
(* (PinTable), and the three kinds of interface that take pins:            *)
(*                                                                         *)
(*   Drivers    claim their channels and drive the pads (FixtureGpio);     *)
(*   Listeners  claim none and share with anything (LogicCapture);         *)
(*   Analogs    claim theirs and share with no plan (AnalogCapture).       *)
(*                                                                         *)
(* Fns are numbers: the code walks them in order, and an apply that fails  *)
(* leaves the later ones unapplied. A role is its channel. The channels    *)
(* are all allowed; the settings may disable some.                         *)
(***************************************************************************)
EXTENDS Integers, FiniteSets, Functions, FiniteSetsExt

CONSTANTS
  Drivers, Listeners, Analogs,   \* the fns, by kind
  Channels,
  Wire,                          \* the debug wire, an owner beside the fns
  NoOne,                         \* owner 0
  MaxRoles,                      \* kMaxRoles: the roles the plan holds
  MaxAsk,                        \* bound: roles in one request
  Resubmits,                     \* do requests name a fn with the set it has?
  OverDisabled                   \* does the sketch plan disabled channels?

Fns == Drivers \cup Listeners \cup Analogs
Tracks == Listeners \cup Analogs
Roles == Fns \X Channels

ASSUME FnsAssumption ==
  /\ Fns \subseteq Nat \ {0} /\ IsFiniteSet(Channels)
  /\ Drivers \cap Tracks = {} /\ Listeners \cap Analogs = {}
  /\ Wire \notin Fns /\ NoOne \notin Fns /\ Wire # NoOne
  /\ MaxRoles \in Nat \ {0} /\ MaxAsk \in Nat /\ Resubmits \in BOOLEAN
  /\ OverDisabled \in BOOLEAN

VARIABLES
  plan,         \* plan_roles_, a bag: [Roles -> 0 .. MaxRoles]
  planned,      \* the fns whose fn_[].planned is set
  persistent,   \* the fns whose plan is the settings' (fn_[].persistent)
  pins,         \* what each interface took at its planApply
  work,         \* a capture's state: none, running, or data to read
  bound,        \* the tracks bound into the capture group
  owner,        \* PinTable::owner_
  pad,          \* a pad at its idle state, or as something set it
  disabled,     \* PinTable::disabled_
  reply         \* who asked last for a plan change, and the answer

vars == <<plan, planned, persistent, pins, work, bound, owner, pad, disabled, reply>>

Said(who, answer) == [who |-> who, answer |-> answer]
Silent == Said("none", "none")

TypeOK ==
  /\ plan \in [Roles -> 0 .. MaxRoles]
  /\ planned \in SUBSET Fns /\ persistent \in SUBSET Fns
  /\ pins \in [Fns -> SUBSET Channels]
  /\ work \in [Fns -> {"none", "running", "data"}]
  /\ bound \in SUBSET Tracks
  /\ owner \in [Channels -> Fns \cup {Wire, NoOne}]
  /\ pad \in [Channels -> {"idle", "set"}]
  /\ disabled \in SUBSET Channels
  /\ reply \in [who: {"none", "host", "settings", "session"},
                answer: {"none", "completed", "unavailable", "failed"}]

Init ==
  /\ plan = [r \in Roles |-> 0]
  /\ planned = {} /\ persistent = {}
  /\ pins = [f \in Fns |-> {}]
  /\ work = [f \in Fns |-> "none"]
  /\ bound = {}
  /\ owner = [c \in Channels |-> NoOne]
  /\ pad = [c \in Channels |-> "idle"]
  /\ disabled = {}
  /\ reply = Silent

-----------------------------------------------------------------------------
(* A plan as a bag of roles *)

Size(bag) == MapThenSumSet(LAMBDA r : bag[r], Roles)
RolesOf(bag, f) == {c \in Channels : bag[<<f, c>>] > 0}
Copies(bag, f) == {e \in Channels \X (1 .. MaxRoles) : e[2] <= bag[<<f, e[1]>>]}
Without(bag, F) == [r \in Roles |-> IF r[1] \in F THEN 0 ELSE bag[r]]
Plus(bag, R) == [r \in Roles |-> bag[r] + (IF r \in R THEN 1 ELSE 0)]

Wanted(R, f) == {c \in Channels : <<f, c>> \in R}

-----------------------------------------------------------------------------
(* The pin table. A replacement's releases are only marked (pending_); its *)
(* end idles the marked channels nobody took again. The other releases     *)
(* idle their pads at once.                                                *)

free(own, c) == c \notin disabled /\ own[c] = NoOne
freeFor(own, c, f) == c \notin disabled /\ own[c] \in {NoOne, f}
release(own, F) == [c \in Channels |-> IF own[c] \in F THEN NoOne ELSE own[c]]

Held(own, F) == {c \in Channels : own[c] \in F}

\* Mutant: the old channels idled before the new plan takes them.
idleFirst(own, marked) ==
  [c \in Channels |-> IF owner[c] \in Fns /\ c \notin disabled THEN "idle" ELSE pad[c]]
settleIdle(own, marked) ==
  [c \in Channels |-> IF c \in marked /\ own[c] = NoOne /\ c \notin disabled
                        THEN "idle" ELSE pad[c]]

-----------------------------------------------------------------------------
(* The interfaces *)

planCheck(own, doing, f, C) ==
  CASE f \in Drivers   -> \A c \in C : freeFor(own, c, f)
    [] f \in Listeners -> doing[f] # "running"
    [] f \in Analogs   -> /\ doing[f] # "running"
                          /\ \A c \in C : own[c] \in {NoOne, f}

(* applyAll: the fns of F with roles in a bag, in order, on what is held    *)
(* so far (s.owner, s.marked, s.pins, s.planned), until one fails.  A       *)
(* driver claims its channels one after another, and fails when one is      *)
(* twice in the bag or no longer free; it gives up those it claimed         *)
(* (marked, then).  Analog ignores a failed claim.  A claim takes the mark  *)
(* off.                                                                     *)
Wanting(F, bag, c) == {f \in F \ Listeners : c \in RolesOf(bag, f)}

Fails(own, F, bag) ==
  {f \in F \cap Drivers : \E c \in RolesOf(bag, f) :
     \/ ~free(own, c) \/ bag[<<f, c>>] > 1
     \/ \E g \in Wanting(F, bag, c) : g < f}

applyAll(s, F, bag) ==
  LET fails   == Fails(s.owner, F, bag)
      applied == {f \in F : RolesOf(bag, f) # {} /\ \A g \in fails : f < g}
      took    == {c \in Channels : free(s.owner, c) /\ Wanting(applied, bag, c) # {}}
      givenUp == {c \in Channels \ took : free(s.owner, c)
                   /\ \E f \in fails : c \in RolesOf(bag, f) /\ \A g \in fails : f <= g}
  IN [ok      |-> fails = {},
      owner   |-> [c \in Channels |-> IF c \in took THEN Min(Wanting(applied, bag, c)) ELSE s.owner[c]],
      marked  |-> (s.marked \ took) \cup givenUp,
      pins    |-> [f \in Fns |-> IF f \in applied THEN RolesOf(bag, f) ELSE s.pins[f]],
      planned |-> s.planned \cup applied]

(* planRelease of the fns F *)
Released(F) ==
  [ok |-> TRUE, owner |-> release(owner, F), marked |-> Held(owner, F),
   pins |-> [f \in Fns |-> IF f \in F THEN {} ELSE pins[f]],
   planned |-> planned \ F]

Forgot(F) == [f \in Fns |-> IF f \in F THEN "none" ELSE work[f]]

-----------------------------------------------------------------------------
(* replaceFns: the plan of the fns F becomes the roles R, all or nothing   *)

SameSet(R, f) ==
  /\ Cardinality(Copies(plan, f)) = Cardinality(Wanted(R, f))
  /\ RolesOf(plan, f) \subseteq Wanted(R, f)
  /\ Wanted(R, f) # {} \/ f \notin planned

(* mark_a: the listed fns whose set changes *)
Changed(R, F) == {f \in F : ~SameSet(R, f)}

(* A channel of an interface that shares none, in another fn's plan: among *)
(* the plans kept, or among the new ones                                   *)
Clash(kept, R) ==
  \E r \in R, o \in Roles :
     /\ o \in R \/ kept[o] > 0
     /\ o[1] # r[1] /\ o[2] = r[2]
     /\ r[1] \in Analogs \/ o[1] \in Analogs

Becomes(s, bag, held, who, answer) ==
  /\ owner' = s.owner /\ pins' = s.pins /\ planned' = s.planned
  /\ plan' = bag
  /\ persistent' = held
  /\ pad' = settleIdle(s.owner, s.marked)
  /\ reply' = Said(who, answer)
  /\ UNCHANGED <<bound, disabled>>

Unavailable(who) ==
  /\ reply' = Said(who, "unavailable")
  /\ UNCHANGED <<plan, planned, persistent, pins, work, bound, owner, pad, disabled>>

(* undo: the old roles applied again, and back in the table whether or not *)
(* they all were                                                           *)
\* Mutant: the old plans are not applied again.
UndoneForgets(F, who, answer) == Becomes(Released(F), plan, persistent, who, answer)
Undone(F, who, answer) ==
  LET old == [r \in Roles |-> IF r[1] \in F THEN plan[r] ELSE 0]
  IN Becomes(applyAll(Released(F), F, old), plan, persistent, who, answer)

Over(kept, R) == Size(kept) + Cardinality(R) > MaxRoles

Put(R, F, held, who) ==
  LET s == applyAll(Released(F), F, Plus([r \in Roles |-> 0], R))
      kept == Without(plan, F)
  IN /\ work' = Forgot(F \cap planned)
     /\ \/ /\ Over(kept, R) \/ Clash(kept, R)
           /\ Undone(F, who, "unavailable")
        \/ /\ ~Over(kept, R) /\ ~Clash(kept, R) /\ ~s.ok
           /\ Undone(F, who, "failed")
        \/ /\ ~Over(kept, R) /\ ~Clash(kept, R) /\ s.ok
           /\ Becomes(s, Plus(kept, R),
                      (persistent \ F) \cup (IF held THEN F \cap s.planned ELSE {}),
                      who, "completed")

replaceFns(R, F, held, who) ==
  LET A == Changed(R, F)
      fits == \A f \in A : Wanted(R, f) # {} => planCheck(owner, work, f, Wanted(R, f))
  IN \/ F \cap bound # {} /\ Unavailable(who)
     \/ F \cap bound = {} /\ ~fits /\ Unavailable(who)
     \/ F \cap bound = {} /\ fits /\ Put(R, A, held, who)

Named(R) == {r[1] : r \in R}

Asks == UNION {kSubset(n, Roles) : n \in 1 .. MaxAsk}

Fresh(R) == Resubmits \/ \A f \in Named(R) : Wanted(R, f) # RolesOf(plan, f)

(* plan_apply: not over a plan of the settings, not on a disabled channel *)
planApply(R) ==
  /\ Fresh(R)
  /\ LET held == Named(R) \cap persistent # {} \/ \E r \in R : r[2] \in disabled
     IN \/ held /\ Unavailable("host")
        \/ ~held /\ replaceFns(R, Named(R), FALSE, "host")

(* replacePlan, the sketch's: fns listed with no role are released *)
replacePlan(R, F) ==
  /\ F \cap Named(R) = {}
  /\ Fresh(R)
  /\ OverDisabled \/ \A r \in R : r[2] \notin disabled
  /\ replaceFns(R, Named(R) \cup F, TRUE, "settings")

-----------------------------------------------------------------------------
(* planRelease: the fns F let go, their roles out of the table *)

\* Mutant: the roles stay in the table.
LetGoKeepsRoles(F, who) ==
  Becomes(Released(F), plan, persistent \ F, who, "completed") /\ work' = Forgot(F)
LetGo(F, who) ==
  LET s == Released(F)
  IN /\ Becomes(s, [r \in Roles |-> IF r[1] \in s.planned THEN plan[r] ELSE 0],
                persistent \ F, who, "completed")
     /\ work' = Forgot(F)

(* plan_release: the session's plans among the fns named; a bound track is *)
(* the group's                                                             *)
planReleaseRequest(F) ==
  LET mine == F \cap (planned \ persistent)
  IN \/ mine \cap bound # {} /\ Unavailable("host")
     \/ mine # {} /\ mine \cap bound = {} /\ LetGo(mine, "host")

(* The session over: the group unbound first, then the session's plans *)
loseSession ==
  LET mine == planned \ persistent
      s == Released(mine)
  IN /\ bound' = {}
     /\ owner' = s.owner /\ pins' = s.pins /\ planned' = s.planned
     /\ plan' = [r \in Roles |-> IF mine = {} \/ r[1] \in s.planned THEN plan[r] ELSE 0]
     /\ pad' = settleIdle(s.owner, s.marked)
     /\ work' = Forgot(mine)
     /\ reply' = Said("session", "completed")
     /\ UNCHANGED <<persistent, disabled>>

-----------------------------------------------------------------------------
(* What else changes pins, pads and captures *)

(* gpio set on a planned channel *)
SetPad(f, c) ==
  /\ f \in Drivers /\ c \in pins[f] /\ pad[c] = "idle"
  /\ pad' = [pad EXCEPT ![c] = "set"]
  /\ reply' = Silent
  /\ UNCHANGED <<plan, planned, persistent, pins, work, bound, owner, disabled>>

(* a capture started, or the one running done; an analog one takes its pads *)
Capture(f) ==
  /\ f \in Tracks \cap planned
  /\ work' = [work EXCEPT ![f] = IF @ = "running" THEN "data" ELSE "running"]
  /\ pad' = [c \in Channels |-> IF f \in Analogs /\ c \in pins[f] THEN "set" ELSE pad[c]]
  /\ reply' = Silent
  /\ UNCHANGED <<plan, planned, persistent, pins, bound, owner, disabled>>

(* bind and unbind of the capture group, its tracks at rest *)
Bind(F) ==
  /\ F # bound /\ F \subseteq Tracks \cap planned
  /\ \A f \in F \cup bound : work[f] # "running"
  /\ bound' = F
  /\ reply' = Silent
  /\ UNCHANGED <<plan, planned, persistent, pins, work, owner, pad, disabled>>

(* The wire's connection takes its pair, or lets it go to its idle state *)
Attach(C) ==
  /\ \A c \in Channels : owner[c] # Wire
  /\ C # {} /\ \A c \in C : free(owner, c)
  /\ owner' = [c \in Channels |-> IF c \in C THEN Wire ELSE owner[c]]
  /\ pad' = [c \in Channels |-> IF c \in C THEN "set" ELSE pad[c]]
  /\ reply' = Silent
  /\ UNCHANGED <<plan, planned, persistent, pins, work, bound, disabled>>

Detach ==
  /\ \E c \in Channels : owner[c] = Wire
  /\ owner' = release(owner, {Wire})
  /\ pad' = settleIdle(owner', Held(owner, {Wire}))
  /\ reply' = Silent
  /\ UNCHANGED <<plan, planned, persistent, pins, work, bound, disabled>>

(* The settings' disables, none on a channel in use; a channel enabled     *)
(* again goes to its idle state                                            *)
setDisabled(D) ==
  /\ D # disabled /\ \A c \in D \ disabled : owner[c] = NoOne
  /\ disabled' = D
  /\ pad' = [c \in Channels |-> IF c \in disabled \ D /\ owner[c] = NoOne THEN "idle" ELSE pad[c]]
  /\ reply' = Silent
  /\ UNCHANGED <<plan, planned, persistent, pins, work, bound, owner>>

Next ==
  \/ \E R \in Asks : planApply(R)
  \/ \E R \in Asks \cup {{}}, F \in kSubset(1, Fns) \cup {{}} : replacePlan(R, F)
  \/ \E F \in SUBSET Fns : planReleaseRequest(F)
  \/ loseSession
  \/ \E f \in Fns, c \in Channels : SetPad(f, c)
  \/ \E f \in Fns : Capture(f)
  \/ \E F \in SUBSET Tracks : Bind(F)
  \/ \E C \in SUBSET Channels : Attach(C)
  \/ Detach
  \/ \E D \in SUBSET Channels : setDisabled(D)

Spec == Init /\ [][Next]_vars

-----------------------------------------------------------------------------
(* Properties *)

(* The table of roles, the planned flags, what each interface took and who *)
(* owns the channels all say the same: no fn works on a channel its plan   *)
(* lost, and no owner outlives its plan.                                    *)
PlanIsWhatIsHeld ==
  \A f \in Fns :
    /\ RolesOf(plan, f) = pins[f]
    /\ f \in planned <=> pins[f] # {}
    /\ f \in persistent => f \in planned
    /\ {c \in Channels : owner[c] = f} = IF f \in Listeners THEN {} ELSE pins[f]

(* An analog input takes its pad from the digital side: its channel is in  *)
(* no other fn's plan, whichever came first (core 8.1).                    *)
AnalogIsAlone ==
  \A f \in Analogs, g \in Fns \ Analogs : pins[f] \cap pins[g] = {}

(* Tables, interfaces and pads agree, and an analog pad has one owner.       *)
PlanAgrees == PlanIsWhatIsHeld /\ AnalogIsAlone

(* A replacement never blinks a channel that is in the old plan and in the *)
(* new one, or that another fn drives: only a channel let go idles.        *)
NeverBlinks ==
  [][\A c \in Channels : pad[c] = "set" /\ pad'[c] = "idle" => owner'[c] = NoOne]_vars

(* A replacement refused or failed leaves every plan, owner and pad as it  *)
(* found them (the comment above replaceFns).                              *)
AllOrNothing ==
  [][reply'.answer \in {"unavailable", "failed"} =>
       UNCHANGED <<plan, planned, persistent, pins, owner, pad>>]_vars

(* A session's request, or a session's end, never touches a plan the       *)
(* settings put in, and nobody changes the plan of a track while the group *)
(* has it bound.                                                           *)
OnlyWhoMayPlans ==
  [][/\ reply'.who # "settings" =>
          \A f \in persistent : f \in persistent' /\ pins'[f] = pins[f] /\ f \in planned'
     /\ \A f \in bound \cap bound' : pins'[f] = pins[f]]_vars

(* A plan changes whole, and only by one who may change it.                *)
PlansKept == AllOrNothing /\ OnlyWhoMayPlans

(* A request answered completed left every fn it named with exactly the    *)
(* channels asked for. Broken when a fn is named again with the set it     *)
(* has: its roles are then in the table twice.                             *)
DoneMeansPlanned ==
  [][\A R \in Asks :
       planApply(R) /\ reply'.answer = "completed" =>
         \A f \in Named(R) : pins'[f] = Wanted(R, f)]_vars

=============================================================================
