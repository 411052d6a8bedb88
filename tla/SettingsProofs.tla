--------------------------- MODULE SettingsProofs ---------------------------
(***************************************************************************)
(* The settings, for every set of channels, every save another firmware    *)
(* left and every limit. Three invariants, one on top of the other: the    *)
(* pin table follows the values (IInv); the values, the save and the flash *)
(* go together (KInv); what a boot would find now is a save that was       *)
(* answered or cut short (Recovers). Reading a save back is followed value *)
(* by value, its steps counted up with a lemma of their own (UpTo).        *)
(***************************************************************************)
EXTENDS Settings, FiniteSetTheorems, FunctionTheorems, SequenceTheorems, TLAPS

Tables == owner = [c \in Channels |-> owner[c]] /\ pad = [c \in Channels |-> pad[c]]
BeforeUp == pc # "up" => \A c \in Channels : owner[c] = "free" /\ idle[c] = None
Current == pc = "up" => /\ disabled = disabledIn(items)
                        /\ \A c \in Channels : idle[c] = idlePlainOf(items, c)
Unowned == \A c \in disabled : owner[c] = "free"
Resting == pc # "off" => \A c \in Channels \ disabled :
                           owner[c] = "free" => pad[c] = applyIdle(idle[c])
Left == away \subseteq disabled /\ disabled \subseteq Channels
        /\ \A c \in away : pad[c] = "reset"

IInv == Tables /\ BeforeUp /\ Current /\ Unowned /\ Resting /\ Left

(* The table is current for as long as nothing of it changes.              *)
LEMMA CurrentStays ==
  ASSUME Current, UNCHANGED <<pc, items, disabled, idle>>
  PROVE  Current'
BY DEF Current, disabledIn, idlePlainOf, in, Slot

(* A step that touches neither the values nor the pin table keeps it all.  *)
LEMMA Untouched ==
  ASSUME IInv, UNCHANGED <<pc, items, padVars>>
  PROVE  IInv'
<1>1. Current'
  BY CurrentStays DEF IInv, padVars
<1> QED
  BY <1>1 DEF IInv, Tables, BeforeUp, Unowned, Resting, Left, padVars, applyIdle

(* adopt, of values whose disables take no channel a plan has.             *)
LEMMA AdoptFollows ==
  ASSUME IInv, pc # "off", pc' = "up", UNCHANGED owner, NEW I, adopt(I),
         \A c \in disabledIn(I) : owner[c] = "free"
  PROVE  IInv'
<1> DEFINE off == disabledIn(I)
<1>1. off \subseteq Channels
  BY DEF disabledIn
<1>2. disabled' = off /\ away' = away \cap off /\ items' = I
  BY DEF adopt
<1>3. idle' = [c \in Channels |-> idlePlainOf(I, c)]
  BY DEF adopt
<1>4. pad' = setIdle(setDisabled(off), off, I)
  BY DEF adopt
<1> HIDE DEF off
<1>5. Tables'
  BY <1>4 DEF IInv, Tables, setIdle
<1>6. Current'
  <2>1. disabled' = disabledIn(items')
    BY <1>2 DEF off
  <2>2. \A c \in Channels : idle'[c] = idlePlainOf(items', c)
    BY <1>2, <1>3
  <2>3. disabledIn(items)' = disabledIn(items')
    BY DEF disabledIn, in, Slot
  <2>4. \A c \in Channels : idlePlainOf(items, c)' = idlePlainOf(items', c)
    BY DEF idlePlainOf, in, Slot
  <2> QED
    BY <2>1, <2>2, <2>3, <2>4 DEF Current
<1>7. Unowned'
  BY <1>2 DEF Unowned, off
<1>8. Resting'
  <2> SUFFICES ASSUME NEW c \in Channels, c \notin off, owner[c] = "free"
               PROVE  pad'[c] = applyIdle(idlePlainOf(I, c))
    BY <1>2, <1>3 DEF Resting, applyIdle
  <2>1. CASE idle[c] # idlePlainOf(I, c)
    BY <1>4, <2>1 DEF setIdle
  <2>2. CASE idle[c] = idlePlainOf(I, c) /\ c \in disabled
    BY <1>4, <2>2 DEF setIdle, setDisabled
  <2>3. CASE idle[c] = idlePlainOf(I, c) /\ c \notin disabled
    BY <1>4, <2>3 DEF setIdle, setDisabled, IInv, Resting
  <2> QED
    BY <2>1, <2>2, <2>3
<1>9. Left'
  <2> SUFFICES ASSUME NEW c \in away, c \in off
               PROVE  pad'[c] = "reset"
    BY <1>1, <1>2 DEF IInv, Left
  <2>1. pad'[c] = pad[c]
    BY <1>1, <1>4 DEF setIdle, setDisabled
  <2> QED
    BY <2>1 DEF IInv, Left
<1> QED
  BY <1>5, <1>6, <1>7, <1>8, <1>9 DEF IInv, BeforeUp

(* set and unset: what checkWhole let through disables no channel in use.  *)
LEMMA CommitFollows ==
  ASSUME IInv, Ready, UNCHANGED <<pc, owner>>, NEW I, commit(I)
  PROVE  IInv'
<1>1. \A c \in disabledIn(I) : owner[c] = "free"
  <2> SUFFICES ASSUME NEW c \in disabledIn(I), owner[c] # "free"
               PROVE  FALSE
    OBVIOUS
  <2>1. c \notin Busy /\ c \in Channels
    BY DEF commit, checkWhole, DisablesFit, disabledIn
  <2>2. c \in disabled
    BY <2>1 DEF Busy
  <2> QED
    BY <2>2 DEF IInv, Unowned
<1>2. adopt(I) /\ pc # "off" /\ pc' = "up"
  BY DEF commit, Ready
<1> QED
  BY <1>1, <1>2, AdoptFollows

(* Before the boot nothing is disabled and nothing is driven.              *)
LEMMA InitFollows == Init => IInv
BY DEF Init, IInv, Tables, BeforeUp, Current, Unowned, Resting, Left

(* Every step keeps it.                                                    *)
LEMMA StepFollows == IInv /\ [Next]_vars => IInv'
<1> SUFFICES ASSUME IInv, [Next]_vars
             PROVE  IInv'
  OBVIOUS
<1>1. CASE PowerLoss
  BY <1>1 DEF PowerLoss, IInv, Tables, BeforeUp, Current, Unowned, Resting, Left
<1>2. CASE load
  <2>1. savedDisabled(file) \subseteq Channels
    BY DEF savedDisabled, Disables
  <2>2. pc = "off" /\ pc' = "loaded" /\ UNCHANGED <<idle, owner>>
        /\ disabled' = savedDisabled(file) /\ away' = savedDisabled(file)
        /\ pad' = [c \in Channels |-> IF c \in savedDisabled(file) THEN "reset" ELSE "hi-z"]
    BY <1>2 DEF load
  <2>3. \A c \in Channels : owner[c] = "free" /\ idle[c] = None
    BY <2>2 DEF IInv, BeforeUp
  <2> QED
    BY <2>1, <2>2, <2>3 DEF IInv, Tables, BeforeUp, Current, Unowned, Resting, Left, applyIdle
<1>3. CASE applySaved
  <2>1. adopt(Booted(file)) /\ pc # "off" /\ pc' = "up" /\ UNCHANGED owner
    BY <1>3 DEF applySaved
  <2>2. \A c \in disabledIn(Booted(file)) : owner[c] = "free"
    BY <1>3 DEF applySaved, IInv, BeforeUp, disabledIn
  <2> QED
    BY <2>1, <2>2, AdoptFollows
<1>4. CASE set
  BY <1>4, CommitFollows DEF set
<1>5. CASE unset
  BY <1>5, CommitFollows DEF unset
<1>6. CASE get \/ save \/ WriteStage \/ RenameStage \/ SaveDone \/ SaveFails
  BY <1>6, Untouched DEF get, save, WriteStage, RenameStage, SaveDone, SaveFails, padVars
<1>7. ASSUME NEW c \in Channels, claim(c)
      PROVE  IInv'
  <2>1. Current'
    BY <1>7, CurrentStays DEF claim, IInv
  <2> QED
    BY <1>7, <2>1 DEF claim, IInv, Tables, BeforeUp, Unowned, Resting, Left, applyIdle
<1>8. ASSUME NEW c \in Channels, release(c)
      PROVE  IInv'
  <2>1. Current'
    BY <1>8, CurrentStays DEF release, IInv
  <2> QED
    BY <1>8, <2>1 DEF release, IInv, Tables, BeforeUp, Unowned, Resting, Left, applyIdle
<1>9. CASE UNCHANGED vars
  BY <1>9, Untouched DEF vars
<1> QED
  BY <1>1, <1>2, <1>3, <1>4, <1>5, <1>6, <1>7, <1>8, <1>9 DEF Next

(* The invariant of every behaviour.                                       *)
LEMMA AlwaysFollows == Spec => []IInv
BY InitFollows, StepFollows, PTL DEF Spec

(* The pin table follows the values (adopt, setDisabled, setIdle), and no  *)
(* channel is disabled while a plan has it (checkWhole, claim).            *)
THEOREM TableFollows == Spec => []PinsFollow
<1>1. IInv => PinsFollow
  BY DEF IInv, Current, Unowned, PinsFollow
<1> QED
  BY <1>1, AlwaysFollows, PTL

(* A free channel rests in its idle state, whatever order the values and   *)
(* the plans came in.                                                      *)
THEOREM PadsRest == Spec => []FreeRests
<1>1. IInv => FreeRests
  BY DEF IInv, Resting, FreeRests
<1> QED
  BY <1>1, AlwaysFollows, PTL

(* A channel the save disables is left as the reset left it from the boot. *)
THEOREM DisabledAreLeft == Spec => []LeftFromBoot
<1>1. IInv => LeftFromBoot
  BY DEF IInv, Left, LeftFromBoot
<1> QED
  BY <1>1, AlwaysFollows, PTL

(* Within a boot the generation moves exactly when the values do (commit   *)
(* is its one writer), and only forward: a host that reads the same        *)
(* generation twice has the same values twice.                             *)
THEOREM GenerationTells == Spec => GenerationCounts
<1> DEFINE Num == generation \in Nat
<1> DEFINE Moves == pc = "up" /\ pc' = "up" =>
                      /\ generation' # generation <=> items' # items
                      /\ generation' >= generation
<1>1. Init => Num
  BY DEF Init
<1>2. ASSUME Num, [Next]_vars
      PROVE  Num' /\ Moves
  <2>1. CASE PowerLoss
    BY <2>1, <1>2 DEF PowerLoss
  <2>2. CASE load \/ applySaved
    BY <2>2, <1>2 DEF load, applySaved
  <2>3. ASSUME NEW I, commit(I)
        PROVE  Num' /\ Moves
    BY <2>3, <1>2 DEF commit, adopt
  <2>4. CASE set
    BY <2>4, <2>3 DEF set
  <2>5. CASE unset
    BY <2>5, <2>3 DEF unset
  <2>6. CASE get \/ save \/ WriteStage \/ RenameStage \/ SaveDone \/ SaveFails
    <3>1. UNCHANGED <<items, generation>>
      BY <2>6 DEF get, save, WriteStage, RenameStage, SaveDone, SaveFails
    <3> QED
      BY <3>1, <1>2
  <2>7. ASSUME NEW c \in Channels, claim(c) \/ release(c)
        PROVE  Num' /\ Moves
    BY <2>7, <1>2 DEF claim, release
  <2>8. CASE UNCHANGED vars
    BY <2>8, <1>2 DEF vars
  <2> QED
    BY <1>2, <2>1, <2>2, <2>4, <2>5, <2>6, <2>7, <2>8 DEF Next
<1>3. Spec => [][Moves]_vars
  BY <1>1, <1>2, PTL DEF Spec
<1> QED
  BY <1>3 DEF GenerationCounts

-----------------------------------------------------------------------------
(* A save read back: the passes are recursive functions over the save, and *)
(* what holds along one is shown by counting up to a number.               *)

(* What holds of 0, and of a number more wherever it holds, holds up to n. *)
LEMMA UpTo ==
  ASSUME NEW n \in Nat, NEW S, 0 \in S,
         \A k \in 0 .. (n - 1) : k \in S => k + 1 \in S
  PROVE  \A k \in 0 .. n : k \in S
<1> SUFFICES ASSUME NEW m \in 0 .. n, m \notin S
             PROVE  FALSE
  OBVIOUS
<1> DEFINE U == {k \in 0 .. m : k \notin S}
           f == [k \in U |-> k - 1]
<1>1. IsFiniteSet(U)
  <2>1. IsFiniteSet(0 .. m)
    BY FS_Interval
  <2> QED
    BY <2>1, FS_Subset
<1>2. \A k \in U : k - 1 \in U
  <2> SUFFICES ASSUME NEW k \in U
               PROVE  k - 1 \in U
    OBVIOUS
  <2>1. k # 0 /\ k \in 0 .. m /\ k \notin S
    OBVIOUS
  <2>2. k - 1 \in 0 .. (n - 1) /\ (k - 1) + 1 = k /\ k - 1 \in 0 .. m
    BY <2>1
  <2>3. k - 1 \notin S
    BY <2>1, <2>2
  <2> QED
    BY <2>2, <2>3
<1>3. f \in Injection(U, U)
  <2>1. \A j, k \in U : j - 1 = k - 1 => j = k
    OBVIOUS
  <2> QED
    BY <1>2, <2>1 DEF Injection, IsInjective
<1>4. f \in Surjection(U, U)
  <2> HIDE DEF U, f
  <2> QED
    BY <1>1, <1>3, FS_Injection
<1>5. m \in U
  OBVIOUS
<1>6. PICK k \in U : f[k] = m
  BY <1>4, <1>5 DEF Surjection
<1>7. k - 1 = m /\ k =< m
  BY <1>6
<1> QED
  BY <1>7

(* A pass has its steps: what the pass has taken after each value.         *)
Steps(blob, s, disables, r) ==
  /\ DOMAIN r = 0 .. Len(blob) /\ r[0] = s
  /\ \A i \in 1 .. Len(blob) :
       r[i] = IF (blob[i].item = "disable") = disables
                THEN Read(r[i - 1], blob[i]) ELSE r[i - 1]

(* The function the pass is defined by is there: one value at a time.      *)
LEMMA PassSteps ==
  ASSUME NEW blob, Len(blob) \in Nat, NEW s, NEW d
  PROVE  \E r : Steps(blob, s, d, r) /\ Pass(blob, s, d) = r[Len(blob)]
<1> DEFINE n == Len(blob)
           One(r, i) == IF (blob[i].item = "disable") = d
                          THEN Read(r[i - 1], blob[i]) ELSE r[i - 1]
           Is(r, k) == r = [i \in 0 .. k |-> IF i = 0 THEN s ELSE One(r, i)]
           S == {k \in 0 .. n : \E r : Is(r, k)}
<1>1. 0 \in S
  <2> DEFINE r == [i \in 0 .. 0 |-> s]
  <2>1. Is(r, 0)
    OBVIOUS
  <2>2. 0 \in 0 .. n
    OBVIOUS
  <2> QED
    BY <2>1, <2>2
<1>2. ASSUME NEW k \in 0 .. (n - 1), k \in S
      PROVE  k + 1 \in S
  <2>1. PICK r : Is(r, k)
    BY <1>2
  <2> DEFINE q == [i \in 0 .. k + 1 |-> IF i = k + 1 THEN One(r, k + 1) ELSE r[i]]
  <2>2. ASSUME NEW i \in 0 .. k + 1
        PROVE  q[i] = IF i = 0 THEN s ELSE One(q, i)
    <3>1. CASE i = 0
      BY <2>1, <3>1
    <3>2. CASE i = k + 1
      <4>1. q[k] = r[k] /\ q[i] = One(r, k + 1) /\ i # 0 /\ i - 1 = k
        BY <3>2
      <4> QED
        BY <4>1, <3>2
    <3>3. CASE i \in 1 .. k
      <4>1. q[i] = r[i] /\ q[i - 1] = r[i - 1] /\ i # 0
        BY <3>3
      <4>2. r[i] = One(r, i)
        BY <2>1, <3>3
      <4>3. One(q, i) = One(r, i)
        BY <4>1
      <4> QED
        BY <4>1, <4>2, <4>3
    <3> QED
      BY <3>1, <3>2, <3>3
  <2>3. Is(q, k + 1)
    BY <2>2
  <2>4. k + 1 \in 0 .. n
    OBVIOUS
  <2> HIDE DEF q
  <2> QED
    BY <2>3, <2>4
<1>3. n \in S
  <2> HIDE DEF S
  <2>1. \A k \in 0 .. n : k \in S
    BY <1>1, <1>2, UpTo
  <2> QED
    BY <2>1
<1>4. PICK g : Is(g, n)
  BY <1>3
<1>5. \E r : Is(r, n) /\ Pass(blob, s, d) = r[n]
  BY <1>4 DEF Pass
<1>6. PICK r : Is(r, n) /\ Pass(blob, s, d) = r[n]
  BY <1>5
<1>7. Steps(blob, s, d, r)
  BY <1>6 DEF Steps
<1> QED
  BY <1>6, <1>7

(* What every value read keeps holds of what the pass has taken.           *)
LEMMA PassKeeps ==
  ASSUME NEW blob, Len(blob) \in Nat, NEW s, NEW d, NEW S, s \in S,
         \A x \in S : \A i \in 1 .. Len(blob) :
           (blob[i].item = "disable") = d => Read(x, blob[i]) \in S
  PROVE  Pass(blob, s, d) \in S
<1>1. PICK r : Steps(blob, s, d, r) /\ Pass(blob, s, d) = r[Len(blob)]
  BY PassSteps
<1> DEFINE n == Len(blob)
           K == {k \in 0 .. n : r[k] \in S}
<1>2. 0 \in K
  BY <1>1 DEF Steps
<1>3. ASSUME NEW k \in 0 .. (n - 1), k \in K
      PROVE  k + 1 \in K
  <2>1. k + 1 \in 1 .. n /\ (k + 1) - 1 = k /\ r[k] \in S
    BY <1>3
  <2>2. r[k + 1] = IF (blob[k + 1].item = "disable") = d
                     THEN Read(r[k], blob[k + 1]) ELSE r[k]
    BY <1>1, <2>1 DEF Steps
  <2>3. r[k + 1] \in S
    <3>1. CASE (blob[k + 1].item = "disable") = d
      BY <2>1, <2>2, <3>1
    <3>2. CASE ~((blob[k + 1].item = "disable") = d)
      BY <2>1, <2>2, <3>2
    <3> QED
      BY <3>1, <3>2
  <2> QED
    BY <2>1, <2>3
<1>4. n \in K
  <2> HIDE DEF K
  <2>1. \A k \in 0 .. n : k \in K
    BY <1>2, <1>3, UpTo
  <2> QED
    BY <2>1
<1> QED
  BY <1>1, <1>4

-----------------------------------------------------------------------------
(* Values a request can have made, and a boot can come up with: one to a   *)
(* slot, within the room, one line to a label, no idle where a disable is. *)
WellFormed(I) ==
  /\ I \subseteq checkValue /\ SlotsApart(I) /\ Cardinality(I) =< MaxItems
  /\ LabelsUnique(I)
  /\ \A c \in disabledIn(I) : in(I, <<"idle", c>>) = {}

(* A value is of one item, and its key a number.                           *)
LEMMA Values ==
  ASSUME NEW v \in checkValue
  PROVE  /\ v.key \in Nat
         /\ v.item \in {"label", "idle", "disable"} \cup ToSet(Uarts)
         /\ v.item \in {"idle", "disable"} => v.key \in Channels
<1>1. \A u \in ToSet(Uarts) : u \notin {"label", "idle", "disable"}
  <2>1. \A i \in DOMAIN Uarts : Uarts[i] \notin {"label", "idle", "disable"}
    BY SettingsAssumption
  <2> QED
    BY <2>1 DEF ToSet
<1>2. \A n \in Channels \cup Ports : n \in Nat
  BY SettingsAssumption
<1>3. CASE v \in Labels
  BY <1>2, <1>3 DEF Labels
<1>4. CASE v \in Idles
  BY <1>2, <1>4 DEF Idles
<1>5. CASE v \in Disables
  BY <1>2, <1>5 DEF Disables
<1>6. CASE v \in Receives
  BY <1>1, <1>2, <1>6 DEF Receives
<1> QED
  BY <1>3, <1>4, <1>5, <1>6 DEF checkValue

(* Values taken away leave the rest as well formed.                        *)
LEMMA FewerWell ==
  ASSUME NEW I, WellFormed(I), NEW J \in SUBSET I
  PROVE  WellFormed(J) /\ disabledIn(J) \subseteq disabledIn(I)
<1>1. IsFiniteSet(I)
  BY SettingsAssumption, FS_Subset DEF WellFormed
<1>2. Cardinality(J) \in Nat /\ Cardinality(I) \in Nat /\ Cardinality(J) =< Cardinality(I)
  BY <1>1, FS_Subset, FS_CardinalityType
<1>3. Cardinality(J) =< MaxItems
  BY <1>2, SettingsAssumption DEF WellFormed
<1>4. disabledIn(J) \subseteq disabledIn(I)
  BY DEF disabledIn, in
<1>5. SlotsApart(J) /\ LabelsUnique(J) /\ J \subseteq checkValue
  BY DEF WellFormed, SlotsApart, LabelsUnique
<1>6. \A c \in disabledIn(J) : in(J, <<"idle", c>>) = {}
  BY <1>4 DEF WellFormed, in
<1> QED
  BY <1>3, <1>4, <1>5, <1>6 DEF WellFormed

(* A value more, in a slot of its own with a label of its own.             *)
LEMMA OneMoreWell ==
  ASSUME NEW I, WellFormed(I), NEW v \in checkValue,
         in(I, Slot(v)) = {}, Cardinality(I) < MaxItems,
         \A w \in I : ~Alike(v, w),
         v.item = "idle" => v.key \notin disabledIn(I),
         v.item = "disable" => \A w \in I : w.item # "idle"
  PROVE  WellFormed(I \cup {v})
<1> DEFINE J == I \cup {v}
<1>1. Cardinality(J) =< MaxItems
  <2>1. IsFiniteSet(I)
    BY SettingsAssumption, FS_Subset DEF WellFormed
  <2>2. Cardinality(I) \in Nat
    BY <2>1, FS_CardinalityType
  <2>3. Cardinality(J) = Cardinality(I) \/ Cardinality(J) = Cardinality(I) + 1
    BY <2>1, FS_AddElement
  <2> QED
    BY <2>2, <2>3, SettingsAssumption
<1>2. SlotsApart(J)
  BY DEF WellFormed, SlotsApart, in
<1>3. LabelsUnique(J)
  BY DEF WellFormed, LabelsUnique, Alike
<1>4. ASSUME NEW c \in disabledIn(J)
      PROVE  in(J, <<"idle", c>>) = {}
  <2> SUFFICES ASSUME NEW w \in J, Slot(w) = <<"idle", c>>
               PROVE  FALSE
    BY DEF in
  <2>1. PICK u \in J : Slot(u) = <<"disable", c>> /\ u.on /\ c \in Channels
    BY DEF disabledIn, in
  <2>2. w.item = "idle" /\ w.key = c /\ u.item = "disable" /\ u.key = c
    BY <2>1 DEF Slot
  <2>3. CASE u = v
    BY <2>2, <2>3
  <2>4. CASE u \in I
    <3>1. c \in disabledIn(I)
      BY <2>1, <2>4 DEF disabledIn, in
    <3>2. w # v
      BY <3>1, <2>2
    <3> QED
      BY <3>1, <3>2 DEF WellFormed, in
  <2> QED
    BY <2>1, <2>3, <2>4
<1> QED
  BY <1>1, <1>2, <1>3, <1>4 DEF WellFormed

(* One value read: whatever it is, what the pass has taken stays well      *)
(* formed.                                                                 *)
LEMMA ReadWell ==
  ASSUME NEW s, NEW v, WellFormed(s.items),
         v.item = "disable" => \A w \in s.items : w.item # "idle"
  PROVE  /\ WellFormed(Read(s, v).items)
         /\ Read(s, v).items \subseteq s.items \cup {v}
<1> DEFINE I == s.items
           fits == /\ v \in checkValue
                   /\ ~(v.item = "idle" /\ v.key \in disabledIn(I))
                   /\ ~LabelLoses(I, v)
           left == IF fits THEN I \ Beaten(I, v) ELSE I
           ok == fits /\ in(left, Slot(v)) = {} /\ Room(left)
<1>1. Read(s, v).items = IF ok THEN left \cup {v} ELSE left
  BY DEF Read, Took
<1>2. WellFormed(left) /\ disabledIn(left) \subseteq disabledIn(I) /\ left \subseteq I
  <2>1. left \subseteq I
    OBVIOUS
  <2> HIDE DEF left
  <2> QED
    BY <2>1, FewerWell
<1>3. ASSUME ok
      PROVE  WellFormed(left \cup {v})
  <2>1. v \in checkValue /\ in(left, Slot(v)) = {} /\ Cardinality(left) < MaxItems
        /\ left = I \ Beaten(I, v)
    BY <1>3 DEF Room
  <2>2. \A w \in left : ~Alike(v, w)
    <3> SUFFICES ASSUME NEW w \in left, Alike(v, w)
                 PROVE  FALSE
      OBVIOUS
    <3>1. ~(w.key < v.key)
      BY <1>2, <1>3 DEF LabelLoses
    <3>2. ~(v.key < w.key)
      BY <2>1 DEF Beaten
    <3>3. v.key \in Nat /\ w.key \in Nat
      BY <2>1, <1>2, Values DEF WellFormed
    <3>4. Slot(w) = Slot(v)
      BY <3>1, <3>2, <3>3 DEF Alike, Slot
    <3> QED
      BY <2>1, <3>4 DEF in
  <2>3. v.item = "idle" => v.key \notin disabledIn(left)
    BY <1>2, <1>3
  <2>4. v.item = "disable" => \A w \in left : w.item # "idle"
    BY <1>2
  <2> HIDE DEF left
  <2> QED
    BY <1>2, <2>1, <2>2, <2>3, <2>4, OneMoreWell
<1> HIDE DEF left, ok
<1> QED
  BY <1>1, <1>2, <1>3

(* Whatever the save, what a boot reads out of it is well formed.          *)
LEMMA BlobWell ==
  ASSUME NEW blob, Len(blob) \in Nat
  PROVE  /\ WellFormed(readBlob(blob).items)
         /\ readBlob(blob) = [items |-> readBlob(blob).items, bad |-> readBlob(blob).bad]
         /\ readBlob(blob).bad \in BOOLEAN
<1> DEFINE none == [items |-> {}, bad |-> FALSE]
           All == [items : SUBSET checkValue, bad : BOOLEAN]
           First == {s \in All : WellFormed(s.items) /\ \A w \in s.items : w.item # "idle"}
           Both == {s \in All : WellFormed(s.items)}
<1>1. \A s, v : Read(s, v) \in [items : {Read(s, v).items}, bad : BOOLEAN]
  <2> TAKE s, v
  <2> DEFINE fits == /\ v \in checkValue
                     /\ ~(v.item = "idle" /\ v.key \in disabledIn(s.items))
                     /\ ~LabelLoses(s.items, v)
             left == IF fits THEN s.items \ Beaten(s.items, v) ELSE s.items
             ok == fits /\ in(left, Slot(v)) = {} /\ Room(left)
             now == IF ok THEN left \cup {v} ELSE left
             fine == ok /\ left = s.items
  <2>1. Read(s, v) = [items |-> now, bad |-> s.bad \/ ~fine]
    BY DEF Read, Took
  <2> HIDE DEF now, fine
  <2> QED
    BY <2>1
<1>2. \A s, v : WellFormed(Read(s, v).items) => Read(s, v) \in Both
  BY <1>1 DEF WellFormed
<1>3. none \in First
  <2>1. Cardinality({}) = 0
    BY FS_EmptySet
  <2>2. WellFormed({})
    BY <2>1, SettingsAssumption DEF WellFormed, SlotsApart, LabelsUnique, disabledIn, in
  <2> QED
    BY <2>2
<1>4. Pass(blob, none, TRUE) \in First
  <2>1. ASSUME NEW s \in First, NEW i \in 1 .. Len(blob), (blob[i].item = "disable") = TRUE
        PROVE  Read(s, blob[i]) \in First
    <3>1. /\ WellFormed(Read(s, blob[i]).items)
          /\ Read(s, blob[i]).items \subseteq s.items \cup {blob[i]}
      BY <2>1, ReadWell
    <3>2. \A w \in Read(s, blob[i]).items : w.item # "idle"
      BY <2>1, <3>1
    <3> QED
      BY <1>2, <3>1, <3>2
  <2> HIDE DEF First, none
  <2> QED
    BY <1>3, <2>1, PassKeeps
<1>5. readBlob(blob) \in Both
  <2> DEFINE s1 == Pass(blob, none, TRUE)
             no == FALSE
  <2>1. s1 \in Both
    BY <1>4
  <2>2. ASSUME NEW s \in Both, NEW i \in 1 .. Len(blob), (blob[i].item = "disable") = no
        PROVE  Read(s, blob[i]) \in Both
    BY <2>2, <1>2, ReadWell
  <2>3. readBlob(blob) = Pass(blob, s1, no)
    BY DEF readBlob
  <2> HIDE DEF Both, s1, no
  <2>4. Pass(blob, s1, no) \in Both
    BY <2>1, <2>2, PassKeeps
  <2> QED
    BY <2>3, <2>4
<1> QED
  BY <1>5

-----------------------------------------------------------------------------
(* The order of a save: every value has a place of its own.                *)

(* Every item has its place among the entries.                             *)
LEMMA RankIs ==
  ASSUME NEW v \in checkValue
  PROVE  Rank(v) \in Nat /\ Entries[Rank(v)] = v.item
<1>1. v.item \in {"label", "idle", "disable"} \cup ToSet(Uarts)
  BY Values
<1>2. Uarts \in Seq(STRING)
  BY SettingsAssumption
<1>3. /\ DOMAIN Entries = 1 .. 3 + Len(Uarts) /\ Len(Uarts) \in Nat
      /\ Entries[1] = "label" /\ Entries[2] = "idle" /\ Entries[3] = "disable"
      /\ \A i \in DOMAIN Uarts : Entries[3 + i] = Uarts[i] /\ 3 + i \in 1 .. 3 + Len(Uarts)
  BY <1>2 DEF Entries
<1>4. \E i \in DOMAIN Entries : Entries[i] = v.item
  <2>1. CASE v.item \in ToSet(Uarts)
    <3>1. PICK i \in DOMAIN Uarts : Uarts[i] = v.item
      BY <2>1 DEF ToSet
    <3> QED
      BY <1>3, <3>1
  <2>2. CASE v.item \in {"label", "idle", "disable"}
    BY <1>3, <2>2
  <2> QED
    BY <1>1, <2>1, <2>2
<1>5. \A i \in DOMAIN Entries : i \in Nat
  BY <1>3
<1>6. Rank(v) \in DOMAIN Entries /\ Entries[Rank(v)] = v.item
  BY <1>4 DEF Rank
<1> QED
  BY <1>5, <1>6

(* Of two values in slots of their own one comes before the other.         *)
LEMMA OneBefore ==
  ASSUME NEW v \in checkValue, NEW w \in checkValue
  PROVE  /\ ~Before(v, v)
         /\ Before(v, w) => ~Before(w, v)
         /\ Slot(v) # Slot(w) => Before(v, w) \/ Before(w, v)
         /\ \A u \in checkValue : Before(u, v) /\ Before(v, w) => Before(u, w)
<1>1. \A u \in checkValue : Rank(u) \in Nat /\ u.key \in Nat /\ Entries[Rank(u)] = u.item
  BY RankIs, Values
<1>2. Slot(v) # Slot(w) => Rank(v) # Rank(w) \/ v.key # w.key
  BY <1>1 DEF Slot
<1> QED
  BY <1>1, <1>2 DEF Before

(* The places of well-formed values are 1 up to their number, one each.    *)
LEMMA Placed ==
  ASSUME NEW I, WellFormed(I)
  PROVE  /\ IsFiniteSet(I) /\ Cardinality(I) \in Nat
         /\ \A v \in I : Place(I, v) \in 1 .. Cardinality(I)
         /\ \A v, w \in I : Place(I, v) = Place(I, w) => v = w
         /\ \A i \in 1 .. Cardinality(I) : \E v \in I : Place(I, v) = i
<1> DEFINE n == Cardinality(I)
           Under(v) == {w \in I : Before(w, v)}
<1>1. IsFiniteSet(I) /\ n \in Nat
  BY SettingsAssumption, FS_Subset, FS_CardinalityType DEF WellFormed
<1>2. \A v \in I : v \in checkValue
  BY DEF WellFormed
<1>3. ASSUME NEW S \in SUBSET I, NEW v \in I, v \notin S, NEW R \in SUBSET I, S \cup {v} \subseteq R
      PROVE  Cardinality(S) \in Nat /\ Cardinality(R) \in Nat /\ Cardinality(S) < Cardinality(R)
  <2>1. IsFiniteSet(S) /\ IsFiniteSet(R)
    BY <1>1, FS_Subset
  <2>2. Cardinality(S) \in Nat /\ Cardinality(R) \in Nat
    BY <2>1, FS_CardinalityType
  <2>3. Cardinality(S \cup {v}) = Cardinality(S) + 1 /\ IsFiniteSet(S \cup {v})
    BY <1>3, <2>1, FS_AddElement
  <2>4. Cardinality(S \cup {v}) =< Cardinality(R)
    BY <1>3, <2>1, FS_Subset
  <2> QED
    BY <2>2, <2>3, <2>4
<1>4. ASSUME NEW v \in I
      PROVE  Place(I, v) \in 1 .. n
  <2>1. v \notin Under(v)
    BY <1>2, OneBefore
  <2>2. Under(v) \in SUBSET I /\ Under(v) \cup {v} \subseteq I
    OBVIOUS
  <2>3. Cardinality(Under(v)) \in Nat /\ Cardinality(Under(v)) < n
    BY <1>3, <2>1, <2>2
  <2> QED
    BY <1>1, <2>3 DEF Place
<1>5. ASSUME NEW v \in I, NEW w \in I, Before(v, w)
      PROVE  Place(I, v) < Place(I, w)
  <2>1. v \notin Under(v)
    BY <1>2, OneBefore
  <2>2. Under(v) \cup {v} \subseteq Under(w)
    BY <1>2, <1>5, OneBefore
  <2>3. Under(v) \in SUBSET I /\ Under(w) \in SUBSET I
    OBVIOUS
  <2> HIDE DEF Under
  <2>4. Cardinality(Under(v)) \in Nat /\ Cardinality(Under(w)) \in Nat
        /\ Cardinality(Under(v)) < Cardinality(Under(w))
    BY <1>3, <2>1, <2>2, <2>3
  <2>5. Cardinality(Under(v)) + 1 < Cardinality(Under(w)) + 1
    BY <2>4
  <2> QED
    BY <2>5 DEF Place, Under
<1>6. ASSUME NEW v \in I, NEW w \in I, Place(I, v) = Place(I, w)
      PROVE  v = w
  <2> SUFFICES ASSUME v # w
               PROVE  FALSE
    OBVIOUS
  <2>1. Slot(v) # Slot(w)
    BY DEF WellFormed, SlotsApart
  <2>2. Before(v, w) \/ Before(w, v)
    BY <2>1, <1>2, OneBefore
  <2>3. Place(I, v) < Place(I, w) \/ Place(I, w) < Place(I, v)
    BY <2>2, <1>5
  <2>4. Place(I, v) \in 1 .. n /\ Place(I, w) \in 1 .. n
    BY <1>4
  <2> QED
    BY <1>1, <1>6, <2>3, <2>4
<1>7. ASSUME NEW i \in 1 .. n
      PROVE  \E v \in I : Place(I, v) = i
  <2> DEFINE f == [v \in I |-> Place(I, v)]
  <2>1. f \in Injection(I, 1 .. n)
    BY <1>4, <1>6 DEF Injection, IsInjective
  <2>2. IsFiniteSet(1 .. n) /\ Cardinality(1 .. n) = n
    BY <1>1, FS_Interval
  <2>3. f \in Surjection(I, 1 .. n)
    <3> HIDE DEF f
    <3> QED
      BY <1>1, <2>1, <2>2, FS_Injection
  <2> QED
    BY <2>3 DEF Surjection
<1> QED
  BY <1>1, <1>4, <1>6, <1>7

(* A save lists every value once.                                          *)
LEMMA Listed ==
  ASSUME NEW I, WellFormed(I)
  PROVE  /\ InOrder(I) \in Seq(I) /\ Len(InOrder(I)) = Cardinality(I)
         /\ \A i \in 1 .. Len(InOrder(I)) : Place(I, InOrder(I)[i]) = i
         /\ \A v \in I : /\ Place(I, v) \in 1 .. Len(InOrder(I))
                         /\ InOrder(I)[Place(I, v)] = v
<1> DEFINE n == Cardinality(I)
           b == InOrder(I)
<1>1. n \in Nat /\ \A i \in 1 .. n : \E v \in I : Place(I, v) = i
  BY Placed
<1>2. b = [i \in 1 .. n |-> CHOOSE v \in I : Place(I, v) = i]
  BY DEF InOrder
<1>3. \A i \in 1 .. n : b[i] \in I /\ Place(I, b[i]) = i
  BY <1>1, <1>2
<1> HIDE DEF b
<1>4. b \in Seq(I) /\ Len(b) = n
  <2>1. b \in [1 .. n -> I]
    BY <1>2, <1>3
  <2> QED
    BY <1>1, <2>1
<1>5. \A v \in I : Place(I, v) \in 1 .. n /\ b[Place(I, v)] = v
  <2>1. \A v \in I : Place(I, v) \in 1 .. n
    BY Placed
  <2>2. \A v, w \in I : Place(I, v) = Place(I, w) => v = w
    BY Placed
  <2> QED
    BY <1>3, <2>1, <2>2
<1> QED
  BY <1>3, <1>4, <1>5 DEF b

(* Of well-formed values a boot takes the next one whole.                  *)
LEMMA ReadTakes ==
  ASSUME NEW I, WellFormed(I), NEW J \in SUBSET I, NEW v \in I, v \notin J
  PROVE  Read([items |-> J, bad |-> FALSE], v) = [items |-> J \cup {v}, bad |-> FALSE]
<1>1. v \in checkValue
  BY DEF WellFormed
<1>2. ~(v.item = "idle" /\ v.key \in disabledIn(J))
  <2> SUFFICES ASSUME v.item = "idle", v.key \in disabledIn(I)
               PROVE  FALSE
    BY FewerWell
  <2>1. v \in in(I, <<"idle", v.key>>)
    BY DEF in, Slot
  <2> QED
    BY <2>1 DEF WellFormed
<1>3. \A w \in J : ~Alike(v, w)
  BY DEF WellFormed, LabelsUnique
<1>4. ~LabelLoses(J, v) /\ Beaten(J, v) = {}
  BY <1>3 DEF LabelLoses, Beaten
<1>5. in(J, Slot(v)) = {}
  BY DEF WellFormed, SlotsApart, in
<1>6. Room(J)
  <2>1. IsFiniteSet(I) /\ Cardinality(I) \in Nat
    BY Placed
  <2>2. IsFiniteSet(J) /\ Cardinality(J) \in Nat /\ Cardinality(J) =< Cardinality(I)
        /\ (Cardinality(J) = Cardinality(I) => I = J)
    BY <2>1, FS_Subset, FS_CardinalityType
  <2>3. Cardinality(J) < Cardinality(I) /\ Cardinality(I) =< MaxItems
    BY <2>1, <2>2 DEF WellFormed
  <2> QED
    BY <2>1, <2>2, <2>3, SettingsAssumption DEF Room
<1> DEFINE s == [items |-> J, bad |-> FALSE]
<1>7. Read(s, v) = Took(s, J \cup {v}, TRUE)
  BY <1>1, <1>2, <1>4, <1>5, <1>6 DEF Read
<1> QED
  BY <1>7 DEF Took

(* A pass over a save of well-formed values takes all of its kind.         *)
LEMMA PassTakes ==
  ASSUME NEW I, WellFormed(I), NEW J \in SUBSET I, NEW d,
         \A v \in J : ~((v.item = "disable") = d)
  PROVE  Pass(InOrder(I), [items |-> J, bad |-> FALSE], d)
           = [items |-> J \cup {v \in I : (v.item = "disable") = d}, bad |-> FALSE]
<1> DEFINE b == InOrder(I)
           n == Len(b)
           Kind(v) == (v.item = "disable") = d
           T(k) == J \cup {v \in I : Kind(v) /\ Place(I, v) =< k}
           s == [items |-> J, bad |-> FALSE]
<1>1. /\ n \in Nat
      /\ \A i \in 1 .. n : b[i] \in I /\ Place(I, b[i]) = i
      /\ \A v \in I : Place(I, v) \in 1 .. n /\ b[Place(I, v)] = v
  BY Listed
<1>2. PICK r : Steps(b, s, d, r) /\ Pass(b, s, d) = r[n]
  <2>1. Len(b) \in Nat
    BY <1>1
  <2> HIDE DEF b, s
  <2> QED
    BY <2>1, PassSteps
<1> HIDE DEF b
<1> DEFINE K == {k \in 0 .. n : r[k] = [items |-> T(k), bad |-> FALSE]}
<1>3. 0 \in K
  <2>1. \A v \in I : ~(Place(I, v) =< 0)
    BY <1>1
  <2>2. T(0) = J
    BY <2>1
  <2>3. r[0] = s
    BY <1>2 DEF Steps
  <2>4. 0 \in 0 .. n
    BY <1>1
  <2>5. r[0] = [items |-> T(0), bad |-> FALSE]
    BY <2>2, <2>3
  <2> HIDE DEF T
  <2> QED
    BY <2>4, <2>5
<1>4. ASSUME NEW k \in 0 .. (n - 1), k \in K
      PROVE  k + 1 \in K
  <2> DEFINE v == b[k + 1]
  <2>1. k + 1 \in 1 .. n /\ (k + 1) - 1 = k /\ k + 1 \in 0 .. n
    BY <1>1
  <2>2. v \in I /\ Place(I, v) = k + 1
    BY <1>1, <2>1
  <2>3. r[k + 1] = IF Kind(v) THEN Read(r[k], v) ELSE r[k]
    BY <1>2, <2>1 DEF Steps
  <2>4. r[k] = [items |-> T(k), bad |-> FALSE]
    BY <1>4
  <2>5. \A w \in I : Place(I, w) =< k + 1 <=> Place(I, w) =< k \/ w = v
    BY <1>1, <2>1, <2>2
  <2>6. CASE Kind(v)
    <3>1. T(k) \in SUBSET I /\ v \notin T(k)
      BY <2>2, <2>6
    <3>2. T(k + 1) = T(k) \cup {v}
      BY <2>2, <2>5, <2>6
    <3> HIDE DEF T, v
    <3>3. Read(r[k], v) = [items |-> T(k) \cup {v}, bad |-> FALSE]
      BY <2>2, <2>4, <3>1, ReadTakes
    <3>4. r[k + 1] = [items |-> T(k + 1), bad |-> FALSE]
      BY <2>3, <2>6, <3>2, <3>3
    <3> QED
      BY <2>1, <3>4
  <2>7. CASE ~Kind(v)
    <3>1. T(k + 1) = T(k)
      BY <2>2, <2>5, <2>7
    <3> HIDE DEF T, v
    <3>2. r[k + 1] = [items |-> T(k + 1), bad |-> FALSE]
      BY <2>3, <2>4, <2>7, <3>1
    <3> QED
      BY <2>1, <3>2
  <2> QED
    BY <2>6, <2>7
<1>5. n \in K
  <2> HIDE DEF K
  <2>1. \A k \in 0 .. n : k \in K
    BY <1>1, <1>3, <1>4, UpTo
  <2> QED
    BY <1>1, <2>1
<1>6. T(n) = J \cup {v \in I : Kind(v)}
  BY <1>1
<1> HIDE DEF T
<1>7. r[n] = [items |-> J \cup {v \in I : Kind(v)}, bad |-> FALSE]
  BY <1>5, <1>6
<1> QED
  BY <1>2, <1>7 DEF b

(* What is saved is read back as it was, no value of it left out.          *)
LEMMA RoundTrip ==
  ASSUME NEW I, WellFormed(I)
  PROVE  readBlob(InOrder(I)) = [items |-> I, bad |-> FALSE]
<1> DEFINE yes == TRUE
           no == FALSE
           D == {v \in I : (v.item = "disable") = yes}
           E == {v \in I : (v.item = "disable") = no}
           blob == InOrder(I)
<1>1. D \in SUBSET I /\ (\A v \in D : ~((v.item = "disable") = no)) /\ D \cup E = I
  OBVIOUS
<1>2. readBlob(blob) = Pass(blob, Pass(blob, [items |-> {}, bad |-> FALSE], yes), no)
  BY DEF readBlob
<1> HIDE DEF yes, no
<1>3. Pass(blob, [items |-> {}, bad |-> FALSE], yes) = [items |-> {} \cup D, bad |-> FALSE]
  <2>1. {} \in SUBSET I /\ \A v \in {} : ~((v.item = "disable") = yes)
    OBVIOUS
  <2> QED
    BY <2>1, PassTakes
<1>4. {} \cup D = D
  OBVIOUS
<1> HIDE DEF D
<1>5. Pass(blob, [items |-> D, bad |-> FALSE], no) = [items |-> D \cup E, bad |-> FALSE]
  BY <1>1, PassTakes
<1> HIDE DEF E, blob
<1>6. readBlob(blob) = [items |-> I, bad |-> FALSE]
  BY <1>1, <1>2, <1>3, <1>4, <1>5
<1> QED
  BY <1>6 DEF blob

-----------------------------------------------------------------------------
(* A host reading page by page.                                            *)

(* A prefix, place by place.                                               *)
LEMMA PrefixIs ==
  ASSUME NEW S, NEW got \in Seq(S), NEW all \in Seq(S)
  PROVE  IsPrefix(got, all) <=> /\ Len(got) =< Len(all)
                                /\ \A i \in 1 .. Len(got) : got[i] = all[i]
<1> DEFINE n == Len(got)
<1>1. n \in Nat /\ Len(all) \in Nat
  OBVIOUS
<1>2. SubSeq(got, 1, n) = got
  BY SubSeqFull
<1>3. SUFFICES ASSUME n =< Len(all)
               PROVE  got = SubSeq(all, 1, n) <=> \A i \in 1 .. n : got[i] = all[i]
  BY <1>2 DEF IsPrefix
<1> DEFINE q == SubSeq(all, 1, n)
<1>4. /\ q \in Seq(S) /\ Len(q) = n
      /\ \A i \in 1 .. n : q[i] = all[i]
  <2>1. \A i \in 1 .. n : all[i] \in S
    BY <1>1, <1>3
  <2>2. /\ q \in Seq(S) /\ Len(q) = IF 1 =< n THEN n - 1 + 1 ELSE 0
        /\ \A i \in 1 .. n - 1 + 1 : q[i] = all[1 + i - 1]
    BY <1>1, <2>1, SubSeqProperties
  <2> HIDE DEF q
  <2> QED
    BY <1>1, <2>2
<1> HIDE DEF q
<1>5. (\A i \in 1 .. n : got[i] = q[i]) => got = q
  BY <1>4, SeqEqual
<1> QED
  BY <1>4, <1>5 DEF q

(* The page after what a host has of the values goes on where that ends.   *)
LEMMA PageGoesOn ==
  ASSUME NEW S, NEW all \in Seq(S), NEW got \in Seq(S),
         NEW first \in 0 .. Len(all), NEW last \in first .. Len(all),
         first =< Len(got), \A i \in 1 .. first : got[i] = all[i]
  PROVE  LET more == SubSeq(got, 1, first) \o SubSeq(all, first + 1, last)
         IN  more \in Seq(S) /\ IsPrefix(more, all)
<1> DEFINE p == SubSeq(got, 1, first)
           q == SubSeq(all, first + 1, last)
           more == p \o q
<1>1. Len(all) \in Nat /\ Len(got) \in Nat /\ first \in Nat /\ last \in Nat
  OBVIOUS
<1>2. /\ p \in Seq(S) /\ Len(p) = first
      /\ \A i \in 1 .. first : p[i] = got[i]
  <2>1. \A i \in 1 .. first : got[i] \in S
    BY <1>1
  <2>2. /\ p \in Seq(S) /\ Len(p) = IF 1 =< first THEN first - 1 + 1 ELSE 0
        /\ \A i \in 1 .. first - 1 + 1 : p[i] = got[1 + i - 1]
    BY <1>1, <2>1, SubSeqProperties
  <2> HIDE DEF p
  <2> QED
    BY <1>1, <2>2
<1>3. /\ q \in Seq(S) /\ Len(q) = last - first
      /\ \A i \in 1 .. last - first : q[i] = all[first + i]
  <2>1. \A i \in first + 1 .. last : all[i] \in S
    BY <1>1
  <2>2. first + 1 \in Int
    BY <1>1
  <2> DEFINE f == first + 1
  <2>3. /\ q \in Seq(S) /\ Len(q) = IF f =< last THEN last - f + 1 ELSE 0
        /\ \A i \in 1 .. last - f + 1 : q[i] = all[f + i - 1]
    <3>1. \A i \in f .. last : all[i] \in S
      BY <2>1
    <3>2. q = SubSeq(all, f, last) /\ f \in Int
      BY <2>2
    <3> HIDE DEF q, f
    <3> QED
      BY <1>1, <3>1, <3>2, SubSeqProperties
  <2>4. \A i \in 1 .. last - first : f + i - 1 = first + i
    BY <1>1
  <2> HIDE DEF q
  <2> QED
    BY <1>1, <2>3, <2>4
<1> HIDE DEF p, q
<1>4. /\ more \in Seq(S) /\ Len(more) = last
      /\ \A i \in 1 .. last : more[i] = IF i =< first THEN p[i] ELSE q[i - first]
  <2>1. /\ more \in Seq(S) /\ Len(more) = Len(p) + Len(q)
        /\ \A i \in 1 .. Len(p) + Len(q) :
             more[i] = IF i =< Len(p) THEN p[i] ELSE q[i - Len(p)]
    BY ONLY <1>2, <1>3, ConcatProperties
  <2>2. Len(p) + Len(q) = last
    BY <1>1, <1>2, <1>3
  <2> HIDE DEF more
  <2> QED
    BY <1>2, <2>1, <2>2
<1>5. \A i \in 1 .. last : more[i] = all[i]
  <2> SUFFICES ASSUME NEW i \in 1 .. last
               PROVE  more[i] = all[i]
    OBVIOUS
  <2>1. CASE i =< first
    <3>1. i \in 1 .. first
      BY <1>1, <2>1
    <3> HIDE DEF more
    <3>2. more[i] = p[i] /\ p[i] = got[i]
      BY <1>2, <1>4, <2>1, <3>1
    <3> QED
      BY <3>1, <3>2
  <2>2. CASE i > first
    <3>1. i - first \in 1 .. last - first /\ first + (i - first) = i /\ ~(i =< first)
      BY <1>1, <2>2
    <3> HIDE DEF more
    <3> QED
      BY <1>3, <1>4, <3>1
  <2> HIDE DEF more
  <2>3. i =< first \/ i > first
    BY <1>1
  <2> QED
    BY <2>1, <2>2, <2>3
<1> HIDE DEF more
<1>6. IsPrefix(more, all)
  BY <1>1, <1>4, <1>5, PrefixIs
<1> QED
  BY <1>4, <1>6 DEF more, p, q

-----------------------------------------------------------------------------
(* The values, the save and the flash, one against the other.              *)

Formed == /\ pc = "up" => WellFormed(items)
          /\ file.form \in {"none", "torn", "whole"}
          /\ file.form = "whole" => Len(file.values) \in Nat
Asleep == pc # "up" => store = Empty /\ writing = Quiet /\ page = NoPage
Numbered == /\ generation \in Nat \ {0}
            /\ store.generation \in Nat /\ store.generation =< generation
            /\ page.generation \in Nat /\ page.generation =< generation
Written == /\ writing = [phase |-> writing.phase, blob |-> writing.blob]
           /\ writing.phase # "idle" => pc = "up" /\ writing.blob = InOrder(items)
           /\ writing.phase = "staged" => stage = Save(writing.blob)
           /\ writing.phase = "renamed" => file = Save(writing.blob)
OnFlash == store.state = "applied" =>
             /\ store.blob.form = "whole"
             /\ writing.phase # "renamed" => file = store.blob
Same == store.state = "applied" /\ store.generation = generation =>
          readBlob(store.blob.values) = [items |-> items, bad |-> FALSE]
Paged == page.got \in Seq(checkValue) /\ PagesAgree

KInv == Formed /\ Asleep /\ Numbered /\ Written /\ OnFlash /\ Same /\ Paged

(* Values with no disable on an idle as checkWhole says it.                *)
LEMMA NoIdleIs ==
  ASSUME NEW I \in SUBSET checkValue, NEW c \in Channels, idlePlainOf(I, c) = None
  PROVE  in(I, <<"idle", c>>) = {}
<1> SUFFICES ASSUME in(I, <<"idle", c>>) # {}
             PROVE  FALSE
  OBVIOUS
<1> DEFINE v == CHOOSE v \in in(I, <<"idle", c>>) : TRUE
<1>1. v \in I /\ Slot(v) = <<"idle", c>> /\ idlePlainOf(I, c) = v.mode
  BY DEF idlePlainOf, in
<1> HIDE DEF v
<1>2. v.item = "idle" /\ v \in checkValue
  BY <1>1 DEF Slot
<1>3. v \notin Labels /\ v \notin Disables
  BY <1>2 DEF Labels, Disables
<1>4. v \notin Receives
  <2>1. \A i \in DOMAIN Uarts : Uarts[i] # "idle"
    BY SettingsAssumption
  <2>2. "idle" \notin ToSet(Uarts)
    BY <2>1 DEF ToSet
  <2> QED
    BY <1>2, <2>2 DEF Receives
<1>5. v.mode \in Modes
  BY <1>2, <1>3, <1>4 DEF checkValue, Idles
<1>6. v.mode # "none"
  BY <1>5, SettingsAssumption
<1> QED
  BY <1>1, <1>6 DEF None

(* What checkWhole lets through is well formed.                            *)
LEMMA CheckedWell ==
  ASSUME NEW I \in SUBSET checkValue, NEW busy, checkWhole(I, busy),
         SlotsApart(I), Cardinality(I) =< MaxItems
  PROVE  WellFormed(I)
<1>1. \A c \in disabledIn(I) : c \in Channels /\ idlePlainOf(I, c) = None
  BY DEF checkWhole, DisablesFit, disabledIn
<1>2. \A c \in disabledIn(I) : in(I, <<"idle", c>>) = {}
  BY <1>1, NoIdleIs
<1> QED
  BY <1>2 DEF checkWhole, WellFormed

(* A boot comes up with well-formed values.                                *)
LEMMA BootedWell ==
  ASSUME Formed
  PROVE  WellFormed(Booted(file))
<1>1. CASE file.form = "whole"
  BY <1>1, BlobWell DEF Formed, Booted
<1>2. CASE file.form # "whole" /\ checkWhole(InitialItems, {})
  <2>1. WellFormed(InitialItems)
    BY <1>2, CheckedWell, SettingsAssumption
  <2> QED
    BY <1>2, <2>1 DEF Booted
<1>3. CASE file.form # "whole" /\ ~checkWhole(InitialItems, {})
  <2>1. Cardinality({}) = 0
    BY FS_EmptySet
  <2>2. WellFormed({})
    BY <2>1, SettingsAssumption DEF WellFormed, SlotsApart, LabelsUnique, disabledIn, in
  <2> QED
    BY <1>3, <2>2 DEF Booted
<1> QED
  BY <1>1, <1>2, <1>3

(* A commit: the generation goes past the save's and the page's.           *)
LEMMA CommitKeeps ==
  ASSUME KInv, Ready, NEW I, WellFormed(I), commit(I), UNCHANGED <<pc, storage, page>>
  PROVE  KInv'
<1>1. /\ pc = "up" /\ pc' = "up" /\ writing.phase = "idle"
      /\ generation' = generation + 1 /\ items' = I
      /\ store' = store /\ file' = file /\ stage' = stage /\ writing' = writing
      /\ page' = page
  BY DEF Ready, commit, adopt, storage
<1>2. Formed'
  <2>1. WellFormed(items)' = WellFormed(items')
    BY DEF WellFormed, SlotsApart, LabelsUnique, disabledIn, in, Slot
  <2> QED
    BY <1>1, <2>1 DEF KInv, Formed
<1>3. Asleep'
  BY <1>1 DEF Asleep
<1>4. Numbered'
  BY <1>1 DEF KInv, Numbered
<1>5. Written' /\ OnFlash'
  BY <1>1 DEF KInv, Written, OnFlash
<1>6. Same'
  BY <1>1 DEF KInv, Numbered, Same
<1>7. Paged'
  BY <1>1 DEF KInv, Numbered, Paged, PagesAgree
<1> QED
  BY <1>2, <1>3, <1>4, <1>5, <1>6, <1>7 DEF KInv

(* A step that leaves the values, the save, the flash and the page alone.  *)
LEMMA Elsewhere ==
  ASSUME KInv, UNCHANGED <<pc, items, generation, store, file, stage, writing, page>>
  PROVE  KInv'
<1>1. Formed' = Formed
  BY DEF Formed, WellFormed, SlotsApart, LabelsUnique, disabledIn, in, Slot
<1>2. Written' = Written
  BY DEF Written, InOrder, Place, Before, Rank
<1>3. Paged' = Paged
  BY DEF Paged, PagesAgree, InOrder, Place, Before, Rank
<1> QED
  BY <1>1, <1>2, <1>3 DEF KInv, Asleep, Numbered, OnFlash, Same

(* Set and unset leave values that are well formed.                        *)
LEMMA SetWell ==
  ASSUME WellFormed(items), NEW V \in Requests(checkValue), SlotsApart(V),
         Cardinality(InsertAll(items, V)) =< MaxItems, commit(InsertAll(items, V))
  PROVE  WellFormed(InsertAll(items, V))
<1> DEFINE I == InsertAll(items, V)
<1>1. V \subseteq checkValue
  BY DEF Requests, kSubset
<1>2. I \subseteq checkValue
  BY <1>1 DEF InsertAll, WellFormed
<1>3. SlotsApart(I)
  BY DEF InsertAll, WellFormed, SlotsApart
<1>4. checkWhole(I, Busy)
  BY DEF commit
<1> HIDE DEF I
<1>5. WellFormed(I)
  <2>1. Cardinality(I) =< MaxItems
    BY DEF I
  <2> QED
    BY <1>2, <1>3, <1>4, <2>1, CheckedWell
<1> QED
  BY <1>5 DEF I

(* Before the boot the flash has what it has, and nothing answers for it.  *)
LEMMA KeptInit == Init => KInv
<1> SUFFICES ASSUME Init
             PROVE  KInv
  OBVIOUS
<1>1. Formed
  <2>1. CASE file \in {NoFile, TornFile}
    BY <2>1 DEF Init, Formed, NoFile, TornFile
  <2>2. ASSUME NEW s \in OldSaves, file = Save(s)
        PROVE  Formed
    <3>1. file.form = "whole" /\ file.values = s /\ Len(s) \in Nat
      BY <2>2, SettingsAssumption DEF Save
    <3> QED
      BY <3>1 DEF Init, Formed
  <2> QED
    BY <2>1, <2>2 DEF Init
<1>2. Asleep /\ Numbered
  BY DEF Init, Asleep, Numbered, Empty, NoPage
<1>3. Written /\ OnFlash /\ Same
  BY DEF Init, Written, OnFlash, Same, Empty, Quiet
<1>4. Paged
  BY DEF Init, Paged, PagesAgree, NoPage
<1> QED
  BY <1>1, <1>2, <1>3, <1>4 DEF KInv

(* A power loss: the flash alone stays.                                    *)
LEMMA PowerKeeps ==
  ASSUME KInv, PowerLoss
  PROVE  KInv'
<1>1. /\ pc' = "off" /\ generation' = 1 /\ store' = Empty /\ writing' = Quiet
      /\ page' = NoPage /\ file' = file
  BY DEF PowerLoss
<1>2. Formed'
  BY <1>1 DEF KInv, Formed
<1>3. Asleep' /\ Numbered'
  BY <1>1 DEF Asleep, Numbered, Empty, NoPage
<1>4. Written' /\ OnFlash' /\ Same'
  BY <1>1 DEF Written, OnFlash, Same, Empty, Quiet
<1>5. Paged'
  BY <1>1 DEF Paged, PagesAgree, NoPage
<1> QED
  BY <1>2, <1>3, <1>4, <1>5 DEF KInv

(* load takes the disabled channels away and no value yet.                 *)
LEMMA LoadKeeps ==
  ASSUME KInv, load
  PROVE  KInv'
<1>1. /\ pc = "off" /\ pc' = "loaded"
      /\ UNCHANGED <<items, generation, store, file, writing, page>>
  BY DEF load
<1>2. store = Empty /\ writing = Quiet /\ page = NoPage
  BY <1>1 DEF KInv, Asleep
<1>3. Formed' /\ Asleep' /\ Numbered'
  BY <1>1, <1>2 DEF KInv, Formed, Asleep, Numbered
<1>4. Written' /\ OnFlash' /\ Same'
  BY <1>1, <1>2 DEF Written, OnFlash, Same, Empty, Quiet
<1>5. Paged'
  BY <1>1, <1>2 DEF KInv, Numbered, Paged, PagesAgree, NoPage
<1> QED
  BY <1>3, <1>4, <1>5 DEF KInv

(* applySaved: the values read, and what the save answers for.             *)
LEMMA BootKeeps ==
  ASSUME KInv, applySaved
  PROVE  KInv'
<1> DEFINE I == Booted(file)
<1>1. /\ pc = "loaded" /\ pc' = "up" /\ items' = I /\ store' = Stored(file)
      /\ UNCHANGED <<generation, file, stage, writing, page>>
  BY DEF applySaved, adopt
<1>2. writing = Quiet /\ page = NoPage
  BY <1>1 DEF KInv, Asleep
<1>3. WellFormed(I)
  BY BootedWell DEF KInv
<1> HIDE DEF I
<1>4. Formed'
  <2>1. WellFormed(items)' = WellFormed(items')
    BY DEF WellFormed, SlotsApart, LabelsUnique, disabledIn, in, Slot
  <2> QED
    BY <1>1, <1>3, <2>1 DEF KInv, Formed
<1>5. Asleep'
  BY <1>1 DEF Asleep
<1>6. Stored(file).generation \in {0, 1}
  BY DEF KInv, Formed, Stored, Empty
<1>7. Stored(file).state = "applied" =>
        /\ file.form = "whole" /\ Stored(file).blob = file
        /\ readBlob(file.values) = [items |-> I, bad |-> FALSE]
  <2> SUFFICES ASSUME Stored(file).state = "applied"
               PROVE  /\ file.form = "whole" /\ Stored(file).blob = file
                      /\ readBlob(file.values) = [items |-> I, bad |-> FALSE]
    OBVIOUS
  <2>1. file.form = "whole"
    BY DEF KInv, Formed, Stored, Empty
  <2> DEFINE b == readBlob(file.values)
  <2>2. b.bad \in BOOLEAN /\ b = [items |-> b.items, bad |-> b.bad]
    BY <2>1, BlobWell DEF KInv, Formed
  <2>3. I = b.items
    BY <2>1 DEF Booted, I
  <2>4. Stored(file) = [state |-> IF b.bad THEN "partial" ELSE "applied",
                        generation |-> IF b.bad THEN 0 ELSE 1, blob |-> file]
    BY <2>1 DEF Stored
  <2> HIDE DEF b
  <2>5. b.bad = FALSE
    BY <2>2, <2>4
  <2>6. b = [items |-> I, bad |-> FALSE]
    BY <2>2, <2>3, <2>5
  <2> QED
    BY <2>1, <2>4, <2>6 DEF b
<1>8. Numbered'
  BY <1>1, <1>6 DEF KInv, Numbered
<1>9. Written'
  BY <1>1, <1>2 DEF Written, Quiet
<1>10. OnFlash' /\ Same'
  BY <1>1, <1>7 DEF OnFlash, Same
<1>11. Paged'
  BY <1>1, <1>2 DEF KInv, Numbered, Paged, PagesAgree, NoPage
<1> QED
  BY <1>4, <1>5, <1>8, <1>9, <1>10, <1>11 DEF KInv

(* get: the next page goes on where the host is, or starts over.           *)
LEMMA GetKeeps ==
  ASSUME KInv, get
  PROVE  KInv'
<1> DEFINE all == InOrder(items)
           first == IF page.generation = generation THEN Len(page.got) ELSE 0
           last == Min({Len(all), first + PageSize})
           more == SubSeq(page.got, 1, first) \o SubSeq(all, first + 1, last)
<1>1. /\ pc = "up" /\ writing.phase = "idle"
      /\ page' = [generation |-> generation, got |-> more]
      /\ UNCHANGED <<pc, items, generation, store, file, stage, writing>>
  BY DEF get, Ready, storage
<1>2. WellFormed(items)
  BY <1>1 DEF KInv, Formed
<1>3. all \in Seq(checkValue)
  <2>1. all \in Seq(items) /\ items \subseteq checkValue
    BY <1>2, Listed DEF WellFormed
  <2> HIDE DEF all
  <2> QED
    BY <2>1
<1>4. page.got \in Seq(checkValue)
  BY DEF KInv, Paged
<1>5. all' = all
  BY <1>1 DEF InOrder, Place, Before, Rank
<1> HIDE DEF all
<1>6. /\ first \in 0 .. Len(all) /\ first =< Len(page.got)
      /\ \A i \in 1 .. first : page.got[i] = all[i]
  <2>1. CASE page.generation = generation
    <3>1. IsPrefix(page.got, all)
      BY <2>1 DEF KInv, Paged, PagesAgree, all
    <3>2. Len(page.got) =< Len(all) /\ \A i \in 1 .. Len(page.got) : page.got[i] = all[i]
      BY <3>1, <1>3, <1>4, PrefixIs
    <3> QED
      BY <2>1, <3>2, <1>3, <1>4
  <2>2. CASE page.generation # generation
    BY <2>2, <1>3, <1>4
  <2> QED
    BY <2>1, <2>2
<1>7. last \in first .. Len(all)
  <2> HIDE DEF first
  <2>1. Len(all) \in Nat /\ first \in Nat /\ first + PageSize \in Nat /\ first =< first + PageSize
    BY <1>3, <1>6, SettingsAssumption
  <2>2. last = Len(all) \/ (last = first + PageSize /\ first + PageSize =< Len(all))
    <3> DEFINE a == Len(all)
               b == first + PageSize
    <3>1. a \in Nat /\ b \in Nat
      BY <2>1
    <3> HIDE DEF a, b
    <3>2. \E x \in {a, b} : \A y \in {a, b} : x =< y
      BY <3>1
    <3>3. Min({a, b}) \in {a, b} /\ Min({a, b}) =< a
      BY <3>1, <3>2 DEF Min
    <3> QED
      BY <3>3 DEF a, b
  <2> QED
    BY <1>6, <2>1, <2>2
<1> HIDE DEF first, last
<1>8. more \in Seq(checkValue) /\ IsPrefix(more, all)
  BY <1>3, <1>4, <1>6, <1>7, PageGoesOn
<1> HIDE DEF more
<1>9. Formed' /\ Asleep' /\ OnFlash' /\ Same'
  <2>1. WellFormed(items)' = WellFormed(items)
    BY <1>1 DEF WellFormed, SlotsApart, LabelsUnique, disabledIn, in, Slot
  <2> QED
    BY <1>1, <2>1 DEF KInv, Formed, Asleep, OnFlash, Same
<1>10. Numbered' /\ Written'
  BY <1>1 DEF KInv, Numbered, Written
<1>11. Paged'
  BY <1>1, <1>5, <1>8 DEF Paged, PagesAgree, all
<1> QED
  BY <1>9, <1>10, <1>11 DEF KInv

(* save: a save as it stands answers for the generation of now; another    *)
(* begins with an empty stage.                                             *)
LEMMA SaveKeeps ==
  ASSUME KInv, save
  PROVE  KInv'
<1> DEFINE blob == InOrder(items)
<1>1. /\ pc = "up" /\ pc' = "up" /\ writing.phase = "idle"
      /\ UNCHANGED <<items, generation, file, page>>
  BY DEF save, Ready
<1>2. blob' = blob
  BY <1>1 DEF InOrder, Place, Before, Rank
<1>3. WellFormed(items) /\ readBlob(blob) = [items |-> items, bad |-> FALSE]
  BY <1>1, RoundTrip DEF KInv, Formed
<1>4. Formed' /\ Asleep'
  <2>1. WellFormed(items)' = WellFormed(items)
    BY <1>1 DEF WellFormed, SlotsApart, LabelsUnique, disabledIn, in, Slot
  <2> QED
    BY <1>1, <2>1 DEF KInv, Formed, Asleep
<1>5. Paged'
  BY <1>1, <1>2 DEF KInv, Paged, PagesAgree
<1> HIDE DEF blob
<1>6. CASE store.state = "applied" /\ store.blob = Save(blob)
  <2>1. store' = Kept(blob) /\ writing' = writing /\ stage' = stage
    BY <1>6 DEF save, blob
  <2>2. store' = [state |-> "applied", generation |-> generation, blob |-> Save(blob)]
    BY <2>1 DEF Kept
  <2>3. file = Save(blob)
    BY <1>1, <1>6 DEF KInv, OnFlash
  <2>4. Save(blob).form = "whole" /\ Save(blob).values = blob
    BY DEF Save
  <2>5. Numbered'
    BY <1>1, <2>2 DEF KInv, Numbered
  <2>6. Written'
    BY <1>1, <2>1 DEF KInv, Written
  <2>7. store'.state = "applied" /\ store'.generation = generation /\ store'.blob = file
        /\ store'.blob.form = "whole" /\ store'.blob.values = blob
    BY <2>2, <2>3, <2>4
  <2>8. OnFlash'
    BY <1>1, <2>7 DEF OnFlash
  <2>9. Same'
    BY <1>1, <1>3, <2>7 DEF Same
  <2> QED
    BY <1>4, <1>5, <2>5, <2>6, <2>8, <2>9 DEF KInv
<1>7. CASE ~(store.state = "applied" /\ store.blob = Save(blob))
  <2>1. writing' = [phase |-> "open", blob |-> blob] /\ store' = store
    BY <1>7 DEF save, blob
  <2>2. Numbered' /\ OnFlash' /\ Same'
    BY <1>1, <2>1 DEF KInv, Numbered, OnFlash, Same
  <2>3. Written'
    BY <1>1, <1>2, <2>1 DEF Written, blob
  <2> QED
    BY <1>4, <1>5, <2>2, <2>3 DEF KInv
<1> QED
  BY <1>6, <1>7

(* A step of the write, the stage and the file in turn.                    *)
LEMMA WriteKeeps ==
  ASSUME KInv, WriteStage \/ RenameStage \/ SaveFails \/ SaveDone
  PROVE  KInv'
<1> DEFINE blob == InOrder(items)
<1>1. UNCHANGED <<pc, items, generation, page>>
  BY DEF WriteStage, RenameStage, SaveFails, SaveDone
<1>2. pc = "up" /\ writing.blob = blob /\ writing.phase # "idle"
  BY DEF WriteStage, RenameStage, SaveFails, SaveDone, KInv, Written
<1>3. blob' = blob
  BY <1>1 DEF InOrder, Place, Before, Rank
<1>4. /\ WellFormed(items) /\ readBlob(blob) = [items |-> items, bad |-> FALSE]
      /\ Len(blob) \in Nat
  BY <1>2, RoundTrip, Listed, Placed DEF KInv, Formed
<1>5. WellFormed(items)' = WellFormed(items)
  BY <1>1 DEF WellFormed, SlotsApart, LabelsUnique, disabledIn, in, Slot
<1>6. Asleep' /\ Paged'
  BY <1>1, <1>2, <1>3 DEF KInv, Asleep, Paged, PagesAgree
<1> HIDE DEF blob
<1>7. Save(blob).form = "whole" /\ Save(blob).values = blob
  BY DEF Save
<1>8. CASE WriteStage
  <2>1. /\ stage' = Save(blob) /\ UNCHANGED <<store, file>> /\ writing.phase = "open"
        /\ writing' = [phase |-> "staged", blob |-> blob]
    BY <1>2, <1>8 DEF WriteStage, KInv, Written
  <2>2. Formed' /\ Numbered' /\ Same'
    BY <1>1, <1>5, <2>1 DEF KInv, Formed, Numbered, Same
  <2>3. Written' /\ OnFlash'
    BY <1>1, <1>2, <1>3, <2>1 DEF KInv, Written, OnFlash, blob
  <2> QED
    BY <1>6, <2>2, <2>3 DEF KInv
<1>9. CASE RenameStage
  <2>1. /\ file' = Save(blob) /\ store' = store
        /\ writing' = [phase |-> "renamed", blob |-> blob]
    BY <1>2, <1>9 DEF RenameStage, KInv, Written
  <2>2. Formed' /\ Numbered' /\ Same'
    BY <1>1, <1>4, <1>5, <1>7, <2>1 DEF KInv, Formed, Numbered, Same
  <2>3. Written' /\ OnFlash'
    BY <1>1, <1>2, <1>3, <2>1 DEF KInv, Written, OnFlash, blob
  <2> QED
    BY <1>6, <2>2, <2>3 DEF KInv
<1>10. CASE SaveFails
  <2>1. writing' = Quiet /\ UNCHANGED <<store, file>> /\ writing.phase # "renamed"
    BY <1>10 DEF SaveFails
  <2>2. Formed' /\ Numbered' /\ Same'
    BY <1>1, <1>5, <2>1 DEF KInv, Formed, Numbered, Same
  <2>3. Written' /\ OnFlash'
    BY <2>1 DEF KInv, Written, OnFlash, Quiet
  <2> QED
    BY <1>6, <2>2, <2>3 DEF KInv
<1>11. CASE SaveDone
  <2>1. writing' = Quiet /\ UNCHANGED file /\ file = Save(blob)
        /\ store' = [state |-> "applied", generation |-> generation, blob |-> Save(blob)]
    BY <1>2, <1>11 DEF SaveDone, Kept, KInv, Written
  <2>2. Formed' /\ Numbered'
    BY <1>1, <1>5, <2>1 DEF KInv, Formed, Numbered
  <2>3. Written' /\ OnFlash' /\ Same'
    BY <1>1, <1>4, <1>7, <2>1 DEF Written, OnFlash, Same, Quiet
  <2> QED
    BY <1>6, <2>2, <2>3 DEF KInv
<1> QED
  BY <1>8, <1>9, <1>10, <1>11

(* Every step keeps it.                                                    *)
LEMMA KeptStep == KInv /\ [Next]_vars => KInv'
<1> SUFFICES ASSUME KInv, [Next]_vars
             PROVE  KInv'
  OBVIOUS
<1>1. CASE set
  <2>1. Ready /\ UNCHANGED <<pc, storage, page>>
    BY <1>1 DEF set
  <2>2. PICK V \in Requests(checkValue) :
          /\ SlotsApart(V) /\ Cardinality(InsertAll(items, V)) =< MaxItems
          /\ commit(InsertAll(items, V))
    BY <1>1 DEF set, Sets
  <2>3. WellFormed(items)
    BY <2>1 DEF KInv, Formed, Ready
  <2>4. WellFormed(InsertAll(items, V))
    BY <2>2, <2>3, SetWell
  <2> QED
    BY <2>1, <2>2, <2>4, CommitKeeps
<1>2. CASE unset
  <2>1. Ready /\ UNCHANGED <<pc, storage, page>>
    BY <1>2 DEF unset
  <2>2. PICK S \in Requests({Slot(v) : v \in items}) : commit(RemoveAll(items, S))
    BY <1>2 DEF unset
  <2>3. WellFormed(items) /\ RemoveAll(items, S) \in SUBSET items
    BY <2>1 DEF KInv, Formed, Ready, RemoveAll
  <2>4. WellFormed(RemoveAll(items, S))
    BY <2>3, FewerWell
  <2> QED
    BY <2>1, <2>2, <2>4, CommitKeeps
<1>3. ASSUME NEW c \in Channels, claim(c) \/ release(c)
      PROVE  KInv'
  BY <1>3, Elsewhere DEF claim, release, storage
<1>4. CASE UNCHANGED vars
  BY <1>4, Elsewhere DEF vars, storage
<1> QED
  BY <1>1, <1>2, <1>3, <1>4, PowerKeeps, LoadKeeps, BootKeeps, GetKeeps, SaveKeeps, WriteKeeps
     DEF Next

(* The invariant of every behaviour.                                       *)
LEMMA AlwaysKept == Spec => []KInv
BY KeptInit, KeptStep, PTL DEF Spec

(* Within a boot the pages of one generation are pages of one set of       *)
(* values (get, commit), and whatever save a boot reads no two channels'   *)
(* labels say the same but for case (readBlob, checkWhole).                *)
THEOREM PagesReadWell == Spec => []ValuesReadWell
<1>1. KInv => ValuesReadWell
  BY DEF KInv, Formed, Paged, WellFormed, ValuesReadWell, LabelsStayUnique
<1> QED
  BY <1>1, AlwaysKept, PTL

(* "Applied, at this generation" is what the next boot finds: the file     *)
(* read back value by value gives exactly the values of now, none left out *)
(* (save, storeWrite, readBlob, state).                                    *)
THEOREM AppliedIsKept == Spec => []AppliedMeansKept
<1>1. KInv => AppliedMeansKept
  BY DEF KInv, OnFlash, Same, AppliedMeansKept
<1> QED
  BY <1>1, AlwaysKept, PTL

-----------------------------------------------------------------------------
(* What a boot would find now: the values of the last save answered, or of *)
(* one a power loss cut short. Between the rename and the answer the file  *)
(* is the save of the values of now (KInv).                                *)
Recovers == /\ boots = [kept |-> boots.kept, cut |-> boots.cut]
            /\ writing.phase # "renamed" => Booted(file) \in {boots.kept} \cup boots.cut

(* The file of a save of well-formed values boots with just those.         *)
LEMMA SaveBoots ==
  ASSUME NEW I, WellFormed(I)
  PROVE  Booted(Save(InOrder(I))) = I
<1> DEFINE b == InOrder(I)
<1>1. readBlob(b) = [items |-> I, bad |-> FALSE]
  BY RoundTrip
<1> HIDE DEF b
<1> QED
  BY <1>1 DEF Booted, Save, b

(* The renamed file answers for the values of now, whether the answer or a *)
(* power loss comes next.                                                  *)
LEMMA RecoversStep ==
  ASSUME KInv, Recovers, [Next]_vars
  PROVE  Recovers' /\ (applySaved => items' \in {boots.kept} \cup boots.cut)
<1>1. boots = [kept |-> boots.kept, cut |-> boots.cut]
  BY DEF Recovers
<1>2. CASE PowerLoss
  <2>1. file' = file /\ writing' = Quiet /\ pc' = "off"
        /\ boots' = IF writing = Quiet THEN boots
                    ELSE [kept |-> boots.kept, cut |-> boots.cut \cup {items}]
    <3>1. file' = file /\ writing' = Quiet /\ pc' = "off"
      BY <1>2 DEF PowerLoss
    <3>2. boots' = IF writing = Quiet THEN boots ELSE [boots EXCEPT !.cut = @ \cup {items}]
      BY <1>2 DEF PowerLoss
    <3>3. [boots EXCEPT !.cut = @ \cup {items}] = [kept |-> boots.kept, cut |-> boots.cut \cup {items}]
      BY ONLY <1>1
    <3> QED
      BY ONLY <3>1, <3>2, <3>3
  <2>2. Booted(file) \in {boots'.kept} \cup boots'.cut
    <3>1. CASE writing.phase = "renamed"
      <4>1. file = Save(InOrder(items)) /\ WellFormed(items) /\ writing # Quiet
        BY <3>1 DEF KInv, Written, Formed, Quiet
      <4>2. Booted(file) = items
        BY <4>1, SaveBoots
      <4> QED
        BY <2>1, <4>1, <4>2
    <3>2. CASE writing.phase # "renamed"
      BY <2>1, <3>2 DEF Recovers
    <3> QED
      BY <3>1, <3>2
  <2> QED
    BY <2>1, <2>2, <1>2 DEF Recovers, applySaved, PowerLoss
<1>3. CASE applySaved
  <2>1. /\ writing' = writing /\ file' = file /\ items' = Booted(file) /\ pc = "loaded"
        /\ boots' = [kept |-> Booted(file), cut |-> {}]
    BY <1>3 DEF applySaved, adopt
  <2>2. writing.phase # "renamed"
    BY <2>1 DEF KInv, Asleep, Quiet
  <2> QED
    BY <2>1, <2>2 DEF Recovers
<1>4. CASE save
  <2>1. CASE store.state = "applied" /\ store.blob = Save(InOrder(items))
    <3>1. /\ writing' = writing /\ file' = file /\ boots' = [boots EXCEPT !.kept = items]
          /\ boots' = [kept |-> items, cut |-> boots.cut]
          /\ pc = "up" /\ writing.phase = "idle"
      BY <1>1, <1>4, <2>1 DEF save, Saved, Ready
    <3>2. file = Save(InOrder(items)) /\ WellFormed(items)
      BY <2>1, <3>1 DEF KInv, OnFlash, Formed
    <3>3. Booted(file) = items
      BY <3>2, SaveBoots
    <3> QED
      BY <1>4, <3>1, <3>3 DEF Recovers, applySaved
  <2>2. CASE ~(store.state = "applied" /\ store.blob = Save(InOrder(items)))
    BY <1>4, <2>2 DEF save, Ready, Recovers, applySaved
  <2> QED
    BY <2>1, <2>2
<1>5. CASE SaveDone
  <2>1. /\ writing' = Quiet /\ file' = file
        /\ boots' = [kept |-> items, cut |-> boots.cut]
        /\ writing.phase = "renamed"
    BY <1>1, <1>5 DEF SaveDone, Saved
  <2>2. file = Save(InOrder(items)) /\ WellFormed(items) /\ pc = "up"
    BY <2>1 DEF KInv, Written, Formed
  <2>3. Booted(file) = items
    BY <2>2, SaveBoots
  <2> QED
    BY <2>1, <2>2, <2>3 DEF Recovers, applySaved
<1>6. CASE RenameStage
  BY <1>6 DEF RenameStage, Recovers, applySaved, KInv, Asleep, Quiet
<1>7. CASE SaveFails
  <2>1. writing.phase # "renamed" /\ UNCHANGED <<file, boots, items>>
    BY <1>7 DEF SaveFails
  <2> QED
    BY <1>7, <2>1 DEF SaveFails, Recovers, applySaved, KInv, Asleep, Quiet
<1>8. CASE load \/ set \/ unset \/ get \/ WriteStage \/ UNCHANGED vars
           \/ \E c \in Channels : claim(c) \/ release(c)
  <2>1. UNCHANGED <<file, boots>>
    BY <1>8 DEF load, set, unset, get, WriteStage, vars, claim, release, storage
  <2>2. writing'.phase # "renamed" => writing.phase # "renamed"
    BY <1>8 DEF load, set, unset, get, WriteStage, vars, claim, release, storage
  <2>3. Recovers'
    BY <2>1, <2>2 DEF Recovers
  <2>4. ~applySaved \/ items' \in {boots.kept} \cup boots.cut
    BY <1>3
  <2> QED
    BY <2>3, <2>4
<1> QED
  BY <1>2, <1>3, <1>4, <1>5, <1>6, <1>7, <1>8 DEF Next

(* A boot comes up with the values of the last save that was answered, or  *)
(* of one a power loss cut short, never with anything else (storeWrite's   *)
(* stage and rename, applySaved).                                          *)
THEOREM BootRecovers == Spec => BootGivesASave
<1>1. Init => Recovers
  BY DEF Init, Recovers
<1>2. KInv /\ Recovers /\ [Next]_vars =>
        Recovers' /\ [applySaved => items' \in {boots.kept} \cup boots.cut]_vars
  BY RecoversStep
<1> QED
  BY <1>1, <1>2, AlwaysKept, PTL DEF Spec, BootGivesASave
=============================================================================
