------------------------------ MODULE Settings ------------------------------
(***************************************************************************)
(* The values the probe keeps past a restart (Settings): set and unset in  *)
(* RAM under a generation, saved to flash as one file, read back at boot   *)
(* value by value, and made current on the pin table (adopt).              *)
(*                                                                         *)
(* A value is a record of its item, its key and its data; the room a value *)
(* takes is one unit. The core's items are a channel's label, idle and     *)
(* disable; each of Uarts has an item naming the receive channel of its    *)
(* pass-through, by port. A save is the sequence of the values it holds    *)
(* (names for numbers on both ways; a file with a wrong CRC is Torn). A    *)
(* plan takes and returns channels beside all this.                        *)
(***************************************************************************)
EXTENDS Integers, Sequences, FiniteSets, SequencesExt, FiniteSetsExt

CONSTANTS
  Channels,          \* numbers: labels are settled by the lower channel
  InputOnly,         \* channels that cannot drive (PinTable::input_only_)
  Words,             \* what labels say, their case apart
  Modes,             \* the idle modes in play, of "hi-z", "pull-up", "low"
  Uarts,             \* a sequence of item names, one per UART
  Ports,             \* numbers
  InitialItems,      \* the sketch's initialValue calls
  OldSaves,          \* what another firmware may have left on the flash
  MaxItems,          \* sizes_.items
  MaxBlob,           \* sizes_.blob
  LastGeneration,    \* 0xFFFFFFFF
  MaxAsk,            \* bound: values in one request
  PageSize           \* the values of one get's answer

None == "none"
NoFile == [form |-> "none", values |-> <<>>]
TornFile == [form |-> "torn", values |-> <<>>]
Save(blob) == [form |-> "whole", values |-> blob]
Entries == <<"label", "idle", "disable">> \o Uarts

Labels == [item: {"label"}, key: Channels, word: Words, caps: BOOLEAN]
Idles == {v \in [item: {"idle"}, key: Channels, mode: Modes] :
            v.mode = "low" => v.key \notin InputOnly}
Disables == [item: {"disable"}, key: Channels, on: BOOLEAN]
Receives == [item: ToSet(Uarts), key: Ports, channel: Channels]

(* What checkValue takes of one value by itself.                           *)
checkValue == Labels \cup Idles \cup Disables \cup Receives

Slot(v) == <<v.item, v.key>>
SlotsApart(I) == \A v, w \in I : Slot(v) = Slot(w) => v = w

ASSUME SettingsAssumption ==
  /\ Channels \subseteq Nat /\ Ports \subseteq Nat /\ InputOnly \subseteq Channels
  /\ Modes \subseteq {"hi-z", "pull-up", "low"}
  /\ Uarts \in Seq(STRING \ {"label", "idle", "disable"})
  /\ IsFiniteSet(checkValue) /\ \A s \in OldSaves : Len(s) \in Nat
  /\ InitialItems \subseteq checkValue   \* put in by insert, one by one
  /\ SlotsApart(InitialItems) /\ Cardinality(InitialItems) =< MaxItems
  /\ {MaxItems, MaxBlob, LastGeneration, MaxAsk, PageSize} \subseteq Nat \ {0}

VARIABLES
  pc,           \* "off", "loaded" (after load), "up" (after applySaved)
  items,        \* items_: a set of values, one for a slot
  generation,   \* generation_
  store,        \* storage_state_, saved_generation_ and the save's size and CRC
  file,         \* "/s": no file, one that cannot be read, or a save
  stage,        \* "/s.w"
  writing,      \* a save on its way: its phase and its values
  disabled,     \* PinTable::disabled_
  idle,         \* PinTable::idle_
  owner,        \* PinTable::owner_: "free" or "plan"
  pad,          \* a pad: as reset, in an idle mode, or its owner's
  page,         \* a host reading the values page by page
  boots,        \* ghost: the values last saved, and those of saves cut short
  away          \* ghost: channels disabled without a break since the boot

storage == <<store, file, stage, writing, boots>>
padVars == <<disabled, idle, owner, pad, away>>
vars == <<pc, items, generation, storage, padVars, page>>

-----------------------------------------------------------------------------
(* The items *)

in(I, slot) == {v \in I : Slot(v) = slot}
disabledIn(I) == {c \in Channels : \E v \in in(I, <<"disable", c>>) : v.on}
idlePlainOf(I, c) == IF in(I, <<"idle", c>>) = {} THEN None
                     ELSE (CHOOSE v \in in(I, <<"idle", c>>) : TRUE).mode
Alike(v, w) == v.item = "label" /\ w.item = "label" /\ v.word = w.word

Rank(v) == CHOOSE i \in DOMAIN Entries : Entries[i] = v.item
(* The order of the store, of get and of a save: by entry, then by key.    *)
Before(v, w) == Rank(v) < Rank(w) \/ (Rank(v) = Rank(w) /\ v.key < w.key)
Place(I, v) == Cardinality({w \in I : Before(w, v)}) + 1
InOrder(I) == [i \in 1 .. Cardinality(I) |-> CHOOSE v \in I : Place(I, v) = i]

InsertAll(I, V) == {v \in I : \A w \in V : Slot(v) # Slot(w)} \cup V
RemoveAll(I, S) == {v \in I : Slot(v) \notin S}

(* checkWhole: two labels equal but for case, a disable on a channel in    *)
(* use, a disable and an idle on one channel, a pass-through on a channel  *)
(* that is disabled or driven when free, two pass-throughs on one port.    *)
heldBy(I, c) == c \in disabledIn(I) \/ idlePlainOf(I, c) = "low"
LabelsUnique(I) == \A v, w \in I : Alike(v, w) => v = w
DisablesFit(I, busy) == \A c \in disabledIn(I) : c \notin busy /\ idlePlainOf(I, c) = None
ReceivesFit(I) ==
  LET users == {v \in I : v.item \in ToSet(Uarts)}
  IN  /\ \A v \in users : ~heldBy(I, v.channel)
      /\ \A v, w \in users : v.key = w.key => v = w
checkWhole(I, busy) == LabelsUnique(I) /\ DisablesFit(I, busy) /\ ReceivesFit(I)

-----------------------------------------------------------------------------
(* Made current: adopt, on the pin table. A channel enabled again goes to  *)
(* the idle state it has; then each changed idle is kept, and applied to a *)
(* channel that is free.                                                   *)

applyIdle(m) == IF m = None THEN "hi-z" ELSE m

setDisabled(off) ==
  [c \in Channels |-> IF c \in disabled \ off /\ owner[c] = "free"
                        THEN applyIdle(idle[c]) ELSE pad[c]]
setIdle(rest, off, I) ==
  [c \in Channels |-> IF idle[c] # idlePlainOf(I, c) /\ owner[c] = "free" /\ c \notin off
                        THEN applyIdle(idlePlainOf(I, c)) ELSE rest[c]]

\* Mutant: the idles first, against the disables that were.
AdoptIdlesFirst(I) ==
  /\ items' = I
  /\ disabled' = disabledIn(I)
  /\ idle' = [c \in Channels |-> idlePlainOf(I, c)]
  /\ pad' = setIdle(pad, disabled, I)
  /\ away' = away \cap disabledIn(I)
adopt(I) ==
  /\ items' = I
  /\ disabled' = disabledIn(I)
  /\ idle' = [c \in Channels |-> idlePlainOf(I, c)]
  /\ pad' = setIdle(setDisabled(disabledIn(I)), disabledIn(I), I)
  /\ away' = away \cap disabledIn(I)

-----------------------------------------------------------------------------
(* Reading a save back, value by value. An idle of a channel disabled in   *)
(* the save is left out; of two labels alike the lower channel's stays; a  *)
(* key already there keeps the value it has.                               *)

Took(s, I, ok) == [items |-> I, bad |-> s.bad \/ ~ok]

LabelLoses(I, v) == \E w \in I : Alike(v, w) /\ w.key < v.key
Beaten(I, v) == {w \in I : Alike(v, w) /\ v.key < w.key}
Room(I) == Cardinality(I) < MaxItems

Read(s, v) ==
  LET fits == /\ v \in checkValue
              /\ ~(v.item = "idle" /\ v.key \in disabledIn(s.items))
              /\ ~LabelLoses(s.items, v)
      left == IF fits THEN s.items \ Beaten(s.items, v) ELSE s.items
      ok == fits /\ in(left, Slot(v)) = {} /\ Room(left)
  IN  Took(s, IF ok THEN left \cup {v} ELSE left, ok /\ left = s.items)

(* Two passes over the save: the disables, then the rest.                  *)
Pass(blob, s, disables) ==
  LET taken[i \in 0 .. Len(blob)] ==
        IF i = 0 THEN s
        ELSE IF (blob[i].item = "disable") = disables
               THEN Read(taken[i - 1], blob[i]) ELSE taken[i - 1]
  IN  taken[Len(blob)]
readBlob(blob) == Pass(blob, Pass(blob, [items |-> {}, bad |-> FALSE], TRUE), FALSE)

(* load's reading: the disables only, whichever copy says so.              *)
savedDisabled(f) == {v.key : v \in {w \in ToSet(f.values) \cap Disables : w.on}}

(* The values a boot finds in a file; without a whole one, the initial     *)
(* values when they fit together.                                          *)
Booted(f) ==
  IF f.form = "whole" THEN readBlob(f.values).items
  ELSE IF checkWhole(InitialItems, {}) THEN InitialItems ELSE {}

-----------------------------------------------------------------------------
Empty == [state |-> "none", generation |-> 0, blob |-> NoFile]
Quiet == [phase |-> "idle", blob |-> <<>>]
NoPage == [generation |-> 0, got |-> <<>>]

TypeOK ==
  /\ pc \in {"off", "loaded", "up"}
  /\ items \subseteq checkValue /\ generation \in 1 .. LastGeneration
  /\ store.state \in {"none", "applied", "unreadable", "partial"}
  /\ store.generation \in 0 .. LastGeneration
  /\ writing.phase \in {"idle", "open", "staged", "renamed"}
  /\ disabled \subseteq Channels /\ away \subseteq Channels
  /\ idle \in [Channels -> Modes \cup {None}]
  /\ owner \in [Channels -> {"free", "plan"}]
  /\ pad \in [Channels -> Modes \cup {"reset", "hi-z", "owned"}]
  /\ page.generation \in 0 .. LastGeneration

Init ==
  /\ pc = "off" /\ items = InitialItems /\ generation = 1
  /\ store = Empty /\ writing = Quiet
  /\ file \in {NoFile, TornFile} \cup {Save(s) : s \in OldSaves}
  /\ stage = NoFile
  /\ disabled = {} /\ away = {}
  /\ idle = [c \in Channels |-> None]
  /\ owner = [c \in Channels |-> "free"]
  /\ pad = [c \in Channels |-> "reset"]
  /\ page = NoPage
  /\ boots = [kept |-> Booted(file), cut |-> {}]

(* A power loss or a crash, at any step: the flash alone stays.            *)
PowerLoss ==
  /\ pc # "off"
  /\ pc' = "off" /\ items' = InitialItems /\ generation' = 1
  /\ store' = Empty /\ writing' = Quiet
  /\ disabled' = {} /\ away' = {}
  /\ idle' = [c \in Channels |-> None]
  /\ owner' = [c \in Channels |-> "free"]
  /\ pad' = [c \in Channels |-> "reset"]
  /\ page' = NoPage
  /\ boots' = IF writing = Quiet THEN boots ELSE [boots EXCEPT !.cut = @ \cup {items}]
  /\ UNCHANGED <<file, stage>>

(* setup(): load, the disabled channels taken away, the others parked.     *)
load ==
  /\ pc = "off"
  /\ stage' = NoFile
  /\ disabled' = savedDisabled(file)
  /\ away' = savedDisabled(file)
  /\ pad' = [c \in Channels |-> IF c \in savedDisabled(file) THEN "reset" ELSE "hi-z"]
  /\ pc' = "loaded"
  /\ UNCHANGED <<items, generation, store, file, writing, boots, idle, owner, page>>

(* ... and, every interface added, applySaved.                             *)
\* Mutant: a save applied in part answers for the generation too.
StoredPartlyToo(f) ==
  IF f.form = "whole" THEN [state |-> "applied", generation |-> 1, blob |-> f]
  ELSE [state |-> IF f.form = "torn" THEN "unreadable" ELSE "none",
        generation |-> 0, blob |-> NoFile]
Stored(f) ==
  CASE f.form = "none" -> Empty
    [] f.form = "torn" -> [state |-> "unreadable", generation |-> 0, blob |-> NoFile]
    [] f.form = "whole" ->
         LET bad == readBlob(f.values).bad
         IN  [state |-> IF bad THEN "partial" ELSE "applied",
              generation |-> IF bad THEN 0 ELSE 1, blob |-> f]

applySaved ==
  /\ pc = "loaded"
  /\ adopt(Booted(file))
  /\ store' = Stored(file)
  /\ boots' = [kept |-> Booted(file), cut |-> {}]
  /\ pc' = "up"
  /\ UNCHANGED <<generation, file, stage, writing, owner, page>>

-----------------------------------------------------------------------------
(* The requests: one at a time, from the loop                              *)

Ready == pc = "up" /\ writing.phase = "idle"
Busy == {c \in Channels : owner[c] # "free"} \ disabled

\* Mutant: the generation is left alone by a change that only takes values
\* away.
commitGrowthOnly(I) ==
  /\ checkWhole(I, Busy) /\ I # items /\ generation < LastGeneration
  /\ generation' = IF I \subseteq items THEN generation ELSE generation + 1
  /\ adopt(I)
(* A refused request, and one that changes nothing, leave everything.      *)
commit(I) ==
  /\ checkWhole(I, Busy)
  /\ I # items
  /\ generation < LastGeneration
  /\ generation' = generation + 1
  /\ adopt(I)

Requests(S) == UNION {kSubset(n, S) : n \in 1 .. MaxAsk}

Sets == {V \in Requests(checkValue) : SlotsApart(V)}

set ==
  /\ Ready
  /\ \E V \in Sets :
       /\ Cardinality(InsertAll(items, V)) =< MaxItems
       /\ commit(InsertAll(items, V))
  /\ UNCHANGED <<pc, storage, owner, page>>

unset ==
  /\ Ready
  /\ \E S \in Requests({Slot(v) : v \in items}) : commit(RemoveAll(items, S))
  /\ UNCHANGED <<pc, storage, owner, page>>

(* get: whole values from the first-th. The host asks for the next page    *)
(* while the generation stays, and starts over when it does not.           *)
get ==
  /\ Ready
  /\ LET all == InOrder(items)
         first == IF page.generation = generation THEN Len(page.got) ELSE 0
         last == Min({Len(all), first + PageSize})
     IN  page' = [generation |-> generation,
                  got |-> SubSeq(page.got, 1, first) \o SubSeq(all, first + 1, last)]
  /\ UNCHANGED <<pc, items, generation, storage, padVars>>

-----------------------------------------------------------------------------
(* save, a step for every write to the flash                               *)

Kept(blob) == [state |-> "applied", generation |-> generation, blob |-> Save(blob)]

Saved == boots' = [boots EXCEPT !.kept = items]

\* Mutant: the file written in place.
SaveInPlace ==
  /\ Ready
  /\ writing' = [phase |-> "open", blob |-> InOrder(items)]
  /\ stage' = TornFile /\ file' = TornFile
  /\ UNCHANGED <<pc, items, generation, store, boots, padVars, page>>
save ==
  /\ Ready
  /\ LET blob == InOrder(items)
     IN  /\ Len(blob) =< MaxBlob
         /\ IF store.state = "applied" /\ store.blob = Save(blob)
              THEN store' = Kept(blob) /\ Saved /\ UNCHANGED <<stage, writing>>
              ELSE /\ writing' = [phase |-> "open", blob |-> blob]
                   /\ stage' = TornFile
                   /\ UNCHANGED <<store, boots>>
  /\ UNCHANGED <<pc, items, generation, file, padVars, page>>

WriteStage ==
  /\ writing.phase = "open"
  /\ stage' = Save(writing.blob)
  /\ writing' = [writing EXCEPT !.phase = "staged"]
  /\ UNCHANGED <<pc, items, generation, store, file, boots, padVars, page>>

RenameStage ==
  /\ writing.phase = "staged"
  /\ file' = stage /\ stage' = NoFile
  /\ writing' = [writing EXCEPT !.phase = "renamed"]
  /\ UNCHANGED <<pc, items, generation, store, boots, padVars, page>>

SaveDone ==
  /\ writing.phase = "renamed"
  /\ store' = Kept(writing.blob)
  /\ Saved
  /\ writing' = Quiet
  /\ UNCHANGED <<pc, items, generation, file, stage, padVars, page>>

(* A short write or a refused rename: the stage removed, failed answered.  *)
SaveFails ==
  /\ writing.phase \in {"open", "staged"}
  /\ stage' = NoFile
  /\ writing' = Quiet
  /\ UNCHANGED <<pc, items, generation, store, file, boots, padVars, page>>

-----------------------------------------------------------------------------
(* A plan takes a free channel, and lets it go into its idle state.        *)

claim(c) ==
  /\ pc = "up" /\ c \notin disabled /\ owner[c] = "free"
  /\ owner' = [owner EXCEPT ![c] = "plan"]
  /\ pad' = [pad EXCEPT ![c] = "owned"]
  /\ UNCHANGED <<pc, items, generation, storage, disabled, idle, away, page>>

release(c) ==
  /\ owner[c] = "plan"
  /\ owner' = [owner EXCEPT ![c] = "free"]
  /\ pad' = [pad EXCEPT ![c] = IF c \in disabled THEN @ ELSE applyIdle(idle[c])]
  /\ UNCHANGED <<pc, items, generation, storage, disabled, idle, away, page>>

Next ==
  \/ PowerLoss \/ load \/ applySaved
  \/ set \/ unset \/ get
  \/ save \/ WriteStage \/ RenameStage \/ SaveDone \/ SaveFails
  \/ \E c \in Channels : claim(c) \/ release(c)

Spec == Init /\ [][Next]_vars

-----------------------------------------------------------------------------
(* The probe's answer "applied, at this generation" (state's answer) is    *)
(* what the next boot finds: the file read back value by value gives       *)
(* exactly the values of now, none left out.                               *)
AppliedMeansKept ==
  (pc = "up" /\ writing.phase = "idle" /\ store.state = "applied"
     /\ store.generation = generation)
    => /\ file.form = "whole"
       /\ readBlob(file.values) = [items |-> items, bad |-> FALSE]

(* A boot comes up with the values of the last save that was answered, or  *)
(* of one cut short by the power loss, never with anything else.           *)
BootGivesASave == [][applySaved => items' \in {boots.kept} \cup boots.cut]_vars

(* Within a boot, pages of one generation are pages of one set of values.  *)
PagesAgree == page.generation = generation => IsPrefix(page.got, InOrder(items))

(* The generation moves exactly when the values do, and only forward.      *)
GenerationCounts ==
  [][pc = "up" /\ pc' = "up" =>
       /\ generation' # generation <=> items' # items
       /\ generation' >= generation]_vars

(* The pin table follows the values, what is disabled and every idle, and  *)
(* no channel is disabled while a plan has it.                             *)
PinsFollow ==
  pc = "up" =>
    /\ disabled = disabledIn(items)
    /\ \A c \in Channels : idle[c] = idlePlainOf(items, c)
    /\ \A c \in disabled : owner[c] = "free"

(* A free channel rests in its idle state whatever order the values and    *)
(* the plans came in.                                                      *)
FreeRests ==
  pc = "up" => \A c \in Channels \ disabled :
                 owner[c] = "free" => pad[c] = applyIdle(idle[c])

(* A channel the save disables is left as the reset left it from the boot  *)
(* until its disable is taken away.                                        *)
LeftFromBoot == \A c \in away : pad[c] = "reset"

(* Whatever save a boot reads, two channels' labels never say the same but *)
(* for case: a host finds a line by its label.                             *)
LabelsStayUnique == pc = "up" => LabelsUnique(items)

(* What a host reads is one set of values, with one line to each label.    *)
ValuesReadWell == PagesAgree /\ LabelsStayUnique

=============================================================================
