--------------------------------- MODULE Memo ---------------------------------
(***************************************************************************)
(* The memo area: objects the host keeps on the probe as files             *)
(* (src/src/OepMemo.cpp over LittleFS).  A write gathers its parts in a    *)
(* staging file; the last part checks the whole and renames it over the    *)
(* object's file.  Each step on the file system is an action, and the      *)
(* power may fail before any of them.                                      *)
(*                                                                         *)
(* A CRC stands for the contents it was made of: two contents with one CRC *)
(* are not told apart by the probe, and none are here.  Names may share    *)
(* the CRC their file's path is made of.                                   *)
(***************************************************************************)
EXTENDS Naturals, Sequences, FiniteSets

CONSTANTS
  Names, Hash,    \* the objects' names; the CRC of each
  Slots,          \* the files of one CRC: 0..kSlots-1
  Contents,       \* what the host means to keep: a set of sequences of data
  Parts,          \* the data one request brings
  MaxObjects      \* max_objects_

MemoAssumption ==
  /\ Hash \in [Names -> Nat] /\ Slots \in Nat \ {0} /\ MaxObjects \in Nat
  /\ "none" \notin Names     \* the name of no file
  /\ \A c \in Contents \union Parts : Len(c) \in Nat

VARIABLES
  files,     \* the object files: path -> name and data
  stage,     \* the staging file, NoFile when there is none
  staging,   \* the write under way: its name, size and CRC (stage_*)
  closing,   \* what the last part's handling has left to do: "no", "check", "removing"
  meant,     \* the write whose last part is being handled
  lastKept   \* history: what the last write or delete of each name left

memoVars == <<files, stage, staging, closing, meant, lastKept>>

NoFile == [name |-> "none", data |-> <<>>]
NoWrite == [name |-> "none", whole |-> <<>>]
Paths == {Hash[n] : n \in Names} \X (0..(Slots - 1))

MemoInit ==
  /\ files = [p \in Paths |-> NoFile] /\ stage = NoFile /\ staging = NoWrite /\ closing = "no"
  /\ lastKept = [n \in Names |-> NoFile] /\ meant = NoWrite

-----------------------------------------------------------------------------

(* The file of an object: none, or one. *)
find(n) == {p \in Paths : p[1] = Hash[n] /\ files[p].name = n}

(* The paths a write of n goes to: its own file, else the first free slot of its CRC. *)
place(n) ==
  IF find(n) # {} THEN find(n)
  ELSE {p \in Paths : /\ p[1] = Hash[n] /\ files[p] = NoFile
                      /\ \A q \in Paths : q[1] = p[1] /\ files[q] = NoFile => p[2] <= q[2]}

objectCount == Cardinality({p \in Paths : files[p] # NoFile})

(* A part goes on a write when it is the next part of the one under way. *)
fits(n, w, offset) ==
  staging = [name |-> n, whole |-> w] /\ offset = Len(stage.data)

(* A part is in the staging file; the last one closes it. *)
gathered(n, w, data) ==
  LET last == Len(data) >= Len(w)
  IN /\ stage' = [name |-> n, data |-> data]
     /\ staging' = IF last THEN NoWrite ELSE [name |-> n, whole |-> w]
     /\ closing' = IF last THEN "check" ELSE "no"
     /\ meant' = IF last THEN [name |-> n, whole |-> w] ELSE NoWrite
     /\ UNCHANGED <<files, lastKept>>

dropStaging == stage' = NoFile /\ staging' = NoWrite /\ UNCHANGED <<files, closing, lastKept, meant>>

(* A write at offset 0 begins: the write under way is dropped. *)
writeFirst(n, w, d) ==
  /\ closing = "no" /\ Len(d) <= Len(w) /\ place(n) # {}
  /\ find(n) # {} \/ objectCount < MaxObjects
  /\ gathered(n, w, d)

(* Its next part: wrongState unless it fits, malformed when it is too long. *)
writeNext(n, w, offset, d) ==
  /\ closing = "no" /\ offset > 0 /\ fits(n, w, offset) /\ Len(stage.data) + Len(d) <= Len(w)
  /\ gathered(n, w, stage.data \o d)

(* The file system takes a part short: the write is dropped and answered failed. *)
writeShort == closing = "no" /\ staging # NoWrite /\ dropStaging

(* Mutant: the old file is removed before the new one takes its path. *)
renameByRemoving ==
  /\ closing = "check" /\ stage.data = meant.whole
  /\ \E p \in place(stage.name) :
       IF files[p] # NoFile
       THEN files' = [files EXCEPT ![p] = NoFile] /\ UNCHANGED <<stage, closing, lastKept, meant>>
       ELSE /\ files' = [files EXCEPT ![p] = stage] /\ stage' = NoFile /\ closing' = "no"
            /\ lastKept' = [lastKept EXCEPT ![meant.name] = stage] /\ meant' = NoWrite
  /\ UNCHANGED staging

(* The whole is right: it takes the object's path in one commit, and the write is answered. *)
rename ==
  /\ closing = "check" /\ stage.data = meant.whole
  /\ \E p \in place(stage.name) : files' = [files EXCEPT ![p] = stage]
  /\ stage' = NoFile /\ closing' = "no"
  /\ lastKept' = [lastKept EXCEPT ![meant.name] = stage] /\ meant' = NoWrite
  /\ UNCHANGED staging

(* The rename fails: answered failed, the old object stays. *)
renameFails ==
  /\ closing = "check" /\ stage.data = meant.whole
  /\ stage' = NoFile /\ closing' = "no" /\ meant' = NoWrite /\ UNCHANGED <<files, staging, lastKept>>

(* The whole is wrong: the staging file goes, then the object, then the answer. *)
badStageGoes ==
  /\ closing = "check" /\ stage.data # meant.whole
  /\ stage' = NoFile /\ closing' = "removing" /\ UNCHANGED <<files, staging, lastKept, meant>>
badObjectGoes ==
  /\ closing = "removing"
  /\ files' = [p \in Paths |-> IF p \in find(meant.name) THEN NoFile ELSE files[p]]
  /\ lastKept' = [lastKept EXCEPT ![meant.name] = NoFile]
  /\ closing' = "no" /\ meant' = NoWrite /\ UNCHANGED <<stage, staging>>

(* delete: the write of that name goes too; with neither, noResource.  When the file will not go   *)
(* it is answered failed.                                                                          *)
remove(n, goes) ==
  /\ closing = "no" /\ (staging.name = n \/ find(n) # {})
  /\ IF staging.name = n THEN stage' = NoFile /\ staging' = NoWrite ELSE UNCHANGED <<stage, staging>>
  /\ IF goes
     THEN /\ files' = [p \in Paths |-> IF p \in find(n) THEN NoFile ELSE files[p]]
          /\ lastKept' = [lastKept EXCEPT ![n] = NoFile]
     ELSE find(n) # {} /\ UNCHANGED <<files, lastKept>>
  /\ UNCHANGED <<closing, meant>>

sessionOver == closing = "no" /\ staging # NoWrite /\ dropStaging

(* The power fails, and begin() removes a staging file it left. *)
powerLoss ==
  stage' = NoFile /\ staging' = NoWrite /\ closing' = "no" /\ meant' = NoWrite /\ UNCHANGED <<files, lastKept>>

Write ==
  \E n \in Names, w \in Contents, d \in Parts :
     writeFirst(n, w, d) \/ \E offset \in 1..Len(w) : writeNext(n, w, offset, d)
Remove == \E n \in Names, goes \in BOOLEAN : remove(n, goes)

MemoNext ==
  \/ Write \/ writeShort \/ rename \/ renameFails \/ badStageGoes \/ badObjectGoes
  \/ Remove \/ sessionOver \/ powerLoss
MemoSpec == MemoInit /\ [][MemoNext]_memoVars

-----------------------------------------------------------------------------
Object(n) == IF find(n) = {} THEN NoFile ELSE files[CHOOSE p \in find(n) : TRUE]

(* An object reads as what the last write of it that was done, or delete, left: the old one until   *)
(* the new one is whole in its place, at every step a power loss can come at; gone only when it was *)
(* deleted, or when a whole write of it was not what the host meant.                                *)
OldOrNew == \A n \in Names : Object(n) = lastKept[n]

(* An object has one file, of its name's CRC, whichever slots of that CRC were freed since it was   *)
(* written; and there are never more objects than max_objects says.                                 *)
OneFilePerName ==
  /\ \A n \in Names : Cardinality({p \in Paths : files[p].name = n}) <= 1
  /\ objectCount <= MaxObjects

(* Both: what was kept is there, once. *)
ObjectsKept == OldOrNew /\ OneFilePerName
=============================================================================
