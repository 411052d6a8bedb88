------------------------------- MODULE Mailbox -------------------------------
(***************************************************************************)
(* A target's console through the debug module's two data registers        *)
(* (src/src/OepDmConsole.cpp): the target posts a frame in DATA1 and then  *)
(* DATA0, the probe reads it and answers in DATA0, and the host's input    *)
(* rides on the answers.  The wire may miss an access of a poll: a read    *)
(* then gives the value of the read before it, or nothing; a write is      *)
(* lost.  Every access is a step of its own and the target goes on between *)
(* any two.  Between polls a host's requests halt the hart, put operands   *)
(* in the registers and give the mailbox back.                             *)
(*                                                                         *)
(* A word is what its reader can make of it.  The rest of a frame, or the  *)
(* operand of an abstract command, is read as a frame if it is read as     *)
(* DATA0: nothing in its bits tells.                                       *)
(***************************************************************************)
EXTENDS Naturals, Sequences

CONSTANTS
  Mechanisms,   \* of "sdi", "dmdata", "dmseq"
  Frames,       \* per mechanism, what the target says: [first, rest], rest = none: DATA0 holds it all
  Input,        \* what the host has queued, in order
  Misses,       \* bound: accesses the wire may miss in one poll
  none

\* A frame says something: a target that has nothing to say posts none.
MailAssumption ==
  /\ Mechanisms \subseteq {"sdi", "dmdata", "dmseq"} /\ Input \in Seq(Nat) /\ Misses \in Nat
  /\ \A m \in Mechanisms : Len(Frames[m]) \in Nat /\ \A i \in 1 .. Len(Frames[m]) : Frames[m][i].first # none

VARIABLES
  mechanism,
  data0, data1,                 \* the debug module's registers
  last, missed,                 \* what a missed read gives; accesses of this poll missed
  pc, w0, w1, other,            \* poll(): where it is, and what it has read
  asked, hartHalted, sawEmpty,  \* requests() # seen_requests_, hart_halted_, saw_empty_
  seq,                          \* seq_synced_, seq_last_s_, seq_last_syn_, seq_h_, seq_chunk_
  queue,                        \* tx_
  got,                          \* what went to the sink
  halted, kept,                 \* the hart; the mailbox's words while a host uses the registers
  target                        \* the target's side

wordVars == <<data0, data1>>
pollVars == <<w0, w1, other>>
lookVars == <<asked, hartHalted>>
takeVars == <<sawEmpty, seq, queue, got>>
hostVars == <<halted, kept>>
mailVars == <<mechanism, wordVars, last, missed, pc, pollVars, lookVars, takeVars, hostVars, target>>

Zero    == [kind |-> "zero"]
AllOnes == [kind |-> "ones"]          \* what an attach leaves: no frame, no slot
Operand == [kind |-> "operand"]
Control == [kind |-> "control"]
Empty   == [kind |-> "empty"]         \* DMDATA's empty slot
Status(h) == [kind |-> "status", halted |-> h]
Garbage == <<"garbage">>              \* what a word that is no frame says

Said == Frames[mechanism]
Least(m, n) == IF m < n THEN m ELSE n
Upto(q, n)  == SubSeq(q, 1, Least(n, Len(q)))
After(q, n) == SubSeq(q, Least(n, Len(q)) + 1, Len(q))

-----------------------------------------------------------------------------
(* The wire: an access of a poll, of which `Misses` may be missed.         *)

Ends == pc' = "idle" /\ w0' = Zero /\ w1' = Zero /\ other' = Zero
Same == UNCHANGED <<mechanism, wordVars, lookVars, takeVars, hostVars, target>>

ReadTo(from, value, to, Keep(_)) ==
  /\ pc = from /\ Same
  /\ \/ Keep(value) /\ pc' = to /\ last' = value /\ UNCHANGED missed
     \/ missed < Misses /\ missed' = missed + 1 /\ Keep(last) /\ pc' = to /\ UNCHANGED last
     \/ missed < Misses /\ missed' = missed + 1 /\ Ends /\ UNCHANGED last

\* SDI and DMDATA say themselves that a lost write is not seen (confirm's comment).
Writes(w) ==
  \/ data0' = w /\ UNCHANGED missed
  \/ mechanism = "dmseq" /\ missed < Misses /\ missed' = missed + 1 /\ UNCHANGED data0

Keeps0(w)     == w0' = w /\ UNCHANGED <<w1, other>>
Keeps1(w)     == w1' = w /\ UNCHANGED <<w0, other>>
KeepsOther(w) == other' = w /\ UNCHANGED <<w0, w1>>
KeepsNone(w)  == UNCHANGED pollVars

-----------------------------------------------------------------------------
(* poll(): DMSTATUS first after a request, and every kStatusMs.            *)

PollLooks == pc = "idle" /\ pc' = "status" /\ missed' = 0 /\ Same /\ UNCHANGED <<last, pollVars>>
PollReads == pc = "idle" /\ ~asked /\ ~hartHalted /\ pc' = "data0" /\ missed' = 0
             /\ Same /\ UNCHANGED <<last, pollVars>>

ReadStatus  == ReadTo("status", Status(halted), "control", Keeps0)
ReadControl == ReadTo("control", Control, "again", KeepsNone)
ReadAgain   == ReadTo("again", Status(halted), "judge", Keeps1)

\* Words that may read as a module's DMSTATUS, and what they say of the hart then.
Module(w) == w.kind \in {"status", "frame", "rest", "operand"}
MayBeHalted(w) == IF w.kind = "status" THEN {w.halted} ELSE BOOLEAN

LookDone(w) ==
  IF ~Module(w) THEN Ends /\ UNCHANGED lookVars
  ELSE \E h \in MayBeHalted(w) :
         /\ asked' = FALSE /\ hartHalted' = h
         /\ IF h THEN Ends ELSE pc' = "data0" /\ w0' = Zero /\ w1' = Zero /\ UNCHANGED other

Judge == /\ pc = "judge"
         /\ IF w0 = w1 THEN LookDone(w0) ELSE Ends /\ UNCHANGED lookVars
         /\ UNCHANGED <<mechanism, wordVars, last, missed, takeVars, hostVars, target>>

-----------------------------------------------------------------------------
(* pollSdi, pollDmdata, pollSeq read DATA0, and confirm() reads again what *)
(* is to be acted on: DATA1, another register, DATA1, DATA0.               *)

Like(w) == w.kind \in {"frame", "rest", "operand"}
ActedOn(w) == Like(w) \/ (mechanism # "sdi" /\ w.kind \in {"empty", "ones", "status"})
WithData1 == mechanism = "sdi" \/ (w0.kind = "frame" /\ w0.long)
Between == IF mechanism = "sdi" THEN Status(halted) ELSE Control

ReadData0 == ReadTo("data0", data0, "first", Keeps0)
First == /\ pc = "first"
         /\ IF ActedOn(w0) THEN /\ pc' = (IF WithData1 THEN "data1" ELSE "between")
                                /\ UNCHANGED <<pollVars, sawEmpty>>
                           ELSE Ends /\ sawEmpty' = FALSE
         /\ UNCHANGED <<mechanism, wordVars, last, missed, lookVars, seq, queue, got, hostVars, target>>

ReadData1   == ReadTo("data1", data1, "between", Keeps1)
ReadBetween == ReadTo("between", Between, IF WithData1 THEN "data1again" ELSE "data0again", KeepsNone)
ReadData1Again == ReadTo("data1again", data1, "same1", KeepsOther)
Same1 == /\ pc = "same1" /\ Same /\ UNCHANGED <<last, missed>>
         /\ IF other = w1 THEN pc' = "data0again" /\ UNCHANGED pollVars ELSE Ends

ReadData0Again == ReadTo("data0again", data0, "same0", KeepsOther)

-----------------------------------------------------------------------------
(* What a confirmed word does.                                             *)

RestOf(f, rest) == [kind |-> "rest", rest |-> rest, crc |-> (IF mechanism = "dmseq" THEN f ELSE Zero)]
Text == IF w0.kind # "frame" \/ (w0.long /\ w1.kind # "rest") THEN Garbage
        ELSE <<w0.first, IF w0.long THEN w1.rest ELSE none>>

\* Up to 3 bytes of input, or 0.
answerDmdata == /\ Writes(IF queue = <<>> THEN Zero ELSE [kind |-> "answer", bytes |-> Upto(queue, 3)])
                /\ queue' = After(queue, 3) /\ sawEmpty' = FALSE

TakeSdi == got' = Append(got, Text) /\ Writes(Zero) /\ UNCHANGED <<sawEmpty, seq, queue>>

TakeDmdata ==
  /\ UNCHANGED seq
  /\ \/ Like(w0) /\ got' = Append(got, Text) /\ answerDmdata
     \/ w0.kind \in {"ones", "status"} /\ Writes(Zero) /\ sawEmpty' = FALSE /\ UNCHANGED <<got, queue>>
     \/ w0 = Empty /\ ~sawEmpty /\ sawEmpty' = TRUE /\ UNCHANGED <<got, queue, data0, missed>>
     \/ w0 = Empty /\ sawEmpty /\ answerDmdata /\ UNCHANGED got

\* An operand whose CRC is right by chance is a new frame that acknowledges.
AsFrame == IF w0.kind = "frame" THEN w0 ELSE [s |-> 1 - seq.s, a |-> seq.h, syn |-> FALSE, first |-> "operand"]
CrcRight == Like(w0) /\ (w0.kind = "frame" /\ w0.long => w1.kind = "rest" /\ w1.crc = w0)

\* Mutant: a SYN frame is never a duplicate.
DuplicateNotOfSyn(f) == seq.synced /\ f.s = seq.s /\ ~f.syn
Duplicate(f) == seq.synced /\ f.s = seq.s /\ (~f.syn \/ seq.syn)

Synced(f) == IF Duplicate(f) \/ (seq.synced /\ ~f.syn) THEN seq
             ELSE [seq EXCEPT !.synced = TRUE, !.s = 1 - f.s, !.h = 1 - f.a, !.chunk = <<>>]
Counted(q, f) == [q EXCEPT !.s = f.s, !.syn = IF f.s # q.s THEN f.syn ELSE @]
Acked(q, f) == IF q.chunk # <<>> /\ f.a = q.h THEN [q EXCEPT !.chunk = <<>>, !.h = 1 - @] ELSE q

\* The chunk on its way again, or the next two bytes of input.
seqAnswer(k, q) ==
  LET chunk == IF q.chunk # <<>> THEN q.chunk ELSE Upto(queue, 2)
  IN  /\ queue' = (IF q.chunk # <<>> THEN queue ELSE After(queue, 2))
      /\ seq' = [q EXCEPT !.chunk = chunk]
      /\ Writes([kind |-> "answer", k |-> k, h |-> q.h, bytes |-> chunk])

TakeSeq ==
  LET f == AsFrame
      q == Synced(f)
  IN  /\ UNCHANGED sawEmpty
      /\ IF CrcRight
         THEN /\ got' = (IF f.s # q.s /\ f.first # none THEN Append(got, Text) ELSE got)
              /\ seqAnswer(f.s, Acked(Counted(q, f), f))
         ELSE UNCHANGED <<got, queue, seq, data0, missed>>

Act ==
  /\ pc = "same0" /\ Ends
  /\ IF other # w0 THEN UNCHANGED <<takeVars, data0, missed>>
     ELSE \/ mechanism = "sdi" /\ TakeSdi
          \/ mechanism = "dmdata" /\ TakeDmdata
          \/ mechanism = "dmseq" /\ TakeSeq
  /\ UNCHANGED <<mechanism, data1, last, lookVars, hostVars, target>>

-----------------------------------------------------------------------------
(* The host's requests, between polls.                                     *)

Probe == UNCHANGED <<mechanism, missed, pc, pollVars, hartHalted, takeVars, target>>

Halt == /\ pc = "idle" /\ ~halted /\ halted' = TRUE /\ asked' = TRUE
        /\ last' = Status(TRUE) /\ UNCHANGED <<wordVars, kept>> /\ Probe

keepMailbox == /\ pc = "idle" /\ halted /\ kept = <<>> /\ kept' = wordVars /\ asked' = TRUE
               /\ data0' = Operand /\ data1' = Operand /\ last' = Operand /\ UNCHANGED halted /\ Probe

giveMailbox == /\ pc = "idle" /\ kept # <<>> /\ kept' = <<>> /\ asked' = TRUE
               /\ data0' = kept[1] /\ data1' = kept[2] /\ last' = kept[1] /\ UNCHANGED halted /\ Probe

Resume == /\ pc = "idle" /\ halted /\ kept = <<>> /\ halted' = FALSE /\ asked' = TRUE
          /\ last' = Status(FALSE) /\ UNCHANGED <<wordVars, kept>> /\ Probe

-----------------------------------------------------------------------------
(* The target (external), as src/tests/host/test_wire.cpp plays it.        *)

Bit7(w) == Like(w) \/ w.kind \in {"empty", "ones"}
Whole == target.next > Len(Said)
Frame ==
  LET says == IF Whole THEN [first |-> none, rest |-> none] ELSE Said[target.next]
      seqs == IF mechanism = "dmseq" THEN target ELSE [s |-> 0, lastH |-> 0, syn |-> FALSE]
  IN  IF Whole /\ mechanism = "dmdata" THEN Empty
      ELSE [kind |-> "frame", first |-> says.first, long |-> says.rest # none,
            s |-> seqs.s, a |-> seqs.lastH, syn |-> seqs.syn]

External == ~halted /\ UNCHANGED <<mechanism, last, missed, pc, pollVars, lookVars, takeVars, hostVars>>

TargetPostsRest ==
  /\ target.at = "post" /\ External
  /\ data1' = (IF Whole \/ Said[target.next].rest = none THEN data1 ELSE RestOf(Frame, Said[target.next].rest))
  /\ target' = [target EXCEPT !.at = "post0"] /\ UNCHANGED data0

TargetPosts ==
  /\ target.at = "post0" /\ External
  /\ data0' = Frame /\ target' = [target EXCEPT !.at = "wait"] /\ UNCHANGED data1

Onward(t) == [t EXCEPT !.at = "post", !.next = Least(@ + 1, Len(Said) + 1)]
BytesOf(w) == IF w.kind = "answer" THEN w.bytes ELSE <<>>

TargetSdi == /\ mechanism = "sdi" /\ data0 = Zero /\ target.next < Len(Said)
             /\ target' = Onward(target)

TargetDmdata ==
  /\ mechanism = "dmdata" /\ ~Bit7(data0)
  /\ target' = Onward([target EXCEPT !.rx = IF target.next = 0 THEN @ ELSE @ \o BytesOf(data0)])

TargetSeq ==
  /\ mechanism = "dmseq" /\ data0 # Frame /\ data0 # Zero
  /\ target' = IF Bit7(data0) \/ data0.k # target.s THEN [target EXCEPT !.at = "post"]
               ELSE LET t == IF data0.bytes # <<>> /\ data0.h # target.lastH
                             THEN [target EXCEPT !.rx = @ \o data0.bytes, !.lastH = data0.h] ELSE target
                    IN  Onward([t EXCEPT !.s = 1 - @, !.syn = FALSE])

TargetSees == target.at = "wait" /\ External /\ UNCHANGED wordVars /\ (TargetSdi \/ TargetDmdata \/ TargetSeq)

-----------------------------------------------------------------------------
MailInit ==
  /\ mechanism \in Mechanisms
  /\ data0 \in {Zero, AllOnes} /\ data1 = Zero /\ last = Control /\ missed = 0
  /\ pc = "idle" /\ w0 = Zero /\ w1 = Zero /\ other = Zero
  /\ asked = TRUE /\ hartHalted = FALSE /\ sawEmpty = FALSE
  /\ seq = [synced |-> FALSE, s |-> 0, syn |-> FALSE, h |-> 0, chunk |-> <<>>]
  /\ queue = (IF mechanism = "sdi" THEN <<>> ELSE Input) /\ got = <<>>
  /\ halted = FALSE /\ kept = <<>>
  /\ target = [at |-> IF mechanism = "dmseq" THEN "post" ELSE "wait",
               next |-> IF mechanism = "dmseq" THEN 1 ELSE 0,
               s |-> 0, lastH |-> 1, syn |-> TRUE, rx |-> <<>>]

MailNext ==
  \/ PollLooks \/ PollReads \/ ReadStatus \/ ReadControl \/ ReadAgain \/ Judge
  \/ ReadData0 \/ First \/ ReadData1 \/ ReadBetween \/ ReadData1Again \/ Same1 \/ ReadData0Again \/ Act
  \/ Halt \/ keepMailbox \/ giveMailbox \/ Resume
  \/ TargetPostsRest \/ TargetPosts \/ TargetSees

MailSpec == MailInit /\ [][MailNext]_mailVars

-----------------------------------------------------------------------------
IsPrefixOf(p, q) == Len(p) <= Len(q) /\ p = SubSeq(q, 1, Len(p))

\* The rests the sink may get with a head: a frame's own, but where nothing numbers the frames also
\* that of one said before under the same head.
RestsFor(i) ==
  IF mechanism = "dmseq" \/ Said[i].rest = none THEN {Said[i].rest}
  ELSE {Said[j].rest : j \in {k \in 1 .. i : Said[k].first = Said[i].first /\ Said[k].rest # none}}

\* The head of each frame of the target reaches the sink once and in order, with such a rest, and
\* none the target counts as taken is missing; the input reaches the target once and in order.
InOrderOnce ==
  /\ Len(got) <= Len(Said)
  /\ \A i \in 1 .. Len(got) : got[i] \in {<<Said[i].first, rest>> : rest \in RestsFor(i)}
  /\ Len(got) + 1 >= target.next
  /\ IsPrefixOf(target.rx, Input)

\* The console neither takes nor answers a word while the hart is halted: what DATA0 holds then
\* may be an abstract command's operand.
LeavesOperands == pc = "same0" => ~halted

\* Where the wire misses at most one access of a poll, which is confirm()'s own premise, and wherever
\* the target is between two accesses: the mailbox carries the input, and dmseq the frames, whole,
\* once and in order; SDI and DMDATA the frames' heads so, a rest being perhaps that of an earlier
\* frame with the same head (a first read of DATA0 missed, the target at its next frame between the
\* reads).  A host that uses the registers keeps them (confirm(), poll()'s look, dmseq's duplicates).
MailboxKept == InOrderOnce /\ LeavesOperands
=============================================================================
