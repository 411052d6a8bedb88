--------------------------- MODULE PositionStream ---------------------------
(***************************************************************************)
(* The byte stream of the consoles and the fixture UARTs (OepStream.h):    *)
(* bytes in a ring that reads do not consume, addressed by positions, and  *)
(* marks with serials of their own, which wrap. A host polls both: it goes *)
(* on from the position after the last byte it got and from the serial     *)
(* after the last mark it got.                                             *)
(***************************************************************************)
EXTENDS Integers, Sequences

CONSTANTS
  Bytes,
  Capacity,     \* bytes kept (a power of two in the code)
  MarksKept,    \* mark_capacity_
  Serials,      \* the serials wrap at this (2^32 in the code)
  Page,         \* marks in one answer
  MaxBytes, MaxMarks   \* bounds

StreamAssumption ==
  /\ Bytes \subseteq Nat
  /\ Capacity \in Nat \ {0} /\ MarksKept \in Nat \ {0} /\ Page \in Nat \ {0}
  /\ Serials \in Nat /\ MarksKept < Serials
  /\ MaxBytes \in Nat /\ MaxMarks \in Nat

Gap == -1

VARIABLES
  total, base, buffer,            \* the bytes
  serial, newest, kept, marks,    \* the marks: newest is slot_
  overflowing,
  written, made,                  \* history: every byte, and how many marks, of this stream
  heard, told,                    \* the host: the bytes by position, the marks it got
  nextSerial                      \* the host: the serial it goes on from

streamVars == <<total, base, buffer, serial, newest, kept, marks, overflowing,
                written, made, heard, told, nextSerial>>

StreamInit ==
  /\ total = 0 /\ base = 0 /\ buffer = [i \in 0 .. Capacity - 1 |-> Gap]
  /\ serial = 0 /\ newest = 0 /\ kept = 0
  /\ marks = [i \in 0 .. MarksKept - 1 |-> [serial |-> 0, nth |-> 0]]
  /\ overflowing = FALSE
  /\ written = <<>> /\ made = 0
  /\ heard = <<>> /\ told = <<>> /\ nextSerial = 0

oldest == IF total - base > Capacity THEN total - Capacity ELSE base

-----------------------------------------------------------------------------
(* The interface's side                                                    *)

(* mark(): nth tells which mark of the stream it is (history).             *)
Marked ==
  /\ made < MaxMarks
  /\ marks' = [marks EXCEPT ![newest] = [serial |-> serial, nth |-> made + 1]]
  /\ newest' = (newest + 1) % MarksKept
  /\ kept' = IF kept < MarksKept THEN kept + 1 ELSE kept
  /\ serial' = (serial + 1) % Serials
  /\ made' = made + 1
NoMark == UNCHANGED <<marks, newest, kept, serial, made>>

Full == total - base >= Capacity

put(byte) ==
  /\ total < MaxBytes
  /\ IF Full /\ ~overflowing THEN overflowing' = TRUE /\ Marked
     ELSE UNCHANGED overflowing /\ NoMark
  /\ buffer' = [buffer EXCEPT ![total % Capacity] = byte]
  /\ total' = total + 1
  /\ written' = Append(written, byte)
  /\ UNCHANGED <<base, heard, told, nextSerial>>

mark ==
  /\ Marked
  /\ UNCHANGED <<total, base, buffer, overflowing, written, heard, told, nextSerial>>

clear ==
  /\ base' = total /\ overflowing' = FALSE /\ Marked
  /\ UNCHANGED <<total, buffer, written, heard, told, nextSerial>>

(* The stream made anew in its place: the positions and serials go on.     *)
erase ==
  /\ base' = total /\ kept' = 0 /\ overflowing' = FALSE
  /\ UNCHANGED <<total, buffer, serial, newest, marks, written, made,
                 heard, told, nextSerial>>

(* A stream with a number of its own: from position 0, for the host too.   *)
restart ==
  /\ total' = 0 /\ base' = 0 /\ serial' = 0 /\ newest' = 0 /\ kept' = 0
  /\ overflowing' = FALSE
  /\ written' = <<>> /\ made' = 0 /\ heard' = <<>> /\ told' = <<>> /\ nextSerial' = 0
  /\ UNCHANGED <<buffer, marks>>

-----------------------------------------------------------------------------
(* The host's side                                                         *)

(* read from the host's position, at most max bytes: where the answer      *)
(* starts, and its bytes. What lies before the start was a gap.            *)
start(from) == IF from < oldest THEN oldest ELSE from
Least(m, n) == IF m < n THEN m ELSE n

read(max) ==
  LET from == start(Len(heard))
      count == Least(total - from, max) IN
  /\ heard' = heard \o [i \in 1 .. from - Len(heard) |-> Gap]
                    \o [i \in 1 .. count |-> buffer[(from + i - 1) % Capacity]]
  /\ UNCHANGED <<total, base, buffer, serial, newest, kept, marks, overflowing,
                 written, made, told, nextSerial>>

(* serialPageStart, and the slot of the mark `back` before the next one.   *)
Less(m, n) == (m - n) % Serials
\* Mutant: a serial compared as if it did not wrap.
serialPageStartFlat(from, first) ==
  IF from = serial \/ first = serial THEN serial
  ELSE IF from >= first /\ from < serial THEN from ELSE first
serialPageStart(from, first) ==
  IF from = serial \/ first = serial THEN serial
  ELSE IF Less(from, first) < Less(serial, first) THEN from ELSE first
slotBack(back) == (newest - back) % MarksKept

marksPage ==
  LET from == serialPageStart(nextSerial, Less(serial, kept))
      left == Less(serial, from)
      count == Least(left, Page)
      page == [i \in 1 .. count |-> marks[slotBack(left - i + 1)]] IN
  /\ told' = told \o [i \in 1 .. count |-> page[i].nth]
  /\ nextSerial' = IF count = 0 THEN nextSerial ELSE (page[count].serial + 1) % Serials
  /\ UNCHANGED <<total, base, buffer, serial, newest, kept, marks, overflowing,
                 written, made, heard>>

(* A host that lets no full round of the serials pass between its polls.   *)
LastTold == IF told = <<>> THEN 0 ELSE told[Len(told)]
HostKeepsUp == made - LastTold < Serials - 1

StreamNext ==
  \/ HostKeepsUp /\ (mark \/ clear \/ \E byte \in Bytes : put(byte))
  \/ erase \/ restart
  \/ marksPage \/ \E max \in 1 .. Capacity : read(max)

StreamSpec == StreamInit /\ [][StreamNext]_streamVars

-----------------------------------------------------------------------------
(* Every byte before the host's position it got as it was written, or was  *)
(* told of as a gap; and it was told of a gap only over bytes that are no  *)
(* longer kept.                                                            *)
HostKnowsEveryByte ==
  /\ Len(heard) <= total
  /\ \A i \in 1 .. Len(heard) : heard[i] = written[i] \/ (heard[i] = Gap /\ i <= oldest)

(* The host gets the marks in order, none twice, across the wrap, and      *)
(* misses only those that are no longer kept.                              *)
HostGetsEveryMark ==
  /\ \A i \in 1 .. Len(told) - 1 : told[i] < told[i + 1]
  /\ \A n \in 1 .. LastTold : n <= made - kept \/ \E i \in 1 .. Len(told) : told[i] = n

(* An overflow episode is on exactly while bytes were pushed out since the *)
(* last clear: its first one has marked the loss.                          *)
OverflowIsTold == overflowing <=> total - base > Capacity

(* A host that reads on from its own position and serial knows all of the  *)
(* stream: its bytes, its marks, and where some are missing.               *)
HostKnowsTheStream == HostKnowsEveryByte /\ HostGetsEveryMark /\ OverflowIsTold
=============================================================================
