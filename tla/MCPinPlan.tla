----------------------------- MODULE MCPinPlan -----------------------------
(***************************************************************************)
(* PinPlan, with two drivers and two channels; and the small parts a       *)
(* host's messages and bytes come through: the two framings that find a    *)
(* message again after whatever was on the line, the two words of a        *)
(* target's mailbox, the losses a UART's receive ledger owes, a position   *)
(* stream's bytes and marks, the memo's objects.  They share no state;     *)
(* `moves` picks the one a behaviour is about, the others rest.            *)
(***************************************************************************)
EXTENDS PinPlan, Sequences, TLC

(* The driver fns are alike, and so are the channels; only the channels    *)
(* may be permuted, the fns being numbers.                                 *)
Sym == Permutations(Channels)

CONSTANTS
  Moving, none,
  Bytes, Capacity, MarksKept, Serials, Page, MaxBytes, MaxMarks,   \* PositionStream
  Chunks, QueueLength, Losses, Pending, Every, MaxLosses,          \* UartRx, and MaxBytes
  Mechanisms, Frames, Input, Misses,                               \* Mailbox
  Names, Hash, Slots, MaxObjects, Contents, Parts                  \* Memo

VARIABLES
  moves,
  total, base, buffer, serial, newest, keptMarks, marks, overflowing, written, made,
  heard, told, nextSerial,                                                     \* PositionStream
  received, losses, events, unsaid, tpc, read, unpublished, sawTaken, sawHeld,
  pushed, chunk, suspect, suspected, hold, ring, limit, blind, stopping,
  rpc, rlimit, pending, taken, marked,                                         \* UartRx
  open, enc, quiet, raw, message, line0, msg, unbroken, due,                   \* SerialFrames
  reader, length, body, idle, tcp, connected, frame, line, sent, whole, clean, \* LengthFrames
  mechanism, data0, data1, lastRead, missed, pc, w0, w1, other, asked, hartHalted, sawEmpty,
  seq, queue, got, halted, kept, target,                                       \* Mailbox
  files, stage, staging, closing, meant, lastKept                              \* Memo

(* In the run: more bytes and twice the marks than are kept; the serials   *)
(* wrap.                                                                   *)
Stream == INSTANCE PositionStream WITH kept <- keptMarks

(* In the run: a loss in the ledger, one held while the ring is full, and  *)
(* a publish inside a burst.                                               *)
Uart == INSTANCE UartRx WITH got <- read

(* Messages with a zero at each place, and one that fills a COBS block.    *)
(* The CRC tells the length and the bits of what may be taken for a frame. *)
Bits[d \in Seq({0, 1})] == IF d = <<>> THEN 0 ELSE d[1] + 2 * Bits[Tail(d)]
Crc16(d) == 8 * Len(d) + (IF \A i \in 1 .. Len(d) : d[i] < 2 THEN Bits[d] ELSE 0)
Serial == INSTANCE SerialFrames WITH
  Messages <- {<<0>>, <<1>>, <<1, 1>>, <<1, 0>>, <<0, 1, 1>>}, RawBytes <- {0, 1, 2},
  Block <- 2, EncCap <- 6, Crc <- Crc16, heard <- message, tx <- line0

(* A body that reads as a length, one at the limit, a length over it.      *)
Length == INSTANCE LengthFrames WITH
  Base <- 3, MaxFrame <- 4, Bodies <- {<<0>>, <<2>>, <<1, 1>>, <<0, 1, 2, 0>>}, StrayBytes <- {0, 1, 2},
  state <- reader, got <- frame

(* In the run: frames with one head whose rests differ, and a short one    *)
(* among them.  The input takes two answers or more.                       *)
Says(first, rest) == [first |-> first, rest |-> rest]
Talk == [m \in {"sdi", "dmdata", "dmseq"} |->
           <<Says("a", "x"), Says("a", "y"), Says("b", none), Says("a", "z")>>]

HostTypes == <<1, 2, 3, 4>>
Mail == INSTANCE Mailbox WITH last <- lastRead

(* In the run: two of the three names share a CRC and its two files, and   *)
(* there is room for two objects; a part may be wrong, empty or the whole. *)
MemoHash == [n \in Names |-> IF n = "c" THEN 2 ELSE 1]
MemoContents == {<<0>>, <<0, 1>>}
MemoParts == {<<>>, <<0>>, <<1>>, <<0, 1>>}
Objects == INSTANCE Memo

ASSUME BesideAssumption ==
  Objects!MemoAssumption /\ Stream!StreamAssumption /\ Uart!UartAssumption /\ Mail!MailAssumption

streamVars == <<total, base, buffer, serial, newest, keptMarks, marks, overflowing, written, made,
                heard, told, nextSerial>>
uartVars == <<received, losses, events, unsaid, tpc, read, unpublished, sawTaken, sawHeld,
              pushed, chunk, suspect, suspected, hold, ring, limit, blind, stopping,
              rpc, rlimit, pending, taken, marked>>
serialVars == <<open, enc, quiet, raw, message, line0, msg, unbroken, due>>
lengthVars == <<reader, length, body, idle, tcp, connected, frame, line, sent, whole, clean>>
mailVars == <<mechanism, data0, data1, lastRead, missed, pc, w0, w1, other, asked, hartHalted, sawEmpty,
              seq, queue, got, halted, kept, target>>
memoVars == <<files, stage, staging, closing, meant, lastKept>>
inVars == <<serialVars, lengthVars, mailVars>>
keptVars == <<streamVars, uartVars, memoVars>>
allVars == <<moves, vars, inVars, keptVars>>

AllInit ==
  /\ moves \in Moving
  /\ Init /\ Serial!SerialInit /\ Length!LengthInit /\ Mail!MailInit
  /\ Stream!StreamInit /\ Uart!UartInit /\ Objects!MemoInit
  /\ moves # "length" => tcp = FALSE
  /\ moves # "mail" => mechanism = "sdi" /\ data0 = Mail!Zero

Reading ==
  \/ moves = "serial" /\ Serial!SerialNext /\ UNCHANGED <<lengthVars, mailVars>>
  \/ moves = "length" /\ Length!LengthNext /\ UNCHANGED <<serialVars, mailVars>>
  \/ moves = "mail" /\ Mail!MailNext /\ UNCHANGED <<serialVars, lengthVars>>
Keeping ==
  \/ moves = "stream" /\ Stream!StreamNext /\ UNCHANGED <<uartVars, memoVars>>
  \/ moves = "uart" /\ Uart!UartNext /\ UNCHANGED <<streamVars, memoVars>>
  \/ moves = "memo" /\ Objects!MemoNext /\ UNCHANGED <<streamVars, uartVars>>

(* A stream and a UART come to rest at the bounds of their runs.           *)
AllNext ==
  \/ /\ UNCHANGED moves
     /\ \/ moves = "plan" /\ Next /\ UNCHANGED <<inVars, keptVars>>
        \/ Reading /\ UNCHANGED <<vars, keptVars>>
        \/ Keeping /\ UNCHANGED <<vars, inVars>>
  \/ moves \in {"stream", "uart"} /\ UNCHANGED allVars

AllSpec == AllInit /\ [][AllNext]_allVars

HostKnowsTheStream == Stream!HostKnowsTheStream
LossMarked == Uart!LossMarked
MailboxKept == Mail!MailboxKept
ObjectsKept == Objects!ObjectsKept
LineIsRead == Serial!LineIsRead
FrameIsGot == Length!FrameIsGot
=============================================================================
