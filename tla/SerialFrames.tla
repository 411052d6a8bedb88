----------------------------- MODULE SerialFrames -----------------------------
(***************************************************************************)
(* A serial port's line from the host: frames between raw bytes            *)
(* (SerialReader, writeCobsFrame and COBS in src/src/OepFrame.cpp).        *)
(*                                                                         *)
(* The reader takes one byte a step: feed() with more does the same byte   *)
(* after byte.  A byte is a number, Block stands for COBS's 254, the two   *)
(* bytes of the CRC are one that is told from every other content (Crc).   *)
(***************************************************************************)
EXTENDS Integers, Sequences, SequencesExt

CONSTANTS
  Messages,    \* what the host sends in frames
  RawBytes,    \* what it sends outside them, 0 among it
  Block,       \* the most bytes of a COBS block: 254
  EncCap,      \* enc_cap_
  Crc(_)       \* crc16Ccitt of a message

VARIABLES
  open, enc, quiet,          \* open_, enc_ up to have_, 200 ms since last_ms_
  raw, heard,                \* what the last byte gave: raw bytes, a message
  tx, msg, unbroken,         \* the frame the host is sending; no pause since its first byte
  due                        \* the bytes read, 0x00 apart, that have not come out yet

serialVars == <<open, enc, quiet, raw, heard, tx, msg, unbroken, due>>
-----------------------------------------------------------------------------
(* COBS.                                                                    *)

\* cobsBlocks: a block ends before a zero, after Block bytes or with the data
cobsEncode(d) ==
  LET n == Len(d)
      End(i) == CHOOSE j \in i .. n + 1 :
                  /\ \A k \in i .. j - 1 : d[k] # 0
                  /\ j = n + 1 \/ j = i + Block \/ d[j] = 0
                  /\ j <= i + Block
      Blocks[i \in 1 .. n + 1] ==
        LET j == End(i)
        IN  <<j - i + 1>> \o SubSeq(d, i, j - 1)
            \o (IF j > n THEN <<>> ELSE Blocks[IF j = i + Block THEN j ELSE j + 1])
  IN  Blocks[1]

NotCobs == <<-1>>

cobsDecode(e) ==
  LET n == Len(e)
      Blocks[i \in 1 .. n + 1] ==
        IF i = n + 1 THEN <<>>
        ELSE IF e[i] = 0 \/ i + e[i] - 1 > n THEN NotCobs
        ELSE LET rest == Blocks[i + e[i]]
                 zero == IF e[i] # Block + 1 /\ i + e[i] <= n THEN <<0>> ELSE <<>>
             IN  IF rest = NotCobs THEN NotCobs
                 ELSE SubSeq(e, i + 1, i + e[i] - 1) \o zero \o rest
  IN  Blocks[1]

\* writeCobsFrame
Framed(m) == <<0>> \o cobsEncode(Append(m, Crc(m))) \o <<0>>

\* close(): at least a byte and the CRC, which matches
Closes(e) == LET d == cobsDecode(e)
             IN  d # NotCobs /\ Len(d) >= 2 /\ Last(d) = Crc(Front(d))
-----------------------------------------------------------------------------
(* SerialReader.                                                            *)

Reader == [open |-> open, enc |-> enc, raw |-> <<>>, heard |-> <<>>]

\* spill: the open candidate is raw, its 0x00 first; its 0x00 alone is nothing
spill(r) ==
  [r EXCEPT !.open = FALSE, !.enc = <<>>,
            !.raw = IF r.open /\ r.enc # <<>> THEN @ \o <<0>> \o r.enc ELSE @]

\* Mutant: a 0x00 ends a candidate and starts none.
takeClosed(r, b) ==
  CASE ~r.open /\ b # 0 -> [r EXCEPT !.raw = Append(@, b)]
    [] ~r.open /\ b = 0 -> [r EXCEPT !.open = TRUE, !.enc = <<>>]
    [] r.open /\ b = 0 /\ r.enc = <<>> -> r
    [] r.open /\ b = 0 /\ Closes(r.enc) ->
         [r EXCEPT !.open = FALSE, !.enc = <<>>, !.heard = Front(cobsDecode(r.enc))]
    [] r.open /\ b = 0 -> [r EXCEPT !.open = FALSE, !.enc = <<>>, !.raw = @ \o <<0>> \o r.enc]
    [] r.open /\ Len(r.enc) = EncCap -> [spill(r) EXCEPT !.raw = Append(@, b)]
    [] OTHER -> [r EXCEPT !.enc = Append(@, b)]

\* feed, one byte: a 0x00 closes the candidate and starts the next
take(r, b) ==
  CASE ~r.open /\ b # 0 -> [r EXCEPT !.raw = Append(@, b)]
    [] ~r.open /\ b = 0 -> [r EXCEPT !.open = TRUE, !.enc = <<>>]
    [] r.open /\ b = 0 /\ r.enc = <<>> -> r
    [] r.open /\ b = 0 /\ Closes(r.enc) ->
         [r EXCEPT !.enc = <<>>, !.heard = Front(cobsDecode(r.enc))]
    [] r.open /\ b = 0 -> [r EXCEPT !.enc = <<>>, !.raw = @ \o <<0>> \o r.enc]
    [] r.open /\ Len(r.enc) = EncCap -> [spill(r) EXCEPT !.raw = Append(@, b)]
    [] OTHER -> [r EXCEPT !.enc = Append(@, b)]

\* The bytes that came out go from the front of what is due.
Without(q, gone) == IF IsPrefix(gone, q) THEN SubSeq(q, Len(gone) + 1, Len(q)) ELSE NotCobs
NoZeros(s) == SelectSeq(s, LAMBDA b : b # 0)

Becomes(r, read) ==
  /\ open' = r.open /\ enc' = r.enc /\ raw' = r.raw /\ heard' = r.heard
  /\ due' = Without(due \o NoZeros(read),
                    IF r.heard # <<>> THEN enc ELSE NoZeros(r.raw))

\* a byte arrives; the pause before it is seen first
Feed(b) == /\ Becomes(take(IF quiet THEN spill(Reader) ELSE Reader, b), <<b>>)
           /\ quiet' = FALSE

\* idle, from the endpoint's poll
SerialIdle == /\ quiet /\ open /\ Becomes(spill(Reader), <<>>)
              /\ UNCHANGED <<quiet, tx, msg, unbroken>>
-----------------------------------------------------------------------------
(* The host's side of the line.                                             *)

SerialInit ==
  /\ open = FALSE /\ enc = <<>> /\ quiet = TRUE /\ raw = <<>> /\ heard = <<>>
  /\ tx = <<>> /\ msg = <<>> /\ unbroken = FALSE /\ due = <<>>

SendRaw == /\ tx = <<>> /\ \E b \in RawBytes : Feed(b)
           /\ UNCHANGED <<tx, msg, unbroken>>

BeginFrame == /\ tx = <<>> /\ \E m \in Messages : msg' = m /\ tx' = Framed(m)
              /\ unbroken' = TRUE
              /\ UNCHANGED <<open, enc, quiet, raw, heard, due>>

SendByte == /\ tx # <<>> /\ Feed(Head(tx)) /\ tx' = Tail(tx)
            /\ UNCHANGED <<msg, unbroken>>

\* the host goes away in the middle of a frame
CutFrame == /\ tx # <<>> /\ tx' = <<>> /\ unbroken' = FALSE
            /\ UNCHANGED <<open, enc, quiet, raw, heard, msg, due>>

\* 200 ms without a byte read: the host's pause, or loop() away that long
Pause == /\ ~quiet /\ quiet' = TRUE /\ unbroken' = FALSE
         /\ UNCHANGED <<open, enc, raw, heard, tx, msg, due>>

SerialNext == SerialIdle \/ SendRaw \/ BeginFrame \/ SendByte \/ CutFrame \/ Pause
SerialSpec == SerialInit /\ [][SerialNext]_serialVars
-----------------------------------------------------------------------------
\* A frame sent with no pause inside is heard at its last byte, whatever lay on
\* the line before it: raw bytes, a cut frame, an open candidate, zeros (feed, close).
FrameIsHeard == Len(tx) = 1 /\ tx' = <<>> /\ unbroken' => heard' = msg

\* Every byte but 0x00 comes out once and in order, as raw or in a message; what
\* has not come out is the open candidate (feed, spill, idle).
EachByteOnce == due = enc

\* Both, at every step of the line.
LineIsRead == [][FrameIsHeard /\ EachByteOnce']_serialVars
=============================================================================
