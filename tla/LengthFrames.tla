----------------------------- MODULE LengthFrames -----------------------------
(***************************************************************************)
(* A message transport's bytes from the host: a length, then the message   *)
(* (FrameReader in src/src/OepFrame.cpp, as Endpoint::poll feeds it).  On  *)
(* TCP a pause means nothing, and a length over max_frame ends the         *)
(* connection.                                                             *)
(*                                                                         *)
(* A byte is a number below Base, which stands for 256.                    *)
(***************************************************************************)
EXTENDS Integers, Sequences

CONSTANTS
  Base,
  MaxFrame,      \* max_frame_, not over capacity_
  Bodies,        \* what the host sends in frames
  StrayBytes     \* what another program leaves on the line

VARIABLES
  state, length, body,       \* state_, length_, buffer_ up to have_
  idle,                      \* over 200 ms since last_byte_ms_
  tcp,                       \* tcp_
  connected,                 \* the slot has a connection (TCP)
  got,                       \* the message the last byte completed
  line, sent, whole, clean   \* the host: bytes to come, the frame, sent in one piece,
                             \* nothing but frames since the last pause or connection

readerVars == <<state, length, body>>
hostVars == <<line, sent, whole, clean>>
lengthVars == <<readerVars, idle, tcp, connected, got, hostVars>>

LengthInit ==
  /\ state = "low" /\ length = 0 /\ body = <<>> /\ idle = TRUE /\ tcp \in BOOLEAN
  /\ connected = TRUE /\ got = <<>>
  /\ line = <<>> /\ sent = <<>> /\ whole = FALSE /\ clean = TRUE
-----------------------------------------------------------------------------
\* Mutant: a message discarded for its length is not ended by a pause.
gapRestartsMidFrame == state \in {"high", "body"} /\ ~tcp

\* gapRestarts: a frame that stands still starts over, but not on TCP
gapRestarts == state = "discard" \/ (state # "low" /\ ~tcp)

At == IF idle /\ gapRestarts THEN "low" ELSE state

\* push, one byte
PushLow(b) == At = "low" /\ length' = b /\ state' = "high" /\ got' = <<>>
              /\ UNCHANGED <<body, connected>>

\* 0 is a keepalive; over max_frame: discarded, on TCP the connection too (poll)
PushHigh(b) ==
  LET n == length + Base * b
  IN  /\ At = "high" /\ length' = n /\ got' = <<>> /\ body' = <<>>
      /\ state' = (IF n = 0 THEN "low" ELSE IF n > MaxFrame THEN "discard" ELSE "body")
      /\ connected' = ~(tcp /\ n > MaxFrame)

\* the message handled, the reader starts over (consume)
PushBody(b) ==
  LET all == Append(body, b)
  IN  /\ At = "body" /\ UNCHANGED connected
      /\ IF Len(all) < length
         THEN body' = all /\ got' = <<>> /\ UNCHANGED <<state, length>>
         ELSE got' = all /\ body' = <<>> /\ state' = "low" /\ length' = 0

PushDiscard == At = "discard" /\ got' = <<>> /\ UNCHANGED <<readerVars, connected>>

Push(b) == /\ connected
           /\ PushLow(b) \/ PushHigh(b) \/ PushBody(b) \/ PushDiscard
           /\ idle' = FALSE /\ UNCHANGED tcp
-----------------------------------------------------------------------------
(* The host.                                                                *)
LengthOf(m) == <<Len(m) % Base, Len(m) \div Base>>

StartFrame == /\ line = <<>> /\ connected
              /\ \E m \in Bodies : sent' = m /\ line' = LengthOf(m) \o m
              /\ whole' = TRUE
              /\ UNCHANGED <<readerVars, idle, tcp, connected, got, clean>>

FrameByte == /\ line # <<>> /\ Push(Head(line)) /\ line' = Tail(line)
             /\ UNCHANGED <<sent, whole, clean>>

StrayByte == /\ line = <<>> /\ \E b \in StrayBytes : Push(b)
             /\ clean' = FALSE /\ UNCHANGED <<line, sent, whole>>

\* the program goes away in the middle of a frame; its connection goes with it
FrameCut == /\ line # <<>> /\ line' = <<>> /\ whole' = FALSE /\ clean' = FALSE
            /\ connected' = (connected /\ ~tcp)
            /\ UNCHANGED <<readerVars, idle, tcp, got, sent>>

\* the host pauses, or loop() was away from this transport that long
Gap == /\ ~idle /\ idle' = TRUE
       /\ whole' = (whole /\ tcp)
       /\ clean' = (IF tcp THEN clean ELSE line = <<>>)
       /\ UNCHANGED <<readerVars, tcp, connected, got, line, sent>>

\* tcp_slot_: another connection in the slot, the reader afresh
Reconnect == /\ tcp /\ ~connected /\ connected' = TRUE
             /\ state' = "low" /\ length' = 0 /\ body' = <<>>
             /\ line' = <<>> /\ whole' = FALSE /\ clean' = TRUE /\ got' = <<>>
             /\ UNCHANGED <<idle, tcp, sent>>

LengthNext == StartFrame \/ FrameByte \/ StrayByte \/ FrameCut \/ Gap \/ Reconnect
LengthSpec == LengthInit /\ [][LengthNext]_lengthVars
-----------------------------------------------------------------------------
\* A frame sent in one piece after a pause, on a new connection or after frames
\* only is got at its last byte: no stray byte, cut frame or length over
\* max_frame before the pause holds the reader (gapRestarts, poll, tcp_slot_).
FrameIsGot == [][Len(line) = 1 /\ line' = <<>> /\ whole' /\ clean => got' = sent]_lengthVars
=============================================================================
