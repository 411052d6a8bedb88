---------------------------- MODULE MCNotify ----------------------------
(***************************************************************************)
(* Notify, twice: the events of a session over a USB port and a TCP slot   *)
(* whose connections come and go; and the data of one fn, batched by bytes *)
(* or by time, on the USB port.  `moves` picks the one a behaviour is of.  *)
(***************************************************************************)
EXTENDS Notify

(* Batchings: none; by bytes or by time.                                   *)
Plain == {[min |-> 0, delay |-> 0]}
Either == {[min |-> 2, delay |-> 1]}

Data == INSTANCE Notify WITH
  Ring <- 1, Capacity <- 5, PushQueue <- 4, AnswerSizes <- {2}, Batches <- Either,
  MaxData <- 2, MaxTerms <- 1, MaxSubs <- 1, MaxConns <- 0

CONSTANT Moving

VARIABLE moves

allVars == <<moves, vars>>

AllInit ==
  /\ moves \in Moving
  /\ IF moves = "data" THEN Data!Init ELSE Init

AllNext ==
  /\ UNCHANGED moves
  /\ \/ moves = "events" /\ Next
     \/ moves = "data" /\ Data!Next

(* Fairness, of the data; the slot is never connected there.               *)
AllFairness ==
  /\ WF_vars(moves = "data" /\ Data!Push) /\ WF_vars(moves = "data" /\ Data!Tick)
  /\ WF_vars(moves = "data" /\ Data!Drain(Usb))

AllSpec == AllInit /\ [][AllNext]_allVars /\ AllFairness

WaitingGoesOut == moves = "data" => Data!DataGoesOut
=============================================================================
