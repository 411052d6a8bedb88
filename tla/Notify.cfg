SPECIFICATION AllSpec
CONSTANTS
  N = 1
  Usb = usb
  Slots = {slot}
  Ring = 1
  Capacity = 1
  PushQueue = 0
  AnswerSizes = {1}
  SeqTurn = 2
  Batches <- Plain
  MaxData = 0
  MaxTerms = 2
  MaxSubs = 2
  MaxConns = 2
  Wraps = TRUE
  Moving = {"events", "data"}
INVARIANTS
  SeqsTell
  RingIsTheSessions
  SpokenTo
PROPERTIES
  WaitingGoesOut
