\* one host: the resend record over the wrap of corr (it spans less than a turn), the lease over the wrap of the clock
CONSTANTS
  Sessions = {s1}
  NoSession = NoSession
  Settings = Settings
  Fns = {f1}
  SketchFns = {}
  Ops = {"open", "subscribe", "read", "end"}
  Big = {"read"}
  Turn = 6
  Entries = 3
  MaxInflight = 2
  OpenAlone = FALSE
  Lease = 2
  ClockTurn = 7
  MaxGap = 1
  MaxOp = 1
  Numbers = {1, 2, 3, 5, 7}
  MaxQueue = 1
  MaxRestarts = 0
SPECIFICATION Spec
INVARIANTS
  RecordServes
PROPERTIES
  LeaseIsKept
  NoSessionHoldsForEver
CHECK_DEADLOCK FALSE
