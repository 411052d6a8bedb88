\* two hosts over one lock: force, lapse, restart, power loss, plans of both and of the sketch
CONSTANTS
  Sessions = {s1, s2}
  NoSession = NoSession
  Settings = Settings
  Fns = {f1}
  SketchFns = {f1}
  Ops = {"force", "plan_apply", "restart"}
  Big = {}
  Turn = 8
  Entries = 1
  MaxInflight = 1
  OpenAlone = TRUE
  Lease = 1
  ClockTurn = 5
  MaxGap = 1
  MaxOp = 0
  Numbers = {1, 2}
  MaxQueue = 1
  MaxRestarts = 1
SPECIFICATION Spec
SYMMETRY Symmetry
INVARIANTS
  NothingOutlivesItsSession
  AtMostOnce
PROPERTIES
  LockSteps
CHECK_DEADLOCK FALSE
