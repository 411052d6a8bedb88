SPECIFICATION FairSpec
CONSTANTS
  N = 2
  Bridges = {2}
  Base = 1
  Bauds = {2}
  Verify = 1
  Idle = 1
  Gap = 1
  Room = 1
  MaxTerms = 2
INVARIANTS
  RaisedBySession
  LeavesAtItsSpeed
PROPERTIES
  TryEnds
