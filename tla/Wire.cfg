SPECIFICATION WireSpec
CONSTANTS
  Pins = {"a", "b"}
  Pairs = {{"a"}, {"b"}}
  IdlePins = {"a"}
  Passes = {{"a"}}
  LostTime = 1
  LastNumber = 3
  LiveRoom = 2
INVARIANTS
  NothingLeaks
  StreamIsItsConnections
PROPERTIES
  LostMeansSilent
