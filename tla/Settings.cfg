SPECIFICATION Spec
CONSTANTS
  Channels = {0, 1}
  InputOnly = {1}
  Words = {"x"}
  Modes = {"low"}
  Uarts <- OneUart
  Ports = {0}
  InitialItems <- FirstDisable
  OldSaves <- OldAll
  MaxItems = 2
  MaxBlob = 2
  LastGeneration = 3
  MaxAsk = 2
  PageSize = 1
INVARIANTS
  AppliedMeansKept
  FreeRests
  ValuesReadWell
PROPERTIES
  BootGivesASave
