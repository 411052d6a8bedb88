SPECIFICATION AllSpec
CONSTANTS
  Drivers = {1, 2}
  Listeners = {3}
  Analogs = {4}
  Channels = {a, b}
  Wire = wire
  NoOne = noone
  MaxRoles = 3
  MaxAsk = 2
  Resubmits = FALSE
  OverDisabled = FALSE
  Moving = {"plan", "stream", "uart", "memo", "serial", "length", "mail"}
  none = none
  Bytes = {0, 1}
  Capacity = 2
  MarksKept = 2
  Serials = 4
  Page = 1
  MaxBytes = 3
  MaxMarks = 5
  Chunks = {1, 2}
  QueueLength = 2
  Losses = 1
  Pending = 4
  Every = 2
  MaxLosses = 1
  Mechanisms = {"sdi", "dmdata", "dmseq"}
  Frames <- Talk
  Input <- HostTypes
  Misses = 1
  Names = {"a", "b", "c"}
  Hash <- MemoHash
  Slots = 2
  MaxObjects = 2
  Contents <- MemoContents
  Parts <- MemoParts
SYMMETRY Sym
INVARIANTS
  PlanAgrees
  HostKnowsTheStream
  LossMarked
  MailboxKept
  ObjectsKept
PROPERTIES
  NeverBlinks
  PlansKept
  LineIsRead
  FrameIsGot
