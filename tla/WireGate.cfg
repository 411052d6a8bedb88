CONSTANTS
  Tasks = {t1, t2}
  NoTask = NoTask
  Kinds = {"immediate", "clocked", "search"}
  Repeats = {TRUE, FALSE}
  Segments = 2
  MaxCompleted = 2
  MaxFrame = 2
  Moving = {"gate", "tasks", "bulk", "guard"}
  Stages = {1}
  Sizes = {1}
  Space = 2
  Packet = 2
  Queue = 6
  MaxFrames = 3
  Chips = {"esp", "rp2"}
  SafeAfter = 3
  CountMax = 4
  Stable = 4
  UsbSettle = 1
  Grace = 3
SPECIFICATION AllSpec
INVARIANTS
  OnlyOvertakenIsLeft
  FramesGoOnce
  SafeBoots
  NoReadMeetsFrame
  ImmediateWindowHasNoFrame
PROPERTIES
  SegmentsKept
  RequestsEnd
  GivenBack
  AttachComes
  FrameGoes
  RequestGetsTheWire
