CONSTANTS
  Tasks = {t1, t2, t3}
  NoTask = NoTask
  Kinds = {"search"}
  Repeats = {TRUE}
  Segments = 2
  MaxCompleted = 2
SPECIFICATION CaptureSpec
INVARIANTS
  NoRunIsLeft
