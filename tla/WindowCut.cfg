CONSTANTS
  Tasks = {t1, t2}
  NoTask = NoTask
  Kinds = {"clocked"}
  Repeats = {FALSE}
  Segments = 1
  MaxCompleted = 1
SPECIFICATION CaptureSpec
PROPERTIES
  WindowsAreKept
