SPECIFICATION SliceSpec
CONSTANTS
  Thread = {t1, t2, t3}
  Main = t1
  Idle = idle
  Prio <- SlicePrios
  WaitQ = {}
  SliceTicks = 2
  SlicePrio = 0
  MaxLock = 0
  SuspendedOnly = TRUE
PROPERTY SliceIsFair
