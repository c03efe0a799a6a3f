SPECIFICATION AppendSpec
CONSTANTS
  Thread = {t1, t2}
  Main = t1
  Idle = idle
  Prio = {0}
  WaitQ = {wait_q}
  ObjectQ = wait_q
  Item = {i1, i2, i3}
  NoData = null
  MaxItems = 2
  SliceTicks = 0
  SlicePrio = 0
  MaxLock = 0
  SuspendedOnly = TRUE
PROPERTY QueueKeepsItems
