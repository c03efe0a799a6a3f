SPECIFICATION CarefulObjectsSpec
CONSTANTS
  Thread = {t1, t2, t3}
  Main = t1
  Idle = idle
  Prio <- ObjectPrio
  WaitQ = {wait_q}
  ObjectQ = wait_q
  Item = {i1, i2, i3}
  NoData = null
  MaxItems = 2
  SliceTicks = 0
  SlicePrio = 0
  MaxLock = 0
  SuspendedOnly = TRUE
SYMMETRY ObjectSymmetry
INVARIANTS
  ObjectsTypeOK
  WaitersAgree
PROPERTIES
  ImplementsChannel
  QueueKeepsItems
