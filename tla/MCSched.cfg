SPECIFICATION CarefulSpec
CONSTANTS
  Thread = {t1, t2, t3}
  Main = t1
  Idle = idle
  Prio <- SchedPrio
  WaitQ = {}
  SliceTicks = 2
  SlicePrio = 0
  MaxLock = 2
  SuspendedOnly = TRUE
SYMMETRY Symmetry
INVARIANTS
  TypeOK
  RunQueueExact
  BestThreadRuns
  DeadOffQueues
PROPERTIES
  NonPreemptibleKeepsCpu
