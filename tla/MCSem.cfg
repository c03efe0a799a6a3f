SPECIFICATION CarefulSemSpec
CONSTANTS
  Thread = {t1, t2, t3}
  Main = t1
  Idle = idle
  Prio <- SemPrio
  WaitQ = {sem}
  Semaphore = sem
  Limit = 2
  NoCall = none
  SliceTicks = 0
  SlicePrio = 0
  MaxLock = 0
  SuspendedOnly = TRUE
INVARIANTS
  SemTypeOK
  WaitQueuesExact
  NoUnitBesideWaiter
PROPERTIES
  ServedInOrder
  ImplementsSemaphore
