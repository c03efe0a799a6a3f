SPECIFICATION CarefulMutexSpec
CONSTANTS
  Thread = {t1, t2, t3}
  Main = t1
  Idle = idle
  Prio <- MutexPrio
  WaitQ = {mutex1}
  MutexQ = mutex1
  User <- UniformUsers
  Bystander = t3
  NoThread = null
  Ceiling = 0
  MaxCount = 2
  TimedWaits <- Uniform
  SliceTicks = 0
  SlicePrio = 0
  MaxLock = 0
  SuspendedOnly = TRUE
INVARIANTS
  MutexTypeOK
  MutualExclusion
  WaiterHasOwner
  OwnerInherits
  PriorityRestored
