SPECIFICATION CarefulPollSpec
CONSTANTS
  Thread = {t1, t2}
  Main = t1
  Idle = idle
  Prio <- PollPrio
  WaitQ = {wait_q}
  PollQ = wait_q
  Poller = {t1}
  Polled = {o1, o2}
  Null = null
  SliceTicks = 0
  SlicePrio = 0
  MaxLock = 0
  SuspendedOnly = TRUE
INVARIANTS
  PollTypeOK
  WaitersListed
  NothingLeftBehind
  NoMissedCondition
  SuccessHasEvent
