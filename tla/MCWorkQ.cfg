SPECIFICATION CarefulWorkQSpec
CONSTANTS
  Work = {w1, d1, d2, alert}
  Delayed = {d1, d2}
  AlertWork = alert
  NoWork = null
  MaxSent = 2
  MaxPending = 1
INVARIANTS
  WorkQTypeOK
  PendingExact
  CancelIsFinal
  AlertIsServed
PROPERTY SubmittedIsRun
