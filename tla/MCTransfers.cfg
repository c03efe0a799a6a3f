SPECIFICATION TransfersSpec
CONSTANTS
  Thread = {t1, t2, t3, a1}
  Main = t1
  Idle = idle
  Prio = {0}
  WaitQ = {tx_q, rx_q, free_q}
  TxQ = tx_q
  RxQ = rx_q
  FreeQ = free_q
  Async = {a1}
  Named = {t1}
  NoThread = null
  Sizes = {0, 2}
  MaxXfer = 2
  Program <- PipePrograms
  Bystander = t1
  SliceTicks = 1
  SlicePrio = 0
  MaxLock = 0
  SuspendedOnly = TRUE
SYMMETRY TransferSymmetry
INVARIANTS
  TransfersTypeOK
  NoPairLeftWaiting
  SenderKept
  ResultsAgree
  AsyncAccounted
  PipeServes
PROPERTY ImplementsStream
