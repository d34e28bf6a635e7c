SPECIFICATION FairSpec
CONSTANTS
  t1 = t1
  t2 = t2
  t3 = t3
  Dummy = Dummy
  None = None
INVARIANTS
  QueueInv
  Exclusion
  NoFreedAccess
  BoundedPasses
  NotAbandoned
  TotalZero
  BankEnds
PROPERTIES
  Fifo
  Granted
