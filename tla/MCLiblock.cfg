SPECIFICATION FairSpec
CONSTANTS
  None = None
  Parts = {"rcl", "rcl_proof", "list", "ordered", "cond", "timed", "posix", "ids"}
  ServicingThreads = {"s1"}
INVARIANTS
  PartInv
  Listed
  Sorted
  OnePlace
  UniqueIds
  FreeOrHeld
PROPERTIES
  Linearizable
  OperationEnds
  ManagerSleeps
  TestWaitEnds
