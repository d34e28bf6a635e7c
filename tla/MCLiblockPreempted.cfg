SPECIFICATION FairSpec
CONSTANTS
  None = None
  Parts = {"rcl"}
  ServicingThreads = {"s1", "s2"}
PROPERTY
  Linearizable
