SPECIFICATION SetupSpec
CONSTANTS
  Parts = {"lifecycle"}
  Machines <- Tested
  Builds = {FALSE}
  MAX_SOCK = 4
  INDEX_DIFF = 2
  Spare = 0
  MAX_NUM_OF_SERVERS = 2
  Clients = {c1, c2, c3}
INVARIANT
  MemoryFreed
