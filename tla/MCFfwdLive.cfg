SPECIFICATION FairBypassSpec
CONSTANTS
  c1 = c1
  c2 = c2
  x = x
  y = y
  None = None
  Clients <- ClientPair
  Servers = {0}
  NChips = 1
  NCLIENTS = 2
  ChipOf <- PairChip
  IdOf <- SplitId
  Fns = {"increment"}
  Vars = {x}
  Vals <- MCVals
  InitVal = 0
  Apply <- MCApply
  ServerOf <- OneServer
  MaxOps = 3
INVARIANT
  NoDoubleOvertaking
PROPERTIES
  Answered
  Terminates
