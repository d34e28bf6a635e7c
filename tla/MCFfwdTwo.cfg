SPECIFICATION Spec
CONSTANTS
  c1 = c1
  c2 = c2
  x = x
  y = y
  None = None
  Clients <- ClientPair
  Servers = {0, 1}
  NChips = 2
  NCLIENTS = 2
  ChipOf <- FarChip
  IdOf <- FarId
  Fns = {"increment"}
  Vars = {x, y}
  Vals <- MCVals
  InitVal = 0
  Apply <- MCApply
  ServerOf <- TwoServers
  MaxOps = 2
INVARIANTS
  NoneStranded
  NoLostIncrement
