SPECIFICATION Spec
CONSTANTS
  c1 = c1
  c2 = c2
  x = x
  y = y
  None = None
  Clients <- ClientPair
  Servers = {0}
  NChips = 1
  NCLIENTS = 2
  ChipOf <- PairChip
  IdOf <- PairId
  Fns = {"increment", "get"}
  Vars = {x, y}
  Vals <- MCVals
  InitVal = 0
  Apply <- MCApply
  ServerOf <- Shared
  MaxOps = 2
INVARIANTS
  ChannelInv
  NoTornRequest
  ReturnIsMine
PROPERTY
  Linearizable
