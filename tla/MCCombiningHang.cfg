SPECIFICATION Spec
CONSTANTS
  t1 = t1
  t2 = t2
  t3 = t3
  k0 = k0
  k1 = k1
  v = v
  w = w
  inc = inc
  dbl = dbl
  Dummy = Dummy
  None = None
  Algs = {"dsmsynch_liblock"}
  LiblockCalls = 3
SYMMETRY Arguments
INVARIANT
  NoCallStuck
