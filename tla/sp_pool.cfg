CONSTANTS
  None = None
  r1 = r1
  r2 = r2
  r3 = r3
  k1 = k1
  k2 = k2
  w1 = w1
  w2 = w2
  w3 = w3
  Requests = {r1, r2, r3}
  Keys = {k1, k2}
  Workers = {w1, w2, w3}
  Native = {k1}
  KeyOf <- MCKeyOf
  Script <- MCScript
  SizeOf <- MCSizeOf
  MaxTotal = 2
  PoolSize = 1
  MaxEntries = 1
  MaxBytes = 2
SPECIFICATION Spec
SYMMETRY Alike
CHECK_DEADLOCK FALSE
INVARIANTS
  SharedAccounts
PROPERTIES
  CutOnlyAfterFailure
