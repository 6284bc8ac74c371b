\* Operators of deployments, and editors of the catalogue.
CONSTANTS
  t1 = t1  t2 = t2  s1 = s1
  w1 = w1  w2 = w2
  sk = sk  sk2 = sk2  ex = ex
  None = None
  Nothing = None
  Rows = {t1, t2, s1}
  Kind <- Kinds
  Root <- Roots
  Package <- Packages
  Keys = {"k"}
  Published = {3}
  Operators = {w1, w2}
  Objects = {sk, sk2, ex}
  Type <- MCType
  Key <- MCKey
  Limit <- MCLimit
  Edited = {sk}
  Editors = {w1, w2}
  MaxRevs = 2
SPECIFICATION MCSpec
SYMMETRY Alike
INVARIANTS OneActive HistoryInOrder 
PROPERTY DeactivationStops
\* The catalogue is full when every revision has been released.
CHECK_DEADLOCK FALSE
