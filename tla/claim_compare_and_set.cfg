SPECIFICATION Spec
CHECK_DEADLOCK FALSE
CONSTANTS
  Nil = Nil
  g1 = g1  g2 = g2
  k1 = k1  k2 = k2
  l1 = l1  l2 = l2
  f1 = f1
  old = old  new = new  other = other
  Gateways = {g1}
  Calls = {k1}
  Leases = {l1, l2}
  Paths = {f1}
  Contents = {old, new, other}
  Absent = other
  Requests <- OneCall
  Permitted <- PermittedWrites
  MaxVersion = 4
SYMMETRY Symmetry
PROPERTIES
  WriteIsCompareAndSet
