SPECIFICATION Spec
CONSTANTS
  n1 = n1
  n2 = n2
  w1 = w1
  d1 = d1
  d2 = d2
  Node = {n1, n2}
  Workload = {w1}
  Data = {d1, d2}
  Contents <- OneWorkload
  NoData = NoData
  NoDl = NoDl
  NoNode = NoNode
  MaxContracts = 3
  MaxVersion = 1
  RevertOnFailure = TRUE
SYMMETRY Symmetric
INVARIANTS
  Bookkeeping
  NoOrphanedContract
  TargetReached
PROPERTIES
  UpdatedInPlace
  KeepsLedger
