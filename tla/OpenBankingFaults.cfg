CONSTANTS
  Conns = {c1}
  Reqs = {r1, r2}
  Procs = {p1, p2}
  None = none
  FaultKinds = {"bank", "db", "crash"}
  MaxFaults = 2
  MaxToken = 3
SPECIFICATION Spec
SYMMETRY ReqSymmetry
INVARIANTS
  OnlyNewestIsStored
PROPERTIES
  CustodyKept
