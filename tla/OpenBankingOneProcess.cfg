CONSTANTS
  Conns = {c1}
  Reqs = {r1, r2, r3}
  Procs = {p1}
  None = none
  FaultKinds = {}
  MaxFaults = 0
  MaxToken = 3
SPECIFICATION Spec
SYMMETRY ReqSymmetry
INVARIANTS
  TypeOK
  OneRefreshPerProcess
  RefusedOnlyWhenGrantEnded
  ActiveHasToken
  SyncedUnderConsent
