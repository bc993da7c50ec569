CONSTANTS
  Conns = {c1}
  Reqs = {r1, r2}
  Procs = {p1}
  None = none
  FaultKinds = {"bank", "db"}
  MaxFaults = 1
  MaxToken = 2
SPECIFICATION FairSpec
PROPERTIES
  EveryRequestAnswered
