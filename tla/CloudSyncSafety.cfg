CONSTANTS
  Calls = {k1, k2}
  Contents = {empty, a}
  Empty = empty
  NoRows = {empty}
  WithNulls = {}
  NoCopy = nocopy
  Faulty = TRUE
SPECIFICATION Spec
SYMMETRY CallSymmetry
INVARIANTS
  TypeOK
  StoredUnderConsent
PROPERTIES
  CheckKeepsRows
