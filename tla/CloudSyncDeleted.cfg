CONSTANTS
  Calls = {k1, k2}
  Contents = {empty, a}
  Empty = empty
  NoRows = {empty}
  WithNulls = {}
  NoCopy = nocopy
  Faulty = FALSE
SPECIFICATION Spec
PROPERTY
  DeletedIsDeleted
