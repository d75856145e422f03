\* What a lookup returns for a learned address.
SPECIFICATION Spec
CONSTANTS
  k1 = k1
  k2 = k2
  k3 = k3
  Keys <- MCKeys
  HashOf <- MCHashOf
  Ports = {1, 2}
  Cells = {c1, c2, c3}
  Sizes = {1, 2, 3}
  MaxBits = 2
  MaxAge = 2
  Persistences <- MCPersistences
  NULL = NULL
SYMMETRY Symmetry
INVARIANTS
  LookupFindsLearned
CHECK_DEADLOCK FALSE
