\* Three addresses, in one bucket, in two or in four (3 is rounded to 4).
SPECIFICATION Spec
CONSTANTS
  k1 = k1
  k2 = k2
  k3 = k3
  Keys <- MCKeys
  HashOf <- MCHashOf
  Ports = {1, 2}
  Cells = {c1, c2, c3}
  Sizes = {1, 2, 3}
  MaxBits = 2
  MaxAge = 2
  Persistences <- MCPersistences
  NULL = NULL
SYMMETRY Symmetry
INVARIANTS
  TypeOK
  WellLinked
  OneEntryPerAddress
PROPERTIES
  ImplementsMap
CHECK_DEADLOCK FALSE
