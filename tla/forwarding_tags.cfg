\* An untagged frame flooded to a port that takes its VLAN tagged.
SPECIFICATION Spec
CONSTANTS
  MaxPorts = 3
  Vlans <- MCVlans
  Endpoints = {e1, e2}
  Macs = {m1}
  AnyUser = AnyUser
  Root = Root
  Users <- MCAnyUserOnly
  AnyGroup = AnyGroup
  Groups <- MCAnyGroupOnly
  Member = {}
  Modules = {datasock}
  NULL = NULL
  u1 = u1
  u2 = u2
  g1 = g1
SYMMETRY Symmetry
INVARIANTS
  FloodAddsTag
CHECK_DEADLOCK FALSE
