\* Access control and sharing: port 1, VLAN 0, three endpoints, three users, a group.
SPECIFICATION Spec
CONSTANTS
  MaxPorts = 2
  Vlans <- MCVlan0
  Endpoints = {e1, e2, e3}
  Macs = {}
  AnyUser = AnyUser
  Root = Root
  Users <- MCUsers
  AnyGroup = AnyGroup
  Groups <- MCGroups
  Member <- MCMember
  Modules = {datasock, tuntap}
  NULL = NULL
  u1 = u1
  u2 = u2
  g1 = g1
SYMMETRY Symmetry
INVARIANTS
  SharedByOneUser
  ActiveHasModule
PROPERTIES
  OpenedByAdmitted
CHECK_DEADLOCK FALSE
