\* Which entry a granted request tells its endpoint to.
SPECIFICATION Spec
CONSTANTS
  Fds = {f1, f2, f3, f4}
  Endpoints = {x1, x2}
  CtlFd = CtlFd
  INVALID_SOCKET = INVALID_SOCKET
  MgmtFd = MgmtFd
  MaxLeaked = 1
  MaxClients = 2
  MaxMgmt = 1
  Standing <- MCStanding
  Types <- MCTypes
  Prio <- MCPrio
  Reads <- MCReads
  NULL = NULL
SYMMETRY Symmetry
PROPERTIES
  GrantFindsConnection
CHECK_DEADLOCK FALSE
