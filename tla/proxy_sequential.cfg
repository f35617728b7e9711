\* One user who waits for each command, and quits from the tray the same way.
SPECIFICATION Spec
CONSTANTS
  Togglers = {user}
  Editors = {user}
  Quitters = {user}
  Ports = {p1, p2}
  Listeners = {l1, l2}
  MaxConns = 2
  MayFail = FALSE
  None = None
INVARIANTS
  SocketsMatchStatus
  OnSavedPort
PROPERTIES
  PortChangesAtRest
  ImplementsEndpoint
CHECK_DEADLOCK FALSE
