SPECIFICATION Spec
CONSTANTS
  a1 = a1
  a2 = a2
  Agents = {a1}
  Providers = {p1, p2}
  Tokens = {t1, t2, t3}
  Kind <- Sidecar
  MaxRev = 1
  Mishaps <- OneFault
  EarlySnapshot = FALSE
  Native = Native
  NoToken = NoToken
  NoRoute = NoRoute
  Unbound = Unbound
  Forgotten = Forgotten
SYMMETRY Interchangeable
INVARIANTS
  FailedSwitchChangesNothing
