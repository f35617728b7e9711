SPECIFICATION Spec
CONSTANTS
  a1 = a1
  a2 = a2
  Agents = {a1}
  Providers = {p1, p2}
  Tokens = {t1, t2, t3}
  Kind <- Plain
  MaxRev = 2
  Mishaps <- OneCrash
  EarlySnapshot = TRUE
  Native = Native
  NoToken = NoToken
  NoRoute = NoRoute
  Unbound = Unbound
  Forgotten = Forgotten
SYMMETRY Interchangeable
INVARIANTS
  RouteServesBinding
