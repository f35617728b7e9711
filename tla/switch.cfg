SPECIFICATION Spec
CONSTANTS
  a1 = a1
  a2 = a2
  Agents = {a1, a2}
  Providers = {p1, p2}
  Tokens = {t1, t2, t3, t4}
  Kind <- PlainAndSession
  MaxRev = 2
  Mishaps <- FewMishaps
  EarlySnapshot = FALSE
  Native = Native
  NoToken = NoToken
  NoRoute = NoRoute
  Unbound = Unbound
  Forgotten = Forgotten
SYMMETRY Interchangeable
INVARIANTS
  TypeOK
  FailedSwitchChangesNothing
  RoutesMatchBindings
  BindingMatchesFile
  RestoreReturnsNative
  BoundProvidersExist
PROPERTIES
  DeletionRestoresUnboundAgents
