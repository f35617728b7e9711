SPECIFICATION Spec
CONSTANTS
  MaxProviders = 1
  MaxRev = 2
  Urls = {u1}
  Protocols = {chat}
  Keys = {k1, k2}
  Models = {m1, m2}
  Features = {f1, f2}
  Agents = {}
  Testers = {t1}
  MaxSaves = 2
  MaxTests = 1
  MaxFaults = 0
  Absent = Absent
  NoKey = NoKey
  Unbound = Unbound
SYMMETRY Interchangeable
INVARIANTS
  VerifiedIsTested
CHECK_DEADLOCK FALSE
