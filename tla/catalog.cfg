SPECIFICATION Spec
CONSTANTS
  MaxProviders = 2
  MaxRev = 2
  Urls = {u1, u2}
  Protocols = {chat}
  Keys = {k1, k2}
  Models = {m1, m2}
  Features = {f1}
  Agents = {a1}
  Testers = {t1}
  MaxSaves = 4
  MaxTests = 1
  MaxFaults = 1
  Absent = Absent
  NoKey = NoKey
  Unbound = Unbound
SYMMETRY Interchangeable
INVARIANTS
  TypeOK
  KeyOfEveryProvider
  NoKeyIsLeftBehind
  VerifiedIsTestedUnlessEdited
  VerifyingHasATest
PROPERTIES
  MergeKeepsModels
CHECK_DEADLOCK FALSE
