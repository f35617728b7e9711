SPECIFICATION Spec
CONSTANTS
  a1 = a1
  p1 = p1
  p2 = p2
  n1 = n1
  m1 = m1
  Callers = {c1, c2}
  Agents = {a1}
  Paths = {p1, p2}
  Native = {n1}
  Managed = {m1}
  Keys = {k1, k2}
  Vault = TRUE
  Histories <- Installations
  MaxArchive = 4
  Absent = Absent
  NoKey = NoKey
  Unloaded = Unloaded
SYMMETRY Interchangeable
INVARIANTS
  TypeOK
  BaselineIsNative
  ManagedIsRecoverable
  RollbackStaysPossible
