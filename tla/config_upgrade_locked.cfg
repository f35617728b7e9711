SPECIFICATION Spec
CONSTANTS
  a1 = a1
  p1 = p1
  p2 = p2
  n1 = n1
  m1 = m1
  Callers = {c1}
  Agents = {a1}
  Paths = {p1}
  Native = {n1}
  Managed = {m1}
  Keys = {k1}
  Vault = TRUE
  Histories <- UpgradeWhileLocked
  MaxArchive = 5
  Absent = Absent
  NoKey = NoKey
  Unloaded = Unloaded
INVARIANTS
  BaselineIsNative
