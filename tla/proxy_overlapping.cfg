\* Two calls at once: each starts or stops, one also edits the port and quits.
SPECIFICATION FairSpec
CONSTANTS
  Togglers = {a, b}
  Editors = {b}
  Quitters = {b}
  Ports = {p1}
  Listeners = {l1, l2, l3}
  MaxConns = 1
  MayFail = TRUE
  None = None
INVARIANTS
  TypeOK
  ListenersAreHeld
PROPERTIES
  NothingHangs
CHECK_DEADLOCK FALSE
