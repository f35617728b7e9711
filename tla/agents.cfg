SPECIFICATION Spec
CONSTANTS
  Acting = {"trae", "ima", "file", "app"}
  Primary = agent
  ide = ide
  Extras <- OneExtra
  Bases = {b1, b2}
  MaxKey = 2
  Tasks = {t1, t2}
  Copies = 3
  Automatic = Automatic
  NoTask = NoTask
  Unset = Unset
  Inputs = {m1, m2}
  MaxId = 4
  Official = Official
  Empty = Empty
  Kinds = {"codex", "openclaw", "autoclaw", "workbuddy", "codebuddy", "zcode", "hermes", "dumate", "aionclaw"}
  Providers <- Bindings
  Mine <- OwnModels
  Scopes = {"s1", "s2"}
  Threads = {"s2"}
  AtSwitch = AtSwitch
  Built = Built
  Alias = Alias
  Usual = Usual
  Bare = Bare
  NoName = NoName
  Absent = Absent
  Hosts <- Machines
  MaxCalls = 3
  MaxCrashes = 1
  MaxUser = 2
  TraeFaults = 2
  TraeEvents = 2
  ImaFaults = 1
  ImaEvents = 2
  FileSteps = 5
  AppSwitches = 2
  AppUser = 2
  AppFaults = 2
  None = None
SYMMETRY Symmetry
INVARIANTS
  TypeOK
  FailedIsCompensated
  RestoreReturnsNative
  SwitchIsServed
  UsersEntriesStay
  AppIsAsTold
PROPERTIES
  UsersRowsStay
CHECK_DEADLOCK FALSE
