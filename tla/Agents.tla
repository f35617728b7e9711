------------------------------- MODULE Agents -------------------------------
(***************************************************************************)
(* The agents behind their adapters: TRAE and ima, which are reached       *)
(* through a service, those that keep their models in files, and any that  *)
(* is closed for an operation.  They share the table of bindings and the   *)
(* checkpoint store, which keep them by agent, and operations on the       *)
(* services exclude each other: a behaviour is that of one agent.          *)
(***************************************************************************)
EXTENDS ImaTypes

CONSTANTS
  Acting,                                                                     \* the kinds of agents
  Primary, Extras, Bases, MaxKey, Tasks, Copies, NoTask,                      \* of TRAE
  Kinds, Providers, Mine, Scopes, Threads,                                    \* of those with files
  AtSwitch, Built, Alias, Usual, Bare, NoName, Automatic, Unset, Absent,
  Hosts,                                                                      \* of applications
  MaxCalls, MaxCrashes, MaxUser, TraeFaults, TraeEvents, ImaFaults, ImaEvents, \* the bounds
  FileSteps, AppSwitches, AppUser, AppFaults

VARIABLES
  acting,                              \* the agent: "trae", "ima" or "file", or "app"
  saved, binding, op, native, spent,   \* its
  trae, past, key,                     \* TRAE's
  account, file,                       \* ima's
  kind, doc, base, memory, user, said, \* those of an agent with files
  host, app, config, call              \* those of an application

traeVars == <<trae, past, key>>
imaVars == <<account, file>>
serviceVars == <<saved, op, native>>
fileVars == <<kind, doc, base, memory, user, said>>
appVars == <<host, app, config, call>>
vars == <<acting, binding, spent, serviceVars, traeVars, imaVars, fileVars, appVars>>

\* TraeSwitch and ImaBinding, each with what is proved about it.
Trae == INSTANCE TraeSwitch_proofs WITH MaxFaults <- TraeFaults, MaxEvents <- TraeEvents
Ima == INSTANCE ImaBinding_proofs WITH MaxFaults <- ImaFaults, MaxEvents <- ImaEvents
Files == INSTANCE AgentFiles WITH MaxSteps <- FileSteps
App == INSTANCE DesktopPause WITH MaxSwitches <- AppSwitches, MaxUser <- AppUser, MaxFaults <- AppFaults

\* What TRAE and the files of an agent take for granted; the changes are counted.
ASSUME AgentsAssumption ==
  /\ Acting \subseteq {"trae", "ima", "file", "app"}
  /\ Trae!Assumptions /\ Files!Assumptions
  /\ AppSwitches \in Nat

NoTrae == trae = None /\ past = None /\ key = None
NoIma == account = None /\ file = None
NoService == saved = None /\ op = None /\ native = None
NoFile == kind = None /\ doc = None /\ base = None /\ memory = None /\ user = None /\ said = None
NoApp == host = None /\ app = None /\ config = None /\ call = None

Init ==
  /\ acting \in Acting
  /\ acting = "trae" => Trae!Init /\ NoIma /\ NoFile /\ NoApp
  /\ acting = "ima" => Ima!Init /\ NoTrae /\ NoFile /\ NoApp
  /\ acting = "file" => Files!Init /\ NoService /\ NoTrae /\ NoIma /\ NoApp
  /\ acting = "app" => App!Init /\ binding = None /\ NoService /\ NoTrae /\ NoIma /\ NoFile

TraeNext == acting = "trae" /\ Trae!Next /\ UNCHANGED <<acting, imaVars, fileVars, appVars>>
ImaNext == acting = "ima" /\ Ima!Next /\ UNCHANGED <<acting, traeVars, fileVars, appVars>>
FileNext == acting = "file" /\ Files!Next /\ UNCHANGED <<acting, serviceVars, traeVars, imaVars, appVars>>
AppNext == acting = "app" /\ App!Next /\ UNCHANGED <<acting, binding, serviceVars, traeVars, imaVars, fileVars>>
Next == TraeNext \/ ImaNext \/ FileNext \/ AppNext

Spec == Init /\ [][Next]_vars

\* The types of the agent's variables.
TypeOK ==
  CASE acting = "trae" -> Trae!TypeOK
    [] acting = "ima" -> Ima!TypeOK
    [] acting = "file" -> Files!TypeOK
    [] acting = "app" -> App!TypeOK

\* A failed operation on TRAE or ima is undone, or what is left to undo is on
\* record: TRAE's checkpoint, ima's journal.
FailedIsCompensated ==
  /\ acting = "trae" => Trae!FailedSwitchIsCompensated
  /\ acting = "ima" => Ima!FailedIsCompensated

\* A finished restore has brought back what was selected before the takeover.
RestoreReturnsNative ==
  /\ acting = "trae" => Trae!RestoreReturnsNative
  /\ acting = "ima" => Ima!RestoreReturnsNative
  /\ acting = "file" => Files!RestoreReturnsNative

\* What a healthy binding of TRAE or a finished switch of a file names is
\* served as the binding says.
SwitchIsServed ==
  /\ acting = "trae" => Trae!VerifiedIsServed
  /\ acting = "file" => Files!SwitchIsServed

\* AT-Switch's rows in TRAE are on record, so that none but those is deleted;
\* the user's entries in a file stay.
UsersEntriesStay ==
  /\ acting = "trae" => Trae!OnRecord
  /\ acting = "file" => Files!UsersEntriesStay

\* AT-Switch leaves the user's models in ima alone.
UsersRowsStay == [][acting = "ima" => Ima!RowsStay]_vars

\* An application that was closed for a switch is as the user is told.
AppIsAsTold == acting = "app" => App!AppIsAsTold

\* The health check agrees with a switch that nobody has touched since.
SwitchedIsHealthy == acting = "file" => Files!SwitchedIsHealthy
=============================================================================
