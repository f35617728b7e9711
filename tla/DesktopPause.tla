---------------------------- MODULE DesktopPause ----------------------------
(***************************************************************************)
(* DesktopAppPause in agents/lifecycle.rs: a desktop agent is closed while *)
(* its configuration is switched or restored, and opened again however the *)
(* operation ends.  The user may start and quit it meanwhile, it may take  *)
(* its time to exit or refuse to, and each call of the operating system    *)
(* may fail.  The change itself, with its undoing, is one step here: see   *)
(* AgentSwitch and ImaBinding.                                             *)
(***************************************************************************)
EXTENDS Naturals

CONSTANTS
  Hosts,        \* agents, each on a platform
  MaxSwitches,  \* bound on the changes of the configuration
  MaxUser,      \* bound on what the user does with the application
  MaxFaults     \* bound on what fails

VARIABLES
  host,
  app,     \* the application: closed, running or leaving; its process; what it has read
  config,  \* the configuration, counted
  call,    \* the operation under way, or the last one
  spent    \* what the user did and what failed so far, for the bounds

vars == <<host, app, config, call, spent>>

Fresh ==
  [at |-> "idle", pid |-> 0, held |-> FALSE, was |-> FALSE, alone |-> TRUE, stop |-> "ok",
   launch |-> "none", result |-> "none", restart |-> FALSE]

Alive == app.at # "closed"
Started == [at |-> "running", pid |-> app.pid + 1, reads |-> config]

\* The process that was told to go is still there.
Remains == Alive /\ app.pid = call.pid

OnDesktop == host.agent # "command"

Spends(kind) ==
  /\ spent[kind] < [fault |-> MaxFaults, user |-> MaxUser][kind]
  /\ spent' = [spent EXCEPT ![kind] = @ + 1]

Init ==
  /\ host \in Hosts
  /\ app \in [at : {"closed", "running"}, pid : {0}, reads : {0}]
  /\ host.agent = "command" => app.at = "closed"
  /\ config = 0
  /\ call = Fresh
  /\ spent = [fault |-> 0, user |-> 0]

-----------------------------------------------------------------------------
(* pause_for_config_update *)

Begin ==
  /\ call.at \in {"idle", "over"} /\ config < MaxSwitches
  /\ call' = [Fresh EXCEPT !.at = "scan"]
  /\ UNCHANGED <<host, app, config, spent>>

Holds(was) == call' = [call EXCEPT !.at = "write", !.held = TRUE, !.was = was]

\* An agent that cannot be stopped is changed as it runs, except ima.
StopFails ==
  call' = IF host.agent = "ima"
            THEN [call EXCEPT !.at = "over", !.stop = "failed", !.result = "failed"]
            ELSE [call EXCEPT !.at = "write", !.stop = "failed"]

\* A command line tool is never stopped; of an application, the processes.
Scan ==
  /\ call.at = "scan"
  /\ \/ ~(OnDesktop /\ Alive) /\ Holds(FALSE) /\ UNCHANGED spent
     \/ OnDesktop /\ Alive /\ call' = [call EXCEPT !.at = "quit", !.pid = app.pid] /\ UNCHANGED spent
     \/ OnDesktop /\ StopFails /\ Spends("fault")
  /\ UNCHANGED <<host, app, config>>

\* SIGTERM, an Apple event, WM_CLOSE or the Restart Manager: the application may
\* take it for a wish.
Quit ==
  /\ call.at = "quit"
  /\ app' \in {app} \cup (IF Remains THEN {[app EXCEPT !.at = "leaving"]} ELSE {})
  /\ \/ call' = [call EXCEPT !.at = "wait"] /\ UNCHANGED spent
     \/ (host.platform = "macos") # (host.agent = "ima")
        /\ StopFails /\ Spends("fault")
  /\ UNCHANGED <<host, config>>

\* On macOS the processes that were told, on Windows all of the application.
Gone ==
  /\ call.at = "wait"
  /\ IF host.platform = "macos" THEN ~Remains ELSE ~Alive
  /\ Holds(TRUE)
  /\ UNCHANGED <<host, app, config, spent>>

\* taskkill /F, on Windows
ForceExit ==
  /\ call.at = "wait" /\ Remains
  /\ host.platform = "windows" /\ host.agent # "ima"
  /\ app' = [app EXCEPT !.at = "closed"]
  /\ UNCHANGED <<host, config, call, spent>>

\* The wait has its limit, after which macOS looks for ima once more; on
\* Windows each look at the processes may fail.
GivesUp ==
  /\ call.at = "wait"
  /\ \/ (IF host.platform = "macos" /\ host.agent # "ima" THEN Remains ELSE Alive) /\ UNCHANGED spent
     \/ host.platform = "windows" /\ Spends("fault")
  /\ StopFails
  /\ UNCHANGED <<host, app, config>>

-----------------------------------------------------------------------------
(* The change, and resume or Drop *)

Write ==
  /\ call.at = "write"
  /\ \/ config' = config + 1 /\ call' = [call EXCEPT !.at = "resume"] /\ UNCHANGED spent
     \/ call' = [call EXCEPT !.at = "drop"] /\ Spends("fault") /\ UNCHANGED config
  /\ UNCHANGED <<host, app>>

\* Whether the user is told to restart the agent: a launch of CodeBuddy that
\* fails is lost, as what apply_restart_outcome says is overwritten.
NeedsRestart(launch) ==
  \/ call.stop = "failed"
  \/ launch = "failed" /\ host.agent # "codebuddy"
  \/ host.agent = "command"

Over(result, launch) ==
  call' = [call EXCEPT !.at = "over", !.result = result, !.launch = launch,
                       !.restart = result = "ok" /\ NeedsRestart(launch)]

\* launch_desktop_app, for an application that ran: one that runs again stays.
Reopens(result) ==
  \/ /\ call.held /\ call.was
     /\ \/ app' = (IF Alive THEN app ELSE Started) /\ Over(result, "ok") /\ UNCHANGED spent
        \/ Over(result, "failed") /\ Spends("fault") /\ UNCHANGED app
  \/ ~(call.held /\ call.was) /\ Over(result, "none") /\ UNCHANGED <<app, spent>>

Resume == call.at = "resume" /\ Reopens("ok") /\ UNCHANGED <<host, config>>

\* Mutant: an operation that fails leaves the application closed.
DropQuietly == call.at = "drop" /\ Over("failed", "none") /\ UNCHANGED <<host, app, config, spent>>

Drop == call.at = "drop" /\ Reopens("failed") /\ UNCHANGED <<host, config>>

-----------------------------------------------------------------------------
(* The application and its user *)

Exits ==
  /\ app.at = "leaving"
  /\ app' = [app EXCEPT !.at = "closed"]
  /\ UNCHANGED <<host, config, call, spent>>

User ==
  /\ OnDesktop /\ Spends("user")
  /\ \/ app.at = "closed" /\ app' = Started
     \/ app.at = "running" /\ app' = [app EXCEPT !.at = "closed"]
  /\ call' = [call EXCEPT !.alone = FALSE]
  /\ UNCHANGED <<host, config>>

Next ==
  Begin \/ Scan \/ Quit \/ Gone \/ ForceExit \/ GivesUp \/ Write \/ Resume \/ Drop \/ Exits \/ User

Spec == Init /\ [][Next]_vars
-----------------------------------------------------------------------------
\* Types of the variables.
TypeOK ==
  /\ host \in Hosts
  /\ app \in [at : {"closed", "running", "leaving"}, pid : Nat, reads : 0 .. config]
  /\ config \in 0 .. MaxSwitches
  /\ call.at \in {"idle", "scan", "quit", "wait", "write", "resume", "drop", "over"}
  /\ call.stop = "failed" => ~call.held

\* If the user leaves the application alone, it is closed for as long as
\* AT-Switch holds it.  After an operation it runs if it ran before, with the
\* configuration of the moment, unless the user is told to restart it, or that
\* the operation failed because it would not stop.  What fails to be opened is
\* told after a switch that succeeds only, and not of CodeBuddy.
AppIsAsTold ==
  call.alone =>
    /\ call.at = "write" /\ call.held => ~Alive
    /\ /\ call.at = "over" /\ ~call.restart
       /\ call.result = "failed" => call.stop = "ok"
       /\ call.launch = "failed" => call.result = "ok" /\ host.agent # "codebuddy"
       => IF call.was THEN app.at = "running" /\ app.reads = config ELSE ~Alive
=============================================================================
