-------------------------- MODULE ProxySupervisor --------------------------
(***************************************************************************)
(* The life cycle of the local proxy: ProxySupervisor in                   *)
(* src/src-tauri/src/proxy/server.rs together with the three commands and  *)
(* the tray entry that drive it.  The supervisor keeps one record behind   *)
(* an async mutex; start, stop and the serve task each take the mutex      *)
(* several times and let go of it while they bind, join or serve, so every *)
(* critical section is an action of its own.                               *)
(***************************************************************************)
EXTENDS Naturals, FiniteSets

CONSTANTS
  Togglers,    \* in-flight slots for the commands start_proxy and stop_proxy
  Editors,     \* in-flight slots for the command update_proxy_port
  Quitters,    \* in-flight slots for the tray entry "quit"
  Ports,       \* the ports a user picks from
  Listeners,   \* identities for bound sockets and the task serving each
  MaxConns,    \* bound on the open connections of a listener
  MayFail,     \* TRUE: axum::serve may return an error on its own
  None         \* Option::None

Callers == Togglers \cup Editors \cup Quitters

ASSUME RolesAssumption == None \notin Callers
ASSUME PortsAssumption == Ports # {} /\ None \notin Ports
ASSUME ListenersAssumption == None \notin Listeners
ASSUME MaxConnsAssumption == MaxConns \in Nat
ASSUME MayFailAssumption == MayFail \in BOOLEAN

VARIABLES
  runtime,     \* the record behind ProxySupervisor.runtime
  savedPort,   \* the proxy port in the database
  phase,       \* what the serve task of each listener is doing
  boundTo,     \* the port of each listener
  signalled,   \* listeners whose shutdown sender has been used or dropped
  conns,       \* open connections of each listener
  pc,          \* where each caller is
  arg,         \* the port a caller is starting on, or saving
  previous,    \* the port update_proxy_port puts back when saving fails
  joining,     \* the listener a start has bound, or the task a stop joins
  quitting,    \* callers whose stop() belongs to "quit"
  exited       \* app.exit(0) has run

vars == <<runtime, savedPort, phase, boundTo, signalled, conns,
          pc, arg, previous, joining, quitting, exited>>

callVars == <<pc, arg, previous, joining, quitting>>
listenerVars == <<phase, boundTo, signalled, conns>>

Statuses == {"Stopped", "Starting", "Running", "Draining", "Error"}
Phases == {"gone", "serving", "draining", "drained", "failed"}
Locations == {"idle", "start", "bind", "publish", "stop", "join",
              "quit", "set", "save", "undo"}

\* The socket is open: connections are accepted and the port is taken.
Accepting(l) == phase[l] = "serving"
\* The task of the listener has not ended.
Live(l) == phase[l] # "gone"
Handles == Listeners \cup {None}
Referenced(l) == \/ l \in {runtime.shutdown, runtime.task}
                 \/ \E c \in Callers : joining[c] = l

Init ==
  /\ \E p \in Ports :
       /\ savedPort = p
       /\ runtime = [status |-> "Stopped", port |-> p,
                     shutdown |-> None, task |-> None]
       /\ arg = [c \in Callers |-> p]
       /\ previous = [c \in Callers |-> p]
       /\ boundTo = [l \in Listeners |-> p]
  /\ phase = [l \in Listeners |-> "gone"]
  /\ signalled = {}
  /\ conns = [l \in Listeners |-> 0]
  /\ pc = [c \in Callers |-> "idle"]
  /\ joining = [c \in Callers |-> None]
  /\ quitting = {}
  /\ exited = FALSE

Goto(c, from, to) == pc[c] = from /\ pc' = [pc EXCEPT ![c] = to]

-----------------------------------------------------------------------------
(* start_proxy *)

\* The command reads the port from the database before it calls start().
CallStart(c) ==
  /\ c \in Togglers
  /\ Goto(c, "idle", "start")
  /\ arg' = [arg EXCEPT ![c] = savedPort]
  /\ UNCHANGED <<runtime, savedPort, listenerVars, previous, joining, quitting, exited>>

\* Only a stopped supervisor, or one in error, is started or moved to another
\* port; anything else is running already or busy (proxy_transition_busy).
AtRest == runtime.status \in {"Stopped", "Error"}

StartReturns(c) ==
  /\ ~AtRest
  /\ Goto(c, "start", "idle")
  /\ UNCHANGED <<runtime, savedPort, listenerVars, arg, previous, joining, quitting, exited>>

StartClaims(c) ==
  /\ AtRest
  /\ Goto(c, "start", "bind")
  /\ runtime' = [runtime EXCEPT !.status = "Starting", !.port = arg[c]]
  /\ UNCHANGED <<savedPort, listenerVars, arg, previous, joining, quitting, exited>>

\* Mutant: the error path of bind forgets to leave Starting.
BindFailsSilently(c) ==
  /\ Goto(c, "bind", "idle")
  /\ UNCHANGED <<runtime, savedPort, listenerVars, arg, previous, joining, quitting, exited>>

\* Another process, or a listener of ours, has the port.
BindFails(c) ==
  /\ Goto(c, "bind", "idle")
  /\ runtime' = [runtime EXCEPT !.status = "Error"]
  /\ UNCHANGED <<savedPort, listenerVars, arg, previous, joining, quitting, exited>>

\* The socket is bound and its serve task spawned with no lock held.
BindSucceeds(c, l) ==
  /\ phase[l] = "gone"
  /\ ~Referenced(l)
  /\ \A k \in Listeners : Accepting(k) => boundTo[k] # arg[c]
  /\ Goto(c, "bind", "publish")
  /\ joining' = [joining EXCEPT ![c] = l]
  /\ phase' = [phase EXCEPT ![l] = "serving"]
  /\ boundTo' = [boundTo EXCEPT ![l] = arg[c]]
  /\ signalled' = signalled \ {l}
  /\ UNCHANGED <<runtime, savedPort, conns, arg, previous, quitting, exited>>

\* Mutants: the sender is moved elsewhere and lives on; no case for None.
SenderKept == {}
SenderUnwrapped == {runtime.shutdown}

\* The sender the runtime holds.  Using it and dropping it come to the same:
\* the shutdown future of its listener resolves.
ReleasedSender == {runtime.shutdown} \ {None}

\* The last critical section of start() writes Running whatever the status is
\* by now.  A sender that is still stored is dropped, which ends its listener.
Publish(c) ==
  /\ Goto(c, "publish", "idle")
  /\ runtime' = [runtime EXCEPT !.status = "Running",
                                !.shutdown = joining[c], !.task = joining[c]]
  /\ signalled' = signalled \cup ReleasedSender
  /\ joining' = [joining EXCEPT ![c] = None]
  /\ UNCHANGED <<savedPort, phase, boundTo, conns, arg, previous, quitting, exited>>

-----------------------------------------------------------------------------
(* stop_proxy and the tray entry "quit", which exits once stop() returns *)

CallStop(c) ==
  /\ c \in Togglers
  /\ Goto(c, "idle", "stop")
  /\ UNCHANGED <<runtime, savedPort, listenerVars, arg, previous, joining, quitting, exited>>

CallQuit(c) ==
  /\ c \in Quitters
  /\ Goto(c, "idle", "stop")
  /\ quitting' = quitting \cup {c}
  /\ UNCHANGED <<runtime, savedPort, listenerVars, arg, previous, joining, exited>>

AfterStop(c) == IF c \in quitting THEN "quit" ELSE "idle"

StopReturns(c) ==
  /\ runtime.status = "Stopped"
  /\ Goto(c, "stop", AfterStop(c))
  /\ UNCHANGED <<runtime, savedPort, listenerVars, arg, previous, joining, quitting, exited>>

\* Mutant: the status is left alone while the listener drains.
StopClaimsQuietly(c) ==
  /\ runtime.status # "Stopped"
  /\ Goto(c, "stop", "join")
  /\ signalled' = signalled \cup ReleasedSender
  /\ joining' = [joining EXCEPT ![c] = runtime.task]
  /\ runtime' = [runtime EXCEPT !.shutdown = None, !.task = None]
  /\ UNCHANGED <<savedPort, phase, boundTo, conns, arg, previous, quitting, exited>>

\* Any other status becomes Draining; the sender is used and the task taken.
StopClaims(c) ==
  /\ runtime.status # "Stopped"
  /\ Goto(c, "stop", "join")
  /\ signalled' = signalled \cup ReleasedSender
  /\ joining' = [joining EXCEPT ![c] = runtime.task]
  /\ runtime' = [runtime EXCEPT !.status = "Draining",
                                !.shutdown = None, !.task = None]
  /\ UNCHANGED <<savedPort, phase, boundTo, conns, arg, previous, quitting, exited>>

\* Mutant: stop() returns without awaiting the task.
NotJoined(c) == TRUE

\* The task, if there was one, has ended.
Joined(c) == joining[c] # None => ~Live(joining[c])

StopCompletes(c) ==
  /\ Joined(c)
  /\ Goto(c, "join", AfterStop(c))
  /\ runtime' = [runtime EXCEPT !.status = "Stopped"]
  /\ joining' = [joining EXCEPT ![c] = None]
  /\ UNCHANGED <<savedPort, listenerVars, arg, previous, quitting, exited>>

Exit(c) ==
  /\ Goto(c, "quit", "idle")
  /\ exited' = TRUE
  /\ UNCHANGED <<runtime, savedPort, listenerVars, arg, previous, joining, quitting>>

-----------------------------------------------------------------------------
(* update_proxy_port *)

CallSetPort(c, p) ==
  /\ c \in Editors
  /\ Goto(c, "idle", "set")
  /\ arg' = [arg EXCEPT ![c] = p]
  /\ previous' = [previous EXCEPT ![c] = savedPort]
  /\ UNCHANGED <<runtime, savedPort, listenerVars, joining, quitting, exited>>

\* set_stopped_port(p): Error becomes Stopped as well.
StoppedOn(p) == [runtime EXCEPT !.status = "Stopped", !.port = p]

\* Mutant: the refusal of set_stopped_port is ignored.
SetPortRefusalIgnored(c) ==
  /\ ~AtRest
  /\ Goto(c, "set", "save")
  /\ UNCHANGED <<runtime, savedPort, listenerVars, arg, previous, joining, quitting, exited>>

SetPortRefused(c) ==
  /\ ~AtRest
  /\ Goto(c, "set", "idle")
  /\ UNCHANGED <<runtime, savedPort, listenerVars, arg, previous, joining, quitting, exited>>

SetPort(c) ==
  /\ AtRest
  /\ Goto(c, "set", "save")
  /\ runtime' = StoppedOn(arg[c])
  /\ UNCHANGED <<savedPort, listenerVars, arg, previous, joining, quitting, exited>>

SavePort(c) ==
  /\ Goto(c, "save", "idle")
  /\ savedPort' = arg[c]
  /\ UNCHANGED <<runtime, listenerVars, arg, previous, joining, quitting, exited>>

\* Mutant: the runtime keeps a port that could not be saved.
SavePortFailsForGood(c) ==
  /\ Goto(c, "save", "idle")
  /\ UNCHANGED <<runtime, savedPort, listenerVars, arg, previous, joining, quitting, exited>>

SavePortFails(c) ==
  /\ Goto(c, "save", "undo")
  /\ UNCHANGED <<runtime, savedPort, listenerVars, arg, previous, joining, quitting, exited>>

\* The result of the second set_stopped_port is ignored.
UndoPort(c) ==
  /\ Goto(c, "undo", "idle")
  /\ runtime' = IF AtRest THEN StoppedOn(previous[c]) ELSE runtime
  /\ UNCHANGED <<savedPort, listenerVars, arg, previous, joining, quitting, exited>>

-----------------------------------------------------------------------------
(* the task spawned by start(): axum::serve with graceful shutdown *)

Connect(l) ==
  /\ Accepting(l)
  /\ conns[l] < MaxConns
  /\ conns' = [conns EXCEPT ![l] = @ + 1]
  /\ UNCHANGED <<runtime, savedPort, phase, boundTo, signalled, callVars, exited>>

Disconnect(l) ==
  /\ conns[l] > 0
  /\ conns' = [conns EXCEPT ![l] = @ - 1]
  /\ UNCHANGED <<runtime, savedPort, phase, boundTo, signalled, callVars, exited>>

\* The shutdown future resolves: the socket closes, connections are finished.
StopAccepting(l) ==
  /\ Accepting(l)
  /\ l \in signalled
  /\ phase' = [phase EXCEPT ![l] = "draining"]
  /\ UNCHANGED <<runtime, savedPort, boundTo, signalled, conns, callVars, exited>>

Drained(l) ==
  /\ phase[l] = "draining"
  /\ conns[l] = 0
  /\ phase' = [phase EXCEPT ![l] = "drained"]
  /\ UNCHANGED <<runtime, savedPort, boundTo, signalled, conns, callVars, exited>>

ServeFails(l) ==
  /\ MayFail
  /\ phase[l] \in {"serving", "draining"}
  /\ phase' = [phase EXCEPT ![l] = "failed"]
  /\ conns' = [conns EXCEPT ![l] = 0]
  /\ UNCHANGED <<runtime, savedPort, boundTo, signalled, callVars, exited>>

\* The task's own critical section, after which its JoinHandle resolves.
TaskEnds(l) ==
  /\ phase[l] \in {"drained", "failed"}
  /\ phase' = [phase EXCEPT ![l] = "gone"]
  /\ LET unexpected == \/ phase[l] = "failed" /\ runtime.status # "Draining"
                       \/ phase[l] = "drained" /\ runtime.status = "Running"
     IN  runtime' = IF unexpected THEN [runtime EXCEPT !.status = "Error"]
                                  ELSE runtime
  /\ UNCHANGED <<savedPort, boundTo, signalled, conns, callVars, exited>>

-----------------------------------------------------------------------------
\* The steps a call in progress takes by itself.
CallerStep(c) ==
  \/ StartReturns(c) \/ StartClaims(c) \/ BindFails(c)
  \/ \E l \in Listeners : BindSucceeds(c, l)
  \/ Publish(c)
  \/ StopReturns(c) \/ StopClaims(c) \/ StopCompletes(c) \/ Exit(c)
  \/ SetPortRefused(c) \/ SetPort(c)
  \/ SavePort(c) \/ SavePortFails(c) \/ UndoPort(c)

\* The steps the serve task takes by itself.
TaskStep(l) == StopAccepting(l) \/ Drained(l) \/ TaskEnds(l)

\* What users and clients do.
UserStep ==
  \/ \E c \in Callers :
       \/ CallStart(c) \/ CallStop(c) \/ CallQuit(c)
       \/ \E p \in Ports : CallSetPort(c, p)
  \/ \E l \in Listeners : Connect(l) \/ Disconnect(l) \/ ServeFails(l)

Next ==
  /\ ~exited
  /\ \/ \E c \in Callers : CallerStep(c)
     \/ \E l \in Listeners : TaskStep(l)
     \/ UserStep

Spec == Init /\ [][Next]_vars

\* tokio polls every task that can make progress.  Nothing makes a user act,
\* a client hang up or a socket fail.
FairSpec ==
  /\ Spec
  /\ \A c \in Callers : WF_vars(~exited /\ CallerStep(c))
  /\ \A l \in Listeners : WF_vars(~exited /\ TaskStep(l))

-----------------------------------------------------------------------------
(* Properties of every interleaving *)

\* The type of every variable: a caller's step, a listener's state, the runtime.
TypeOK ==
  /\ runtime \in [status : Statuses, port : Ports,
                   shutdown : Handles, task : Handles]
  /\ savedPort \in Ports
  /\ phase \in [Listeners -> Phases]
  /\ boundTo \in [Listeners -> Ports]
  /\ signalled \subseteq Listeners
  /\ conns \in [Listeners -> Nat]
  /\ pc \in [Callers -> Locations]
  /\ arg \in [Callers -> Ports]
  /\ previous \in [Callers -> Ports]
  /\ joining \in [Callers -> Handles]
  /\ quitting \subseteq Callers
  /\ exited \in BOOLEAN

\* However starts and stops overlap, no socket is leaked: one that nobody has
\* told to close is held by the runtime or by the start that just bound it.
NoLeakedListener ==
  \A l \in Listeners :
    Accepting(l) /\ l \notin signalled =>
      \/ runtime.shutdown = l
      \/ \E c \in Callers : pc[c] = "publish" /\ joining[c] = l

\* A stop never waits for a listener that has not been told to end: stop()
\* takes the task together with its sender, never one without the other.
OnlyEndingTasksAreJoined ==
  \A c \in Callers :
    pc[c] = "join" /\ joining[c] # None => joining[c] \in signalled

\* However calls interleave, a listener can be told to end for as long as it
\* accepts, and whoever waits for one waits for one that was told: start() and
\* stop() move the sender and the task of a listener together.
ListenersAreHeld == NoLeakedListener /\ OnlyEndingTasksAreJoined

\* Every stop (and so every quit) comes to an end, unless some client of the
\* listener it drains holds its connection open for ever.
StopTerminates ==
  \A c \in Callers :
    \/ []<>(pc[c] # "join" \/ exited)
    \/ <>[](joining[c] # None /\ conns[joining[c]] > 0)

\* A transition does not last: Starting and Draining are always left again
\* (or the same client holds a drain open, or the program has quit).
TransitionsEnd ==
  \/ []<>(runtime.status \notin {"Starting", "Draining"} \/ exited)
  \/ <>[](\E c \in Callers : joining[c] # None /\ conns[joining[c]] > 0)

\* No stop and no transition hangs, whatever calls overlap.
NothingHangs == StopTerminates /\ TransitionsEnd

-----------------------------------------------------------------------------
(* Properties that hold as long as calls do not overlap *)

\* Running is true: while the status says so, the one listener the runtime
\* holds accepts connections on the runtime's port.
RunningIsListening ==
  ~MayFail /\ runtime.status = "Running" =>
    \E l \in Listeners :
      /\ runtime.task = l
      /\ Accepting(l)
      /\ l \notin signalled
      /\ boundTo[l] = runtime.port

\* Once the status is Stopped or Error, whether after a stop, a failed bind, a
\* failed serve task or a port change, no socket and no client is left.
RestIsQuiet == AtRest => \A l \in Listeners : ~Live(l)

\* At most one listener exists, the ones still draining included.
AtMostOneListener == \A k, l \in Listeners : Live(k) /\ Live(l) => k = l

\* The status that status() reports is what the sockets are: Running has its one
\* listener, Stopped and Error have none, and never are there two.
SocketsMatchStatus == RunningIsListening /\ RestIsQuiet /\ AtMostOneListener

\* Between calls the supervisor is on the port the database has: the port the
\* agents' configurations are written for (apply reads it from the database).
OnSavedPort ==
  (\A c \in Callers : pc[c] = "idle") /\ ~exited => runtime.port = savedPort

\* The saved port changes only while nothing runs.
PortChangesAtRest == [][savedPort' # savedPort => AtRest]_vars

TheListener == CHOOSE l \in Listeners : Live(l)
SomeLive == \E l \in Listeners : Live(l)

\* What the outside sees of the listener, if there is one.
EndpointPort == IF SomeLive /\ Accepting(TheListener) THEN boundTo[TheListener]
                                                      ELSE None
EndpointClients == IF SomeLive THEN conns[TheListener] ELSE 0

Endpoint == INSTANCE LocalEndpoint WITH
  NoPort <- None, port <- EndpointPort, clients <- EndpointClients, halted <- exited

\* Seen from outside, start(), stop() and their serve tasks are one endpoint: a
\* new port opens, and the program quits, only after the last client has left.
ImplementsEndpoint == Endpoint!Spec
=============================================================================
