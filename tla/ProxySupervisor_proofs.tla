----------------------- MODULE ProxySupervisor_proofs -----------------------
(***************************************************************************)
(* Proofs about ProxySupervisor: what holds however calls overlap, and     *)
(* what holds when one caller waits for each of its calls.                 *)
(***************************************************************************)
EXTENDS ProxySupervisor, TLAPS

\* The sender and the task are stored together and taken together.
SenderWithTask == runtime.shutdown = runtime.task

\* One caller: what each place in its calls says of the runtime and listeners.
HeldListener(l, port) ==
  /\ l \in Listeners
  /\ l \notin signalled
  /\ boundTo[l] = port
  /\ phase[l] \in {"serving", "failed", "gone"}
  /\ ~MayFail => phase[l] = "serving"

SoleInv(u) ==
  /\ \A l \in Listeners : Live(l) => l \in {runtime.task, joining[u]}
  /\ \A l \in Listeners : conns[l] > 0 => phase[l] \in {"serving", "draining"}
  /\ \A l \in Listeners : phase[l] \in {"draining", "drained"} => l \in signalled
  /\ AtRest => \A l \in Listeners : ~Live(l)
  /\ runtime.status = "Running" => HeldListener(runtime.task, runtime.port)
  /\ runtime.status = "Starting" => pc[u] \in {"bind", "publish"}
  /\ runtime.status = "Draining" <=> pc[u] = "join"
  /\ pc[u] \in {"bind", "publish"} =>
       /\ runtime.task # None => ~Live(runtime.task)
       /\ runtime.status \in {"Starting", "Error"}
       /\ runtime.port = arg[u]
  /\ pc[u] = "bind" => runtime.status = "Starting"
  /\ pc[u] = "publish" => /\ HeldListener(joining[u], arg[u])
                          /\ joining[u] # runtime.task
  /\ pc[u] = "join" => runtime.task = None
  /\ pc[u] \notin {"publish", "join"} => joining[u] = None
  /\ pc[u] \in {"save", "undo"} => AtRest /\ runtime.port = arg[u]
  /\ pc[u] = "quit" => runtime.status = "Stopped"
  /\ pc[u] \in {"set", "save", "undo"} => previous[u] = savedPort
  /\ pc[u] = "start" => arg[u] = savedPort
  /\ pc[u] \notin {"save", "undo"} => runtime.port = savedPort
  /\ exited => AtRest
-----------------------------------------------------------------------------
LEMMA TypeOKInit == Init => TypeOK
<1> SUFFICES ASSUME Init PROVE TypeOK
  OBVIOUS
<1>1. PICK p \in Ports :
        /\ savedPort = p
        /\ runtime = [status |-> "Stopped", port |-> p,
                      shutdown |-> None, task |-> None]
        /\ arg = [c \in Callers |-> p]
        /\ previous = [c \in Callers |-> p]
        /\ boundTo = [l \in Listeners |-> p]
  BY DEF Init
<1>2. runtime \in [status : Statuses, port : Ports,
                   shutdown : Handles, task : Handles]
  BY <1>1 DEF Statuses, Handles
<1>3. /\ savedPort \in Ports
      /\ boundTo \in [Listeners -> Ports]
      /\ arg \in [Callers -> Ports]
      /\ previous \in [Callers -> Ports]
  BY <1>1
<1>4. /\ phase \in [Listeners -> Phases]
      /\ conns \in [Listeners -> Nat]
      /\ pc \in [Callers -> Locations]
      /\ joining \in [Callers -> Handles]
      /\ signalled \subseteq Listeners
      /\ quitting \subseteq Callers
      /\ exited \in BOOLEAN
  BY DEF Init, Phases, Locations, Handles
<1> QED
  BY <1>2, <1>3, <1>4 DEF TypeOK

LEMMA TypeOKNext == TypeOK /\ [Next]_vars => TypeOK'
<1> SUFFICES ASSUME TypeOK, [Next]_vars PROVE TypeOK'
  OBVIOUS
<1>1. ASSUME NEW c \in Callers, CallStart(c) PROVE TypeOK'
  BY <1>1 DEF CallStart, Goto, TypeOK, Statuses, Locations, Phases, Handles, listenerVars
<1>2. ASSUME NEW c \in Callers, StartReturns(c) PROVE TypeOK'
  BY <1>2 DEF StartReturns, Goto, TypeOK, Statuses, Locations, Phases, Handles, listenerVars
<1>3. ASSUME NEW c \in Callers, StartClaims(c) PROVE TypeOK'
  BY <1>3 DEF StartClaims, Goto, TypeOK, Statuses, Locations, Phases, Handles, listenerVars
<1>4. ASSUME NEW c \in Callers, BindFails(c) PROVE TypeOK'
  BY <1>4 DEF BindFails, Goto, TypeOK, Statuses, Locations, Phases, Handles, listenerVars
<1>5. ASSUME NEW c \in Callers, Publish(c) PROVE TypeOK'
  BY <1>5 DEF Publish, ReleasedSender, Goto, TypeOK, Statuses, Locations, Phases, Handles, listenerVars
<1>6. ASSUME NEW c \in Callers, CallStop(c) PROVE TypeOK'
  BY <1>6 DEF CallStop, Goto, TypeOK, Statuses, Locations, Phases, Handles, listenerVars
<1>7. ASSUME NEW c \in Callers, CallQuit(c) PROVE TypeOK'
  BY <1>7 DEF CallQuit, Goto, TypeOK, Statuses, Locations, Phases, Handles, listenerVars
<1>8. ASSUME NEW c \in Callers, StopReturns(c) PROVE TypeOK'
  BY <1>8 DEF StopReturns, AfterStop, Goto, TypeOK, Statuses, Locations, Phases, Handles, listenerVars
<1>9. ASSUME NEW c \in Callers, StopClaims(c) PROVE TypeOK'
  BY <1>9 DEF StopClaims, ReleasedSender, Goto, TypeOK, Statuses, Locations, Phases, Handles, listenerVars
<1>10. ASSUME NEW c \in Callers, StopCompletes(c) PROVE TypeOK'
  BY <1>10 DEF StopCompletes, AfterStop, Goto, TypeOK, Statuses, Locations, Phases, Handles, listenerVars
<1>11. ASSUME NEW c \in Callers, Exit(c) PROVE TypeOK'
  BY <1>11 DEF Exit, Goto, TypeOK, Statuses, Locations, Phases, Handles, listenerVars
<1>12. ASSUME NEW c \in Callers, SetPortRefused(c) PROVE TypeOK'
  BY <1>12 DEF SetPortRefused, Goto, TypeOK, Statuses, Locations, Phases, Handles, listenerVars
<1>13. ASSUME NEW c \in Callers, SetPort(c) PROVE TypeOK'
  BY <1>13 DEF SetPort, StoppedOn, Goto, TypeOK, Statuses, Locations, Phases, Handles, listenerVars
<1>14. ASSUME NEW c \in Callers, SavePort(c) PROVE TypeOK'
  BY <1>14 DEF SavePort, Goto, TypeOK, Statuses, Locations, Phases, Handles, listenerVars
<1>15. ASSUME NEW c \in Callers, SavePortFails(c) PROVE TypeOK'
  BY <1>15 DEF SavePortFails, Goto, TypeOK, Statuses, Locations, Phases, Handles, listenerVars
<1>16. ASSUME NEW c \in Callers, UndoPort(c) PROVE TypeOK'
  BY <1>16 DEF UndoPort, StoppedOn, Goto, TypeOK, Statuses, Locations, Phases, Handles, listenerVars
<1>17. ASSUME NEW c \in Callers, NEW l \in Listeners, BindSucceeds(c, l) PROVE TypeOK'
  BY <1>17 DEF BindSucceeds, Goto, TypeOK, Statuses, Locations, Phases, Handles, listenerVars
<1>18. ASSUME NEW c \in Callers, NEW p \in Ports, CallSetPort(c, p) PROVE TypeOK'
  BY <1>18 DEF CallSetPort, Goto, TypeOK, Statuses, Locations, Phases, Handles, listenerVars
<1>19. ASSUME NEW l \in Listeners, Connect(l) PROVE TypeOK'
  BY <1>19 DEF Connect, TypeOK, Statuses, Phases, callVars, Accepting
<1>20. ASSUME NEW l \in Listeners, Disconnect(l) PROVE TypeOK'
  BY <1>20 DEF Disconnect, TypeOK, Statuses, Phases, callVars, Accepting
<1>21. ASSUME NEW l \in Listeners, StopAccepting(l) PROVE TypeOK'
  BY <1>21 DEF StopAccepting, TypeOK, Statuses, Phases, callVars, Accepting
<1>22. ASSUME NEW l \in Listeners, Drained(l) PROVE TypeOK'
  BY <1>22 DEF Drained, TypeOK, Statuses, Phases, callVars, Accepting
<1>23. ASSUME NEW l \in Listeners, ServeFails(l) PROVE TypeOK'
  BY <1>23 DEF ServeFails, TypeOK, Statuses, Phases, callVars, Accepting
<1>24. ASSUME NEW l \in Listeners, TaskEnds(l) PROVE TypeOK'
  BY <1>24 DEF TaskEnds, TypeOK, Statuses, Phases, callVars, Accepting
<1>25. CASE UNCHANGED vars
  BY <1>25 DEF vars, TypeOK
<1> QED
  BY <1>1, <1>2, <1>3, <1>4, <1>5, <1>6, <1>7, <1>8, <1>9, <1>10, <1>11, <1>12, <1>13, <1>14, <1>15, <1>16, <1>17, <1>18, <1>19, <1>20, <1>21, <1>22, <1>23, <1>24, <1>25 DEF Next, CallerStep, TaskStep, UserStep

\* Every variable keeps its type in every interleaving of the calls, the serve
\* tasks and the clients.
THEOREM TypeCorrect == Spec => []TypeOK
BY TypeOKInit, TypeOKNext, PTL DEF Spec

LEMMA NoLeakNext == TypeOK /\ NoLeakedListener /\ [Next]_vars => NoLeakedListener'
<1> SUFFICES ASSUME TypeOK, NoLeakedListener, [Next]_vars PROVE NoLeakedListener'
  OBVIOUS
<1>1. ASSUME NEW c \in Callers, CallStart(c) PROVE NoLeakedListener'
  BY <1>1 DEF CallStart, Goto, TypeOK, Handles, NoLeakedListener, Accepting, listenerVars
<1>2. ASSUME NEW c \in Callers, StartReturns(c) PROVE NoLeakedListener'
  BY <1>2 DEF StartReturns, Goto, TypeOK, Handles, NoLeakedListener, Accepting, listenerVars
<1>3. ASSUME NEW c \in Callers, StartClaims(c) PROVE NoLeakedListener'
  BY <1>3 DEF StartClaims, Goto, TypeOK, Handles, NoLeakedListener, Accepting, listenerVars
<1>4. ASSUME NEW c \in Callers, BindFails(c) PROVE NoLeakedListener'
  BY <1>4 DEF BindFails, Goto, TypeOK, Handles, NoLeakedListener, Accepting, listenerVars
<1>5. ASSUME NEW c \in Callers, Publish(c) PROVE NoLeakedListener'
  <2> SUFFICES ASSUME NEW l \in Listeners, Accepting(l)', l \notin signalled'
               PROVE \/ runtime'.shutdown = l
                     \/ \E d \in Callers : pc'[d] = "publish" /\ joining'[d] = l
    BY DEF NoLeakedListener
  <2>1. /\ runtime'.shutdown = joining[c]
        /\ signalled' = signalled \cup ReleasedSender
        /\ pc' = [pc EXCEPT ![c] = "idle"]
        /\ joining' = [joining EXCEPT ![c] = None]
        /\ phase' = phase
    BY <1>5 DEF Publish, Goto, TypeOK
  <2>2. l # None
    BY ListenersAssumption
  <2>3. l \notin signalled /\ runtime.shutdown # l
    BY <2>1, <2>2 DEF ReleasedSender
  <2>4. PICK d \in Callers : pc[d] = "publish" /\ joining[d] = l
    BY <2>1, <2>3 DEF NoLeakedListener, Accepting
  <2>5. CASE d = c
    BY <2>1, <2>4, <2>5
  <2>6. CASE d # c
    BY <2>1, <2>4, <2>6 DEF TypeOK
  <2> QED
    BY <2>5, <2>6
<1>6. ASSUME NEW c \in Callers, CallStop(c) PROVE NoLeakedListener'
  BY <1>6 DEF CallStop, Goto, TypeOK, Handles, NoLeakedListener, Accepting, listenerVars
<1>7. ASSUME NEW c \in Callers, CallQuit(c) PROVE NoLeakedListener'
  BY <1>7 DEF CallQuit, Goto, TypeOK, Handles, NoLeakedListener, Accepting, listenerVars
<1>8. ASSUME NEW c \in Callers, StopReturns(c) PROVE NoLeakedListener'
  BY <1>8 DEF StopReturns, AfterStop, Goto, TypeOK, Handles, NoLeakedListener, Accepting, listenerVars
<1>9. ASSUME NEW c \in Callers, StopClaims(c) PROVE NoLeakedListener'
  BY <1>9 DEF StopClaims, ReleasedSender, Goto, TypeOK, Handles, NoLeakedListener, Accepting, listenerVars
<1>10. ASSUME NEW c \in Callers, StopCompletes(c) PROVE NoLeakedListener'
  BY <1>10 DEF StopCompletes, AfterStop, Joined, Goto, TypeOK, Handles, NoLeakedListener, Accepting, listenerVars
<1>11. ASSUME NEW c \in Callers, Exit(c) PROVE NoLeakedListener'
  BY <1>11 DEF Exit, Goto, TypeOK, Handles, NoLeakedListener, Accepting, listenerVars
<1>12. ASSUME NEW c \in Callers, SetPortRefused(c) PROVE NoLeakedListener'
  BY <1>12 DEF SetPortRefused, Goto, TypeOK, Handles, NoLeakedListener, Accepting, listenerVars
<1>13. ASSUME NEW c \in Callers, SetPort(c) PROVE NoLeakedListener'
  BY <1>13 DEF SetPort, StoppedOn, Goto, TypeOK, Handles, NoLeakedListener, Accepting, listenerVars
<1>14. ASSUME NEW c \in Callers, SavePort(c) PROVE NoLeakedListener'
  BY <1>14 DEF SavePort, Goto, TypeOK, Handles, NoLeakedListener, Accepting, listenerVars
<1>15. ASSUME NEW c \in Callers, SavePortFails(c) PROVE NoLeakedListener'
  BY <1>15 DEF SavePortFails, Goto, TypeOK, Handles, NoLeakedListener, Accepting, listenerVars
<1>16. ASSUME NEW c \in Callers, UndoPort(c) PROVE NoLeakedListener'
  BY <1>16 DEF UndoPort, StoppedOn, Goto, TypeOK, Handles, NoLeakedListener, Accepting, listenerVars
<1>17. ASSUME NEW c \in Callers, NEW l \in Listeners, BindSucceeds(c, l) PROVE NoLeakedListener'
  BY <1>17 DEF BindSucceeds, Referenced, Goto, TypeOK, Handles, NoLeakedListener, Accepting, listenerVars
<1>18. ASSUME NEW c \in Callers, NEW p \in Ports, CallSetPort(c, p) PROVE NoLeakedListener'
  BY <1>18 DEF CallSetPort, Goto, TypeOK, Handles, NoLeakedListener, Accepting, listenerVars
<1>19. ASSUME NEW l \in Listeners, Connect(l) PROVE NoLeakedListener'
  BY <1>19 DEF Connect, TypeOK, NoLeakedListener, Accepting, callVars
<1>20. ASSUME NEW l \in Listeners, Disconnect(l) PROVE NoLeakedListener'
  BY <1>20 DEF Disconnect, TypeOK, NoLeakedListener, Accepting, callVars
<1>21. ASSUME NEW l \in Listeners, StopAccepting(l) PROVE NoLeakedListener'
  BY <1>21 DEF StopAccepting, TypeOK, NoLeakedListener, Accepting, callVars
<1>22. ASSUME NEW l \in Listeners, Drained(l) PROVE NoLeakedListener'
  BY <1>22 DEF Drained, TypeOK, NoLeakedListener, Accepting, callVars
<1>23. ASSUME NEW l \in Listeners, ServeFails(l) PROVE NoLeakedListener'
  BY <1>23 DEF ServeFails, TypeOK, NoLeakedListener, Accepting, callVars
<1>24. ASSUME NEW l \in Listeners, TaskEnds(l) PROVE NoLeakedListener'
  BY <1>24 DEF TaskEnds, TypeOK, NoLeakedListener, Accepting, callVars
<1>25. CASE UNCHANGED vars
  BY <1>25 DEF vars, NoLeakedListener, Accepting
<1> QED
  BY <1>1, <1>2, <1>3, <1>4, <1>5, <1>6, <1>7, <1>8, <1>9, <1>10, <1>11, <1>12, <1>13, <1>14, <1>15, <1>16, <1>17, <1>18, <1>19, <1>20, <1>21, <1>22, <1>23, <1>24, <1>25 DEF Next, CallerStep, TaskStep, UserStep

\* No interleaving of starts, stops, port changes and a quit leaks a socket.
THEOREM NoListenerIsLeaked == Spec => []NoLeakedListener
<1>1. Init => NoLeakedListener
  BY DEF Init, NoLeakedListener, Accepting
<1> QED
  BY <1>1, TypeCorrect, NoLeakNext, PTL DEF Spec

JoinInv == SenderWithTask /\ OnlyEndingTasksAreJoined

LEMMA JoinNext == TypeOK /\ JoinInv /\ [Next]_vars => JoinInv'
<1> SUFFICES ASSUME TypeOK, JoinInv, [Next]_vars PROVE JoinInv'
  OBVIOUS
<1>1. ASSUME NEW c \in Callers, CallStart(c) PROVE JoinInv'
  BY <1>1, ListenersAssumption DEF CallStart, Goto, TypeOK, Handles, JoinInv, SenderWithTask, OnlyEndingTasksAreJoined, listenerVars
<1>2. ASSUME NEW c \in Callers, StartReturns(c) PROVE JoinInv'
  BY <1>2, ListenersAssumption DEF StartReturns, Goto, TypeOK, Handles, JoinInv, SenderWithTask, OnlyEndingTasksAreJoined, listenerVars
<1>3. ASSUME NEW c \in Callers, StartClaims(c) PROVE JoinInv'
  BY <1>3, ListenersAssumption DEF StartClaims, Goto, TypeOK, Handles, JoinInv, SenderWithTask, OnlyEndingTasksAreJoined, listenerVars
<1>4. ASSUME NEW c \in Callers, BindFails(c) PROVE JoinInv'
  BY <1>4, ListenersAssumption DEF BindFails, Goto, TypeOK, Handles, JoinInv, SenderWithTask, OnlyEndingTasksAreJoined, listenerVars
<1>5. ASSUME NEW c \in Callers, Publish(c) PROVE JoinInv'
  BY <1>5, ListenersAssumption DEF Publish, ReleasedSender, Goto, TypeOK, Handles, JoinInv, SenderWithTask, OnlyEndingTasksAreJoined, listenerVars
<1>6. ASSUME NEW c \in Callers, CallStop(c) PROVE JoinInv'
  BY <1>6, ListenersAssumption DEF CallStop, Goto, TypeOK, Handles, JoinInv, SenderWithTask, OnlyEndingTasksAreJoined, listenerVars
<1>7. ASSUME NEW c \in Callers, CallQuit(c) PROVE JoinInv'
  BY <1>7, ListenersAssumption DEF CallQuit, Goto, TypeOK, Handles, JoinInv, SenderWithTask, OnlyEndingTasksAreJoined, listenerVars
<1>8. ASSUME NEW c \in Callers, StopReturns(c) PROVE JoinInv'
  BY <1>8, ListenersAssumption DEF StopReturns, AfterStop, Goto, TypeOK, Handles, JoinInv, SenderWithTask, OnlyEndingTasksAreJoined, listenerVars
<1>9. ASSUME NEW c \in Callers, StopClaims(c) PROVE JoinInv'
  BY <1>9, ListenersAssumption DEF StopClaims, ReleasedSender, Goto, TypeOK, Handles, JoinInv, SenderWithTask, OnlyEndingTasksAreJoined, listenerVars
<1>10. ASSUME NEW c \in Callers, StopCompletes(c) PROVE JoinInv'
  BY <1>10, ListenersAssumption DEF StopCompletes, AfterStop, Joined, Goto, TypeOK, Handles, JoinInv, SenderWithTask, OnlyEndingTasksAreJoined, listenerVars
<1>11. ASSUME NEW c \in Callers, Exit(c) PROVE JoinInv'
  BY <1>11, ListenersAssumption DEF Exit, Goto, TypeOK, Handles, JoinInv, SenderWithTask, OnlyEndingTasksAreJoined, listenerVars
<1>12. ASSUME NEW c \in Callers, SetPortRefused(c) PROVE JoinInv'
  BY <1>12, ListenersAssumption DEF SetPortRefused, Goto, TypeOK, Handles, JoinInv, SenderWithTask, OnlyEndingTasksAreJoined, listenerVars
<1>13. ASSUME NEW c \in Callers, SetPort(c) PROVE JoinInv'
  BY <1>13, ListenersAssumption DEF SetPort, StoppedOn, Goto, TypeOK, Handles, JoinInv, SenderWithTask, OnlyEndingTasksAreJoined, listenerVars
<1>14. ASSUME NEW c \in Callers, SavePort(c) PROVE JoinInv'
  BY <1>14, ListenersAssumption DEF SavePort, Goto, TypeOK, Handles, JoinInv, SenderWithTask, OnlyEndingTasksAreJoined, listenerVars
<1>15. ASSUME NEW c \in Callers, SavePortFails(c) PROVE JoinInv'
  BY <1>15, ListenersAssumption DEF SavePortFails, Goto, TypeOK, Handles, JoinInv, SenderWithTask, OnlyEndingTasksAreJoined, listenerVars
<1>16. ASSUME NEW c \in Callers, UndoPort(c) PROVE JoinInv'
  BY <1>16, ListenersAssumption DEF UndoPort, StoppedOn, Goto, TypeOK, Handles, JoinInv, SenderWithTask, OnlyEndingTasksAreJoined, listenerVars
<1>17. ASSUME NEW c \in Callers, NEW l \in Listeners, BindSucceeds(c, l) PROVE JoinInv'
  BY <1>17, ListenersAssumption DEF BindSucceeds, Referenced, Goto, TypeOK, Handles, JoinInv, SenderWithTask, OnlyEndingTasksAreJoined, listenerVars
<1>18. ASSUME NEW c \in Callers, NEW p \in Ports, CallSetPort(c, p) PROVE JoinInv'
  BY <1>18, ListenersAssumption DEF CallSetPort, Goto, TypeOK, Handles, JoinInv, SenderWithTask, OnlyEndingTasksAreJoined, listenerVars
<1>19. ASSUME NEW l \in Listeners, Connect(l) PROVE JoinInv'
  BY <1>19, ListenersAssumption DEF Connect, TypeOK, JoinInv, SenderWithTask, OnlyEndingTasksAreJoined, callVars
<1>20. ASSUME NEW l \in Listeners, Disconnect(l) PROVE JoinInv'
  BY <1>20, ListenersAssumption DEF Disconnect, TypeOK, JoinInv, SenderWithTask, OnlyEndingTasksAreJoined, callVars
<1>21. ASSUME NEW l \in Listeners, StopAccepting(l) PROVE JoinInv'
  BY <1>21, ListenersAssumption DEF StopAccepting, TypeOK, JoinInv, SenderWithTask, OnlyEndingTasksAreJoined, callVars
<1>22. ASSUME NEW l \in Listeners, Drained(l) PROVE JoinInv'
  BY <1>22, ListenersAssumption DEF Drained, TypeOK, JoinInv, SenderWithTask, OnlyEndingTasksAreJoined, callVars
<1>23. ASSUME NEW l \in Listeners, ServeFails(l) PROVE JoinInv'
  BY <1>23, ListenersAssumption DEF ServeFails, TypeOK, JoinInv, SenderWithTask, OnlyEndingTasksAreJoined, callVars
<1>24. ASSUME NEW l \in Listeners, TaskEnds(l) PROVE JoinInv'
  BY <1>24, ListenersAssumption DEF TaskEnds, TypeOK, JoinInv, SenderWithTask, OnlyEndingTasksAreJoined, callVars
<1>25. CASE UNCHANGED vars
  BY <1>25 DEF vars, JoinInv, SenderWithTask, OnlyEndingTasksAreJoined
<1> QED
  BY <1>1, <1>2, <1>3, <1>4, <1>5, <1>6, <1>7, <1>8, <1>9, <1>10, <1>11, <1>12, <1>13, <1>14, <1>15, <1>16, <1>17, <1>18, <1>19, <1>20, <1>21, <1>22, <1>23, <1>24, <1>25 DEF Next, CallerStep, TaskStep, UserStep

\* A stop only waits for a task whose listener was told to end.
THEOREM StopsJoinEndingTasks == Spec => []OnlyEndingTasksAreJoined
<1>1. Init => JoinInv
  BY DEF Init, JoinInv, SenderWithTask, OnlyEndingTasksAreJoined
<1>2. JoinInv => OnlyEndingTasksAreJoined
  BY DEF JoinInv
<1> QED
  BY <1>1, <1>2, TypeCorrect, JoinNext, PTL DEF Spec

\* Whatever overlaps, start() and stop() lose no listener between them.
THEOREM ListenersStayHeld == Spec => []ListenersAreHeld
<1> QED
  BY NoListenerIsLeaked, StopsJoinEndingTasks, PTL DEF ListenersAreHeld

-----------------------------------------------------------------------------
(* One caller *)

LEMMA SoleNext ==
  ASSUME NEW u, Callers = {u},
         TypeOK, SenderWithTask, SoleInv(u), [Next]_vars
  PROVE  SoleInv(u)'
<1> u \in Callers
  OBVIOUS
<1>1. ASSUME CallStart(u) PROVE SoleInv(u)'
  BY <1>1, u \in Callers, ListenersAssumption DEF CallStart, Goto, TypeOK, Statuses, Handles, SenderWithTask, SoleInv, HeldListener, AtRest, Live, listenerVars
<1>2. ASSUME StartReturns(u) PROVE SoleInv(u)'
  BY <1>2, u \in Callers, ListenersAssumption DEF StartReturns, Goto, TypeOK, Statuses, Handles, SenderWithTask, SoleInv, HeldListener, AtRest, Live, listenerVars
<1>3. ASSUME ~exited, StartClaims(u) PROVE SoleInv(u)'
  <2>1. /\ runtime'.status = "Starting" /\ runtime'.port = arg[u]
        /\ runtime'.task = runtime.task
        /\ pc[u] = "start" /\ pc'[u] = "bind"
        /\ UNCHANGED <<savedPort, phase, boundTo, signalled, conns,
                       arg, previous, joining, exited>>
    BY <1>3, u \in Callers DEF StartClaims, Goto, TypeOK, listenerVars
  <2>2. \A l \in Listeners : ~Live(l)
    BY <1>3 DEF StartClaims, SoleInv
  <2> QED
    BY <1>3, <2>1, <2>2, ListenersAssumption DEF TypeOK, Statuses, Handles, SenderWithTask, SoleInv, HeldListener, AtRest, Live
<1>4. ASSUME BindFails(u) PROVE SoleInv(u)'
  BY <1>4, u \in Callers, ListenersAssumption DEF BindFails, Goto, TypeOK, Statuses, Handles, SenderWithTask, SoleInv, HeldListener, AtRest, Live, listenerVars
<1>5. ASSUME ~exited, Publish(u) PROVE SoleInv(u)'
  <2>1. /\ runtime'.status = "Running" /\ runtime'.port = runtime.port
        /\ runtime'.task = joining[u]
        /\ signalled' = signalled \cup ReleasedSender
        /\ pc[u] = "publish" /\ pc'[u] = "idle" /\ joining'[u] = None
        /\ UNCHANGED <<savedPort, phase, boundTo, conns, arg, previous, exited>>
    BY <1>5, u \in Callers DEF Publish, Goto, TypeOK
  <2>2. /\ HeldListener(joining[u], runtime.port)
        /\ joining[u] # runtime.task
        /\ runtime.shutdown = runtime.task
    BY <2>1 DEF SoleInv, SenderWithTask
  <2>3. HeldListener(runtime.task, runtime.port)'
    BY <2>1, <2>2 DEF HeldListener, ReleasedSender
  <2>4. \A l \in Listeners : Live(l)' => l = runtime'.task
    BY <2>1, ListenersAssumption DEF SoleInv, Live
  <2> QED
    BY <1>5, <2>1, <2>2, <2>3, <2>4 DEF SoleInv, AtRest, Live
<1>6. ASSUME CallStop(u) PROVE SoleInv(u)'
  BY <1>6, u \in Callers, ListenersAssumption DEF CallStop, Goto, TypeOK, Statuses, Handles, SenderWithTask, SoleInv, HeldListener, AtRest, Live, listenerVars
<1>7. ASSUME CallQuit(u) PROVE SoleInv(u)'
  BY <1>7, u \in Callers, ListenersAssumption DEF CallQuit, Goto, TypeOK, Statuses, Handles, SenderWithTask, SoleInv, HeldListener, AtRest, Live, listenerVars
<1>8. ASSUME StopReturns(u) PROVE SoleInv(u)'
  BY <1>8, u \in Callers, ListenersAssumption DEF StopReturns, AfterStop, Goto, TypeOK, Statuses, Handles, SenderWithTask, SoleInv, HeldListener, AtRest, Live, listenerVars
<1>9. ASSUME ~exited, StopClaims(u) PROVE SoleInv(u)'
  <2>1. /\ runtime'.status = "Draining" /\ runtime'.port = runtime.port
        /\ runtime'.task = None
        /\ signalled' = signalled \cup ReleasedSender
        /\ pc[u] = "stop" /\ pc'[u] = "join" /\ joining'[u] = runtime.task
        /\ UNCHANGED <<savedPort, phase, boundTo, conns, arg, previous, exited>>
    BY <1>9, u \in Callers DEF StopClaims, Goto, TypeOK
  <2>2. \A l \in Listeners : Live(l)' => l = joining'[u]
    BY <2>1, ListenersAssumption DEF SoleInv, Live
  <2> QED
    BY <1>9, <2>1, <2>2 DEF SoleInv, AtRest, Live
<1>10. ASSUME StopCompletes(u) PROVE SoleInv(u)'
  BY <1>10, u \in Callers, ListenersAssumption DEF StopCompletes, AfterStop, Joined, Goto, TypeOK, Statuses, Handles, SenderWithTask, SoleInv, HeldListener, AtRest, Live, listenerVars
<1>11. ASSUME Exit(u) PROVE SoleInv(u)'
  BY <1>11, u \in Callers, ListenersAssumption DEF Exit, Goto, TypeOK, Statuses, Handles, SenderWithTask, SoleInv, HeldListener, AtRest, Live, listenerVars
<1>12. ASSUME SetPortRefused(u) PROVE SoleInv(u)'
  BY <1>12, u \in Callers, ListenersAssumption DEF SetPortRefused, Goto, TypeOK, Statuses, Handles, SenderWithTask, SoleInv, HeldListener, AtRest, Live, listenerVars
<1>13. ASSUME SetPort(u) PROVE SoleInv(u)'
  BY <1>13, u \in Callers, ListenersAssumption DEF SetPort, StoppedOn, Goto, TypeOK, Statuses, Handles, SenderWithTask, SoleInv, HeldListener, AtRest, Live, listenerVars
<1>14. ASSUME SavePort(u) PROVE SoleInv(u)'
  BY <1>14, u \in Callers, ListenersAssumption DEF SavePort, Goto, TypeOK, Statuses, Handles, SenderWithTask, SoleInv, HeldListener, AtRest, Live, listenerVars
<1>15. ASSUME SavePortFails(u) PROVE SoleInv(u)'
  BY <1>15, u \in Callers, ListenersAssumption DEF SavePortFails, Goto, TypeOK, Statuses, Handles, SenderWithTask, SoleInv, HeldListener, AtRest, Live, listenerVars
<1>16. ASSUME UndoPort(u) PROVE SoleInv(u)'
  BY <1>16, u \in Callers, ListenersAssumption DEF UndoPort, StoppedOn, Goto, TypeOK, Statuses, Handles, SenderWithTask, SoleInv, HeldListener, AtRest, Live, listenerVars
<1>17. ASSUME NEW l \in Listeners, BindSucceeds(u, l) PROVE SoleInv(u)'
  <2>1. /\ pc[u] = "bind" /\ pc'[u] = "publish" /\ joining'[u] = l
        /\ phase' = [phase EXCEPT ![l] = "serving"]
        /\ boundTo' = [boundTo EXCEPT ![l] = arg[u]]
        /\ signalled' = signalled \ {l}
        /\ phase[l] = "gone" /\ l # runtime.task
        /\ UNCHANGED <<runtime, savedPort, conns, arg, previous, exited>>
    BY <1>17, u \in Callers DEF BindSucceeds, Goto, TypeOK, Referenced
  <2>2. /\ \A k \in Listeners : ~Live(k)
        /\ runtime.status = "Starting" /\ runtime.port = arg[u]
    BY <2>1, ListenersAssumption DEF SoleInv, Live
  <2>3. HeldListener(l, arg[u])'
    BY <2>1 DEF HeldListener, TypeOK
  <2> QED
    BY <2>1, <2>2, <2>3 DEF TypeOK, Statuses, Handles, SenderWithTask, SoleInv, HeldListener, AtRest, Live
<1>18. ASSUME NEW p \in Ports, CallSetPort(u, p) PROVE SoleInv(u)'
  BY <1>18, u \in Callers, ListenersAssumption DEF CallSetPort, Goto, TypeOK, Statuses, Handles, SenderWithTask, SoleInv, HeldListener, AtRest, Live, listenerVars
<1>19. ASSUME NEW l \in Listeners, Connect(l) PROVE SoleInv(u)'
  BY <1>19, u \in Callers, ListenersAssumption DEF Connect, TypeOK, Statuses, Handles, SenderWithTask, SoleInv, HeldListener, AtRest, Live, Accepting, callVars
<1>20. ASSUME NEW l \in Listeners, Disconnect(l) PROVE SoleInv(u)'
  BY <1>20, u \in Callers, ListenersAssumption DEF Disconnect, TypeOK, Statuses, Handles, SenderWithTask, SoleInv, HeldListener, AtRest, Live, Accepting, callVars
<1>21. ASSUME NEW l \in Listeners, StopAccepting(l) PROVE SoleInv(u)'
  BY <1>21, u \in Callers, ListenersAssumption DEF StopAccepting, TypeOK, Statuses, Handles, SenderWithTask, SoleInv, HeldListener, AtRest, Live, Accepting, callVars
<1>22. ASSUME NEW l \in Listeners, Drained(l) PROVE SoleInv(u)'
  BY <1>22, u \in Callers, ListenersAssumption DEF Drained, TypeOK, Statuses, Handles, SenderWithTask, SoleInv, HeldListener, AtRest, Live, Accepting, callVars
<1>23. ASSUME NEW l \in Listeners, ServeFails(l) PROVE SoleInv(u)'
  BY <1>23, u \in Callers, ListenersAssumption DEF ServeFails, TypeOK, Statuses, Handles, SenderWithTask, SoleInv, HeldListener, AtRest, Live, Accepting, callVars
<1>24. ASSUME NEW l \in Listeners, TaskEnds(l) PROVE SoleInv(u)'
  <2>1. /\ phase[l] \in {"drained", "failed"}
        /\ phase' = [phase EXCEPT ![l] = "gone"]
        /\ runtime'.port = runtime.port /\ runtime'.task = runtime.task
        /\ UNCHANGED <<savedPort, boundTo, signalled, conns, callVars, exited>>
    BY <1>24 DEF TaskEnds, TypeOK
  <2>2. Live(l) /\ \A k \in Listeners : Live(k)' <=> Live(k) /\ k # l
    BY <2>1 DEF Live, TypeOK
  <2>3. ~AtRest
    BY <2>2 DEF SoleInv
  <2>4. CASE runtime.status = "Running"
    <3>1. runtime.task = l /\ phase[l] = "failed" /\ joining[u] = None
      BY <2>1, <2>2, <2>4, ListenersAssumption DEF SoleInv, HeldListener
    <3>2. runtime'.status = "Error" /\ \A k \in Listeners : ~Live(k)'
      BY <1>24, <2>2, <2>4, <3>1, ListenersAssumption DEF SoleInv, TaskEnds, TypeOK
    <3> QED
      BY <2>1, <2>3, <2>4, <3>1, <3>2 DEF TypeOK, SoleInv, HeldListener, AtRest, callVars
  <2>5. CASE runtime.status = "Starting"
    <3>1. joining[u] = l /\ pc[u] = "publish" /\ phase[l] = "failed"
      BY <2>1, <2>2, <2>5, ListenersAssumption DEF SoleInv, HeldListener
    <3>2. runtime'.status = "Error" /\ \A k \in Listeners : ~Live(k)'
      BY <1>24, <2>2, <2>5, <3>1, ListenersAssumption DEF SoleInv, TaskEnds, TypeOK
    <3> QED
      BY <2>1, <2>3, <2>5, <3>1, <3>2 DEF TypeOK, SoleInv, HeldListener, AtRest, Live, callVars
  <2>6. CASE runtime.status = "Draining"
    <3>1. runtime' = runtime
      BY <1>24, <2>6 DEF TaskEnds
    <3> QED
      BY <2>1, <2>2, <2>3, <2>6, <3>1 DEF TypeOK, SoleInv, HeldListener, AtRest, callVars
  <2> QED
    BY <2>3, <2>4, <2>5, <2>6 DEF TypeOK, Statuses, AtRest
<1>25. CASE UNCHANGED vars
  BY <1>25 DEF vars, SoleInv, HeldListener, AtRest, Live
<1> QED
  BY <1>1, <1>2, <1>3, <1>4, <1>5, <1>6, <1>7, <1>8, <1>9, <1>10, <1>11, <1>12, <1>13, <1>14, <1>15, <1>16, <1>17, <1>18, <1>19, <1>20, <1>21, <1>22, <1>23, <1>24, <1>25 DEF Next, CallerStep, TaskStep, UserStep

LEMMA SoleInit ==
  ASSUME NEW u, Callers = {u}
  PROVE  Init => SoleInv(u)
BY DEF Init, SoleInv, HeldListener, AtRest, Live

LEMMA SoleInvariant ==
  ASSUME NEW u, Callers = {u}
  PROVE  Spec => []SoleInv(u)
<1>1. Init => JoinInv
  BY DEF Init, JoinInv, SenderWithTask, OnlyEndingTasksAreJoined
<1>2. JoinInv => SenderWithTask
  BY DEF JoinInv
<1>3. TypeOK /\ SenderWithTask /\ SoleInv(u) /\ [Next]_vars => SoleInv(u)'
  BY SoleNext
<1> QED
  BY <1>1, <1>2, <1>3, TypeCorrect, JoinNext, SoleInit, PTL DEF Spec

-----------------------------------------------------------------------------
LEMMA SoleIsOne ==
  ASSUME NEW u, Callers = {u}, SoleInv(u)
  PROVE  AtMostOneListener
<1> SUFFICES ASSUME NEW k \in Listeners, NEW l \in Listeners, Live(k), Live(l)
             PROVE  k = l
  BY DEF AtMostOneListener
<1>1. /\ k \in {runtime.task, joining[u]}
      /\ l \in {runtime.task, joining[u]}
  BY DEF SoleInv
<1>2. k # None /\ l # None
  BY ListenersAssumption
<1> QED
  BY <1>1, <1>2 DEF SoleInv

LEMMA SoleImplies ==
  ASSUME NEW u, Callers = {u}, TypeOK, SoleInv(u)
  PROVE  RestIsQuiet /\ AtMostOneListener /\ RunningIsListening /\ OnSavedPort
<1>1. RestIsQuiet
  BY DEF SoleInv, RestIsQuiet
<1>2. AtMostOneListener
  BY SoleIsOne
<1>3. RunningIsListening
  BY DEF SoleInv, HeldListener, RunningIsListening, Accepting
<1>4. OnSavedPort
  BY DEF SoleInv, OnSavedPort
<1> QED
  BY <1>1, <1>2, <1>3, <1>4

\* A status of Stopped or Error tells the truth when calls do not overlap.
THEOREM RestIsQuietForOneCaller ==
  ASSUME NEW u, Callers = {u}
  PROVE  Spec => []RestIsQuiet
<1>1. TypeOK /\ SoleInv(u) => RestIsQuiet
  BY SoleImplies
<1> QED
  BY <1>1, TypeCorrect, SoleInvariant, PTL

\* So does a status of Running, on the port it names.
THEOREM RunningIsListeningForOneCaller ==
  ASSUME NEW u, Callers = {u}
  PROVE  Spec => []RunningIsListening
<1>1. TypeOK /\ SoleInv(u) => RunningIsListening
  BY SoleImplies
<1> QED
  BY <1>1, TypeCorrect, SoleInvariant, PTL

\* One caller never has two listeners, one of them draining.
THEOREM OneListenerForOneCaller ==
  ASSUME NEW u, Callers = {u}
  PROVE  Spec => []AtMostOneListener
<1>1. SoleInv(u) => AtMostOneListener
  BY SoleIsOne
<1> QED
  BY <1>1, SoleInvariant, PTL

\* Whatever status() reports to one caller is what the sockets are.
THEOREM SocketsMatchStatusForOneCaller ==
  ASSUME NEW u, Callers = {u}
  PROVE  Spec => []SocketsMatchStatus
<1> QED
  BY RestIsQuietForOneCaller, RunningIsListeningForOneCaller,
     OneListenerForOneCaller, PTL DEF SocketsMatchStatus

\* Between the calls of one caller the supervisor is on the saved port.
THEOREM OnSavedPortForOneCaller ==
  ASSUME NEW u, Callers = {u}
  PROVE  Spec => []OnSavedPort
<1>1. TypeOK /\ SoleInv(u) => OnSavedPort
  BY SoleImplies
<1> QED
  BY <1>1, TypeCorrect, SoleInvariant, PTL

LEMMA OnlySavePortSaves ==
  ASSUME [Next]_vars, savedPort' # savedPort
  PROVE  \E c \in Callers : SavePort(c)
BY DEF Next, CallerStep, TaskStep, UserStep, vars, CallSetPort, BindSucceeds,
       CallStart, StartReturns, StartClaims, BindFails, Publish, CallStop, CallQuit,
       StopReturns, StopClaims, StopCompletes, Exit, SetPortRefused, SetPort, SavePortFails, UndoPort,
       Connect, Disconnect, StopAccepting, Drained, ServeFails, TaskEnds

\* One caller changes the saved port only while nothing runs.
THEOREM PortChangesAtRestForOneCaller ==
  ASSUME NEW u, Callers = {u}
  PROVE  Spec => PortChangesAtRest
<1>1. SoleInv(u) /\ [Next]_vars => [savedPort' # savedPort => AtRest]_vars
  <2> SUFFICES ASSUME SoleInv(u), [Next]_vars, savedPort' # savedPort
               PROVE  AtRest
    OBVIOUS
  <2>1. SavePort(u)
    BY OnlySavePortSaves
  <2> QED
    BY <2>1 DEF SavePort, Goto, SoleInv
<1> QED
  BY <1>1, SoleInvariant, PTL DEF Spec, PortChangesAtRest

-----------------------------------------------------------------------------
(* One caller: the supervisor implements LocalEndpoint *)

\* What TheListener, a CHOOSE, comes to.
EndpointDetermined ==
  /\ AtMostOneListener =>
       \A l \in Listeners : Live(l) =>
         /\ EndpointPort = IF Accepting(l) THEN boundTo[l] ELSE None
         /\ EndpointClients = conns[l]
  /\ ~SomeLive => EndpointPort = None /\ EndpointClients = 0

LEMMA EndpointIsDetermined == EndpointDetermined
<1>1. ASSUME AtMostOneListener, NEW l \in Listeners, Live(l)
      PROVE  /\ EndpointPort = IF Accepting(l) THEN boundTo[l] ELSE None
             /\ EndpointClients = conns[l]
  <2>1. SomeLive
    BY <1>1 DEF SomeLive
  <2>2. TheListener \in Listeners /\ Live(TheListener)
    BY <2>1 DEF SomeLive, TheListener
  <2>3. TheListener = l
    BY <1>1, <2>2 DEF AtMostOneListener
  <2> QED
    BY <2>1, <2>3 DEF EndpointPort, EndpointClients
<1>2. ~SomeLive => EndpointPort = None /\ EndpointClients = 0
  BY DEF EndpointPort, EndpointClients
<1> QED
  BY <1>1, <1>2 DEF EndpointDetermined

LEMMA EndpointIsDeterminedNext == EndpointDetermined'
BY EndpointIsDetermined, PTL

LEMMA EndpointUnchanged ==
  ASSUME UNCHANGED <<phase, boundTo, conns, exited>>
  PROVE  UNCHANGED Endpoint!vars
<1>1. \A l \in Listeners : Live(l)' = Live(l) /\ Accepting(l)' = Accepting(l)
  BY DEF Live, Accepting
<1>2. SomeLive' = SomeLive
  BY DEF SomeLive, Live
<1>3. TheListener' = TheListener
  BY DEF TheListener, Live
<1> QED
  BY <1>2, <1>3 DEF Endpoint!vars, EndpointPort, EndpointClients, Accepting


LEMMA EndpointNext ==
  ASSUME NEW u, Callers = {u}, ~MayFail,
         TypeOK, SoleInv(u), SoleInv(u)', [Next]_vars
  PROVE  [Endpoint!Next]_(Endpoint!vars)
<1> u \in Callers
  OBVIOUS
<1> AtMostOneListener /\ EndpointDetermined /\ EndpointDetermined'
  BY SoleIsOne, EndpointIsDetermined, EndpointIsDeterminedNext
<1>1. CASE CallStart(u)
  BY <1>1, EndpointUnchanged DEF CallStart, listenerVars
<1>2. CASE StartReturns(u)
  BY <1>2, EndpointUnchanged DEF StartReturns, listenerVars
<1>3. CASE StartClaims(u)
  BY <1>3, EndpointUnchanged DEF StartClaims, listenerVars
<1>4. CASE BindFails(u)
  BY <1>4, EndpointUnchanged DEF BindFails, listenerVars
<1>5. CASE Publish(u)
  BY <1>5, EndpointUnchanged DEF Publish, listenerVars
<1>6. CASE CallStop(u)
  BY <1>6, EndpointUnchanged DEF CallStop, listenerVars
<1>7. CASE CallQuit(u)
  BY <1>7, EndpointUnchanged DEF CallQuit, listenerVars
<1>8. CASE StopReturns(u)
  BY <1>8, EndpointUnchanged DEF StopReturns, listenerVars
<1>9. CASE StopClaims(u)
  BY <1>9, EndpointUnchanged DEF StopClaims, listenerVars
<1>10. CASE StopCompletes(u)
  BY <1>10, EndpointUnchanged DEF StopCompletes, listenerVars
<1>11. CASE SetPortRefused(u)
  BY <1>11, EndpointUnchanged DEF SetPortRefused, listenerVars
<1>12. CASE SetPort(u)
  BY <1>12, EndpointUnchanged DEF SetPort, listenerVars
<1>13. CASE SavePort(u)
  BY <1>13, EndpointUnchanged DEF SavePort, listenerVars
<1>14. CASE SavePortFails(u)
  BY <1>14, EndpointUnchanged DEF SavePortFails, listenerVars
<1>15. CASE UndoPort(u)
  BY <1>15, EndpointUnchanged DEF UndoPort, listenerVars
<1>16. ASSUME NEW p \in Ports, CallSetPort(u, p) PROVE UNCHANGED Endpoint!vars
  BY <1>16, EndpointUnchanged DEF CallSetPort, listenerVars
<1>17. ASSUME ~exited, Exit(u) PROVE Endpoint!Next
  <2>1. ~SomeLive
    BY <1>17 DEF Exit, Goto, SoleInv, AtRest, SomeLive
  <2>2. ~SomeLive'
    BY <1>17, <2>1 DEF Exit, listenerVars, SomeLive, Live
  <2>3. /\ EndpointPort = None /\ EndpointClients = 0
        /\ EndpointPort' = None /\ EndpointClients' = 0
    BY <2>1, <2>2 DEF EndpointDetermined
  <2> QED
    BY <1>17, <2>3 DEF Exit, Endpoint!Next, Endpoint!Halt
<1>18. ASSUME ~exited, NEW l \in Listeners, BindSucceeds(u, l) PROVE Endpoint!Next
  <2>1. \A k \in Listeners : ~Live(k)
    BY <1>18, ListenersAssumption DEF BindSucceeds, Goto, SoleInv, Live
  <2>2. EndpointPort = None /\ EndpointClients = 0
    BY <2>1 DEF EndpointDetermined, SomeLive
  <2>3. /\ phase' = [phase EXCEPT ![l] = "serving"]
        /\ phase'[l] = "serving" /\ boundTo'[l] = arg[u] /\ conns'[l] = conns[l]
        /\ arg[u] \in Ports /\ exited' = exited
    BY <1>18 DEF BindSucceeds, TypeOK
  <2>4. conns[l] = 0
    BY <2>1 DEF SoleInv, TypeOK, Live
  <2>5. AtMostOneListener' /\ Live(l)' /\ Accepting(l)'
    BY <2>1, <2>3 DEF AtMostOneListener, Live, Accepting, TypeOK
  <2>6. EndpointPort' = arg[u] /\ EndpointClients' = 0
    BY <2>3, <2>4, <2>5 DEF EndpointDetermined
  <2> QED
    BY <1>18, <2>2, <2>3, <2>6 DEF Endpoint!Next, Endpoint!Open
<1>19. ASSUME ~exited, NEW l \in Listeners, Connect(l) PROVE Endpoint!Next
  <2>1. /\ Live(l) /\ Live(l)' /\ Accepting(l) /\ Accepting(l)'
        /\ AtMostOneListener' /\ boundTo'[l] = boundTo[l] /\ exited' = exited
        /\ conns'[l] = conns[l] + 1 /\ boundTo[l] # None
    BY <1>19, PortsAssumption DEF Connect, Accepting, Live, AtMostOneListener, TypeOK
  <2> QED
    BY <1>19, <2>1 DEF EndpointDetermined, Endpoint!Next, Endpoint!Arrive
<1>20. ASSUME ~exited, NEW l \in Listeners, Disconnect(l) PROVE Endpoint!Next
  <2>1. /\ Live(l) /\ Live(l)' /\ (Accepting(l)' <=> Accepting(l))
        /\ AtMostOneListener' /\ boundTo'[l] = boundTo[l] /\ exited' = exited
        /\ conns[l] > 0 /\ conns'[l] = conns[l] - 1
    BY <1>20 DEF Disconnect, Accepting, Live, AtMostOneListener, TypeOK, SoleInv
  <2> QED
    BY <1>20, <2>1 DEF EndpointDetermined, Endpoint!Next, Endpoint!Leave
<1>21. ASSUME ~exited, NEW l \in Listeners, StopAccepting(l) PROVE Endpoint!Next
  <2>1. /\ Live(l) /\ Live(l)' /\ Accepting(l) /\ ~Accepting(l)'
        /\ AtMostOneListener' /\ boundTo[l] # None
        /\ UNCHANGED <<conns, exited>>
    BY <1>21, PortsAssumption DEF StopAccepting, Accepting, Live, AtMostOneListener, TypeOK
  <2> QED
    BY <1>21, <2>1 DEF EndpointDetermined, Endpoint!Next, Endpoint!Close
<1>22. ASSUME NEW l \in Listeners, Drained(l) PROVE UNCHANGED Endpoint!vars
  <2>1. /\ Live(l) /\ Live(l)' /\ ~Accepting(l) /\ ~Accepting(l)'
        /\ AtMostOneListener' /\ UNCHANGED <<conns, exited>>
    BY <1>22 DEF Drained, Accepting, Live, AtMostOneListener, TypeOK
  <2> QED
    BY <2>1 DEF EndpointDetermined, Endpoint!vars
<1>23. ASSUME NEW l \in Listeners, ServeFails(l) PROVE FALSE
  BY <1>23 DEF ServeFails
<1>24. ASSUME NEW l \in Listeners, TaskEnds(l) PROVE UNCHANGED Endpoint!vars
  <2>1. /\ Live(l) /\ ~Accepting(l) /\ conns[l] = 0
        /\ phase' = [phase EXCEPT ![l] = "gone"] /\ exited' = exited
    BY <1>24 DEF TaskEnds, Accepting, Live, SoleInv, TypeOK
  <2>2. ~SomeLive'
    BY <2>1 DEF SomeLive, Live, AtMostOneListener, TypeOK
  <2> QED
    BY <2>1, <2>2 DEF EndpointDetermined, Endpoint!vars
<1>25. CASE UNCHANGED vars
  BY <1>25, EndpointUnchanged DEF vars
<1> QED
  BY <1>1, <1>2, <1>3, <1>4, <1>5, <1>6, <1>7, <1>8, <1>9, <1>10, <1>11, <1>12, <1>13, <1>14, <1>15, <1>16, <1>17, <1>18, <1>19, <1>20, <1>21, <1>22, <1>23, <1>24, <1>25 DEF Next, CallerStep, TaskStep, UserStep

\* With one caller, and sockets that do not fail by themselves, the supervisor
\* implements LocalEndpoint: one port at a time, drained before the next.
THEOREM SupervisorImplementsEndpoint ==
  ASSUME NEW u, Callers = {u}, ~MayFail
  PROVE  Spec => ImplementsEndpoint
<1>1. Init => Endpoint!Init
  <2> SUFFICES ASSUME Init PROVE Endpoint!Init
    OBVIOUS
  <2>1. ~SomeLive /\ exited = FALSE
    BY DEF Init, SomeLive, Live
  <2> QED
    BY <2>1, EndpointIsDetermined DEF EndpointDetermined, Endpoint!Init
<1>2. TypeOK /\ SoleInv(u) /\ SoleInv(u)' /\ [Next]_vars
        => [Endpoint!Next]_(Endpoint!vars)
  BY EndpointNext
<1> QED
  BY <1>1, <1>2, TypeCorrect, SoleInvariant, PTL DEF Spec, ImplementsEndpoint, Endpoint!Spec
=============================================================================
