--------------------------- MODULE LocalEndpoint ---------------------------
(***************************************************************************)
(* What an agent and a user may rely on when they point at the local proxy *)
(* (src/src-tauri/src/proxy/server.rs): at any moment at most one port     *)
(* answers; it is given up before another one is opened, and only after    *)
(* its last client has been served; the program quits the same way.        *)
(***************************************************************************)
EXTENDS Naturals

CONSTANTS Ports, NoPort

VARIABLES
  port,     \* the port that accepts connections, or NoPort
  clients,  \* connections being served
  halted    \* the program has quit

vars == <<port, clients, halted>>

Init == port = NoPort /\ clients = 0 /\ halted = FALSE

Open(p) ==
  /\ port = NoPort
  /\ clients = 0
  /\ port' = p
  /\ UNCHANGED <<clients, halted>>

Arrive == port # NoPort /\ clients' = clients + 1 /\ UNCHANGED <<port, halted>>

Leave == clients > 0 /\ clients' = clients - 1 /\ UNCHANGED <<port, halted>>

Close == port # NoPort /\ port' = NoPort /\ UNCHANGED <<clients, halted>>

Halt ==
  /\ port = NoPort
  /\ clients = 0
  /\ halted' = TRUE
  /\ UNCHANGED <<port, clients>>

Next ==
  /\ ~halted
  /\ (\E p \in Ports : Open(p)) \/ Arrive \/ Leave \/ Close \/ Halt

Spec == Init /\ [][Next]_vars
=============================================================================
