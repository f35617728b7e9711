--------------------------- MODULE MCAgentSwitch ---------------------------
(* Small instances of AgentSwitch for TLC. *)
EXTENDS AgentSwitch, TLC

CONSTANTS a1, a2

\* Agents by what they keep beside the configuration file.
PlainAndSession == a1 :> "plain" @@ a2 :> "session"
Session == a1 :> "session"
Plain == a1 :> "plain"
Sidecar == a1 :> "sidecar"
Env == a1 :> "env"
Index == a1 :> "index"
DatabaseKind == a1 :> "database"

UpTo(fault, delete, crash, overlap) ==
  [fault |-> fault, delete |-> delete, crash |-> crash, overlap |-> overlap]

\* Two failures (a step, and one that undoes it) around a deletion, one around a
\* deletion and a crash, three on their own, or a deletion that overlaps.
FewMishaps == {UpTo(2, 1, 0, 0), UpTo(1, 1, 1, 0), UpTo(3, 0, 0, 0), UpTo(0, 1, 0, 1)}
OneFault == {UpTo(1, 0, 0, 0)}
OneCrash == {UpTo(0, 0, 1, 0)}

Interchangeable == Permutations(Tokens)
=============================================================================
