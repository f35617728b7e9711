------------------------ MODULE MCConfigTransaction ------------------------
(* Small instances of ConfigTransaction for TLC. *)
EXTENDS ConfigTransaction, TLC

CONSTANTS a1, p1, p2, n1, m1

\* The older release backed up the native file and then a managed one.
OlderBackups == <<[agent |-> a1, path |-> p1, content |-> n1],
                  [agent |-> a1, path |-> p1, content |-> m1]>>

History(callers, paths, firstUse, inherited, read, write, crash) ==
  [callers |-> callers, paths |-> paths, firstUse |-> firstUse, inherited |-> inherited,
   read |-> read, write |-> write, crash |-> crash]

\* A new installation, whose agent moves its file and which may crash.
NewInstallation == {History({c}, {p1, p2}, TRUE, <<>>, 0, 0, 1) : c \in Callers}

\* With overlapping transactions: an upgraded installation that may crash, and
\* new ones whose secret store fails for a moment.
Disturbed == {History(Callers, {p1}, FALSE, OlderBackups, 0, 0, 1),
              History(Callers, {p1}, TRUE, <<>>, 1, 0, 0), History(Callers, {p1}, TRUE, <<>>, 0, 1, 0)}

Installations == NewInstallation \cup Disturbed

\* An upgraded installation whose secret store cannot be read for a moment.
UpgradeWhileLocked == {History(Callers, {p1}, FALSE, OlderBackups, 1, 0, 0)}

Interchangeable == Permutations(Callers) \cup Permutations(Keys)
=============================================================================
