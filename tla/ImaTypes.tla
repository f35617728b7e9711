------------------------------ MODULE ImaTypes ------------------------------
(***************************************************************************)
(* What ima's account, its local preferences and the checkpoint of         *)
(* AT-Switch hold.                                                         *)
(***************************************************************************)
EXTENDS Naturals

CONSTANTS
  Inputs,    \* configurations of a custom model: endpoint, key and name
  MaxId,     \* bound on the ids the account gives to rows
  Official,  \* a model of ima itself, the default of both entries
  Empty,     \* no preference
  None

Scenes == 1 .. 2
Ids == 1 .. MaxId
Preferences == Ids \cup {Official, Empty}

\* What both entries prefer online, and their local choice.
Selections == [pref : [Scenes -> Preferences], file : [Scenes -> Ids \cup {Official, None}]]

\* Rows by id, the preferred model of each entry, the next id and, for the
\* properties, the ids of the rows that AT-Switch added.
Accounts ==
  [rows : UNION {[S -> Inputs] : S \in SUBSET Ids}, pref : [Scenes -> Preferences], next : Nat, ours : SUBSET Ids]

\* The managed row; the journal of an operation; the checkpoint.
ManagedRows == [id : Ids, input : Inputs, own : BOOLEAN, selected : BOOLEAN]
Records == ManagedRows \cup {None}
Pendings ==
  [before : Selections, previous : Records, ids : SUBSET Ids, add : Inputs \cup {None}, created : Records]
Checkpoints == [base : Selections, managed : Records, pending : Pendings \cup {None}]

\* There is an id to give, and what is absent is none of what may be there.
ASSUME ImaAssumption ==
  /\ MaxId \in Nat \ {0}
  /\ Official \notin Nat /\ Empty \notin Nat \cup {Official}
  /\ None \notin Inputs \cup ManagedRows \cup Pendings \cup Checkpoints \cup Selections
=============================================================================
