------------------------------ MODULE MCAgents ------------------------------
(* Agents for TLC: what its constants are made of.                           *)
EXTENDS Agents, TLC

CONSTANT ide

OneExtra == <<ide>>

\* Two bindings of one provider and one of another; and models of the user's,
\* one with the names of a managed one.
BindingOf(name, model, k) == [name |-> name, model |-> model, key |-> k, url |-> k]
Bindings == {BindingOf("n1", "m1", "k1"), BindingOf("n1", "m2", "k1"), BindingOf("n2", "m2", "k2")}
Own(name, model) == [name |-> name, models |-> {model}, key |-> "own", url |-> "own", mark |-> FALSE]
OwnModels == {Own("n1", "m1"), Own(NoName, "m3"), Own(Built, "m3"), Own("n3", "m3")}

Machines ==
  [agent : {"plain", "workbuddy", "codebuddy", "ima"}, platform : {"macos", "windows"}]
    \cup [agent : {"command"}, platform : {"macos"}]

\* Nothing tells one configuration of ima from another.
Symmetry == Permutations(Inputs)
=============================================================================
