------------------------- MODULE ResponsesLifecycle -------------------------
(***************************************************************************)
(* What a client of the OpenAI Responses API may rely on, one event of the *)
(* stream at a time: the response is created, its output items are         *)
(* announced, extended and closed, and a response is completed only when   *)
(* all of its items are.  A stream may be cut off anywhere.                *)
(***************************************************************************)
EXTENDS Naturals, Sequences

CONSTANTS
  Pieces,  \* pieces of text, or of the arguments of a tool call
  ItemKinds

VARIABLES
  status,   \* none, in_progress or completed
  items,    \* the output items, in the order of their output_index
  received  \* number of events received

vars == <<status, items, received>>

Init ==
  /\ status = "none"
  /\ items = <<>>
  /\ received = 0

Create ==
  /\ status = "none"
  /\ status' = "in_progress"
  /\ UNCHANGED items

Announce(kind) ==
  /\ status = "in_progress"
  /\ items' = Append(items, [kind |-> kind, content |-> <<>>, open |-> TRUE])
  /\ UNCHANGED status

InProgress(i) == status = "in_progress" /\ items[i].open

Extend(i, piece) ==
  /\ InProgress(i)
  /\ items' = [items EXCEPT ![i].content = Append(@, piece)]
  /\ UNCHANGED status

\* Events about the parts of an item.
Elaborate(i) ==
  /\ InProgress(i)
  /\ UNCHANGED <<status, items>>

Close(i) ==
  /\ InProgress(i)
  /\ items' = [items EXCEPT ![i].open = FALSE]
  /\ UNCHANGED status

Complete ==
  /\ status = "in_progress"
  /\ \A i \in DOMAIN items : ~items[i].open
  /\ status' = "completed"
  /\ UNCHANGED items

Next ==
  /\ received' = received + 1
  /\ \/ Create
     \/ \E kind \in ItemKinds : Announce(kind)
     \/ \E i \in DOMAIN items :
          Elaborate(i) \/ Close(i) \/ \E piece \in Pieces : Extend(i, piece)
     \/ Complete

Spec == Init /\ [][Next]_vars
=============================================================================
