------------------------- MODULE TraeSwitch_proofs -------------------------
(* Theorems about TraeSwitch, for every value of its constants. *)
EXTENDS TraeSwitch, FiniteSetTheorems, WellFoundedInduction, TLAPS

-----------------------------------------------------------------------------
(* Types *)

Selectings == [do : {"select", "put"}, label : Labels, to : Selections, task : Tasks \cup {NoTask},
               pick : Selections \cup {Unset}]
Addings == [do : {"add"}, row : Rows]
Deletings == [do : {"delete"}, name : Names]
Commands == Selectings \cup Addings \cup Deletings

PlanSet == [row : Rows, created : BOOLEAN, borrowed : BOOLEAN, replaced : SUBSET Rows, was : States]

\* Before a switch rolls back, and all of it.
Working == {"apply", "review", "verify", "commit"}
SwitchPhases == Working \cup {"handover", "done", "unfinished", "undo", "failed"}
RestorePhases == {"restore", "again", "release", "clean", "restored", "failed"}

SwitchOps ==
  [call : {"switch"}, phase : SwitchPhases, base : Bases, cp : Cps, old : Cps, bound : Bases \cup {None},
   plan : PlanSet, task : Tasks \cup {NoTask}, pick : Selections \cup {Unset}, todo : Seq(Commands),
   tried : SUBSET {"delete", "add", "added"}, bad : SUBSET {"removal", "replaced", "selection"}]
RestoreOps ==
  [call : {"restore"}, phase : RestorePhases, cp : Cps, bound : Bases \cup {None},
   todo : Seq(Commands), kept : SUBSET Names]

Spents == [call : Nat, fault : Nat, crash : Nat, user : Nat]

Typed ==
  /\ trae \in States
  /\ saved \in Cps \cup {None} /\ native \in States \cup {None}
  /\ past \in SUBSET Rows
  /\ binding \in Bases \cup {None} /\ key \in Keys
  /\ op \in {Idle} \cup SwitchOps \cup RestoreOps
  /\ spent \in Spents

-----------------------------------------------------------------------------
(* What a call changes *)

\* What can be seen of TRAE: the selection of a label, the pick of a task, and
\* whether there is a row of some name.
LabelCells == {"label"} \X Labels
RowCells == {"row"} \X Names
TaskCells == {"task"} \X Tasks
Cells == LabelCells \cup RowCells \cup TaskCells

Shown(t, cell) ==
  CASE cell[1] = "label" -> t.chosen[cell[2]]
    [] cell[1] = "task"  -> t.picks[cell[2]]
    [] OTHER             -> IF cell[2] \in DOMAIN t.rows THEN "there" ELSE "gone"

Selecting(c) == c.do \in {"select", "put"}
Writes(c, cell) ==
  CASE cell[1] = "label" -> Selecting(c) /\ c.label = cell[2]
    [] cell[1] = "task"  -> Selecting(c) /\ c.task = cell[2]
    [] OTHER             -> \/ c.do = "add" /\ c.row.name = cell[2]
                            \/ c.do = "delete" /\ c.name = cell[2]
Written(c, cell) ==
  CASE cell[1] = "label" -> c.to
    [] cell[1] = "task"  -> c.pick
    [] OTHER             -> IF c.do = "add" THEN "there" ELSE "gone"

\* u is t after c.
Did(u, t, c) ==
  \A cell \in Cells : Shown(u, cell) = IF Writes(c, cell) THEN Written(c, cell) ELSE Shown(t, cell)

\* Once the calls of todo are made, a cell has the value v: from one of them on,
\* or from now on, each call that writes the cell writes v.
WillBe(t, todo, cell, v) ==
  \E i \in 0 .. Len(todo) :
    /\ IF i = 0 THEN Shown(t, cell) = v ELSE Writes(todo[i], cell) /\ Written(todo[i], cell) = v
    /\ \A j \in i + 1 .. Len(todo) : Writes(todo[j], cell) => Written(todo[j], cell) = v

\* Then TRAE shows in the cells of C what w shows.
Becomes(C, t, todo, w) == \A cell \in C : WillBe(t, todo, cell, Shown(w, cell))

\* Before a row is added only rows are deleted, and none after it.
Ordered(todo) ==
  \A i, j \in DOMAIN todo : i < j =>
    /\ todo[j].do = "add" => todo[i].do = "delete"
    /\ todo[j].do = "delete" => todo[i].do # "add"

\* What is selected in passing is put back at last.
Covered(todo) ==
  \A i \in DOMAIN todo : todo[i].do = "select" =>
    \E j \in DOMAIN todo : i < j /\ todo[j].do = "put" /\ todo[j].label = todo[i].label

-----------------------------------------------------------------------------
(* The inductive invariant *)

OneRowAModel(rows) == \A n, m \in DOMAIN rows : n[1] = m[1] => n = m
OneRowAName(owned) == \A r, q \in owned : r.name = q.name => r = q

\* A checkpoint has the baseline of before the first takeover, and its rows are in
\* the history.
Fits(cp) ==
  /\ cp.owned \subseteq past /\ OneRowAName(cp.owned)
  /\ native # None
  /\ cp.base = native.chosen /\ cp.task = native.task /\ cp.pick = StoredPick(native)

InSwitch == op.call = "switch"
InRestore == op.call = "restore"
Ended == {"idle", "done", "failed", "unfinished", "restored"}

\* The checkpoints: the one saved is that of the operation until it has ended.
Held ==
  /\ saved = None => native = None /\ past = {} /\ op = Idle
  /\ saved # None => Fits(saved)
  /\ InSwitch => Fits(op.cp) /\ Fits(op.old)
  /\ InRestore => Fits(op.cp)
  /\ InSwitch /\ op.phase \notin {"failed", "undo"} => saved = op.cp
  \* The baseline of the task that ended the switch may be missing.
  /\ InSwitch /\ op.phase = "undo" =>
       /\ saved.owned = op.cp.owned /\ saved.active = op.cp.active /\ saved.pending = op.cp.pending
       /\ op.cp.pending \/ saved = op.cp
  /\ InRestore /\ op.phase \notin {"failed", "restored"} => saved = op.cp

\* The rows: AT-Switch's are in the history, with the number of a switch; there is
\* one for a model; and those of before the first takeover are still there.
Found ==
  /\ \A r \in past : r.name[2] \in 1 .. spent.call
  /\ spent.call <= MaxCalls
  /\ OnRecord
  /\ OneRowAModel(trae.rows)
  /\ native # None => \A n \in DOMAIN native.rows : n[2] = 0 /\ n \in DOMAIN trae.rows

\* The name of the row a switch is about, and the state it was planned in.
Name == op.plan.row.name
Was == op.plan.was

\* The plan of a switch.
PlanOK ==
  InSwitch /\ op.phase \in Working \cup {"undo"} =>
  LET plan == op.plan IN
  /\ OneRowAModel(Was.rows)
  /\ \A l \in Labels : Was.chosen[l] \in Exists(Was.rows)
  /\ plan.replaced \subseteq past /\ (plan.replaced = {} \/ \E r \in Rows : plan.replaced = {r} /\ r.name = Name)
  /\ plan.created =>
       /\ ~plan.borrowed /\ plan.row \in op.cp.owned
       /\ plan.replaced # {} => Name \in DOMAIN Was.rows
       /\ plan.replaced = {} => \A n \in DOMAIN Was.rows : n[1] # Name[1]
  /\ ~plan.created => Name \in DOMAIN Was.rows /\ plan.replaced = {}
  /\ Name[1] = op.base
  /\ native # None => \A n \in DOMAIN native.rows : n \in DOMAIN Was.rows
  \* Only the row of the plan comes or goes, and only if the plan says so.
  /\ \A n \in Names : (n = Name /\ plan.created) \/ (n \in DOMAIN trae.rows <=> n \in DOMAIN Was.rows)
  \* Of the picks only those of the tasks that are switched change.
  /\ \A t \in Tasks : t \in {op.task, Was.task} \/ trae.picks[t] = Was.picks[t]
  /\ op.task # NoTask => op.pick \in Selections
  /\ op.task # NoTask /\ op.task = Was.task => op.pick \in Exists(Was.rows)
  /\ op.task # Was.task => Was.task = NoTask /\ spent.user >= 1
  /\ op.task # Was.task => op.pick = Was.picks[op.task]

\* The calls of a switch, and what they are to achieve.
AppliesOf(plan, task) ==
  {c \in Commands :
     /\ c.do = "delete" => c.name = plan.row.name /\ plan.created /\ plan.replaced # {}
     /\ c.do = "add" => c.row = plan.row /\ plan.created
     /\ c.do # "put"
     /\ c.do = "select" => c.to = plan.row.name /\ c.pick = plan.row.name /\ c.task \in {NoTask, task}}
Switched(name) ==
  [rows |-> [n \in {name} |-> Unset], chosen |-> [l \in Labels |-> name],
   task |-> NoTask, picks |-> [t \in Tasks |-> name]]
AimsOf(name, task) == LabelCells \cup {<<"row", name>>} \cup {c \in TaskCells : c[2] = task}

\* What has been tried says what may have become of the row.
TriedOK ==
  /\ "delete" \in op.tried => op.plan.replaced # {}
  /\ "add" \in op.tried => op.plan.created
  /\ "added" \in op.tried => "add" \in op.tried
  /\ "add" \notin op.tried /\ "delete" \notin op.tried =>
       (Name \in DOMAIN trae.rows <=> Name \in DOMAIN Was.rows)

Forward ==
  InSwitch /\ op.phase \in Working =>
    /\ op.todo \in Seq(AppliesOf(op.plan, op.task)) /\ Ordered(op.todo)
    /\ Becomes(AimsOf(Name, op.task), trae, op.todo, Switched(Name))
    /\ TriedOK
    /\ "add" \in op.tried /\ op.plan.replaced # {} => "delete" \in op.tried
    /\ op.plan.replaced # {} => "delete" \in op.tried \/ \E i \in DOMAIN op.todo : op.todo[i].do = "delete"
    \* The row replaced is gone when the new one is made.
    /\ (\E i \in DOMAIN op.todo : op.todo[i].do = "add") /\ (\A i \in DOMAIN op.todo : op.todo[i].do # "delete") =>
         Name \notin DOMAIN trae.rows
    /\ op.phase \in {"verify", "commit"} => op.todo = <<>>
    /\ op.phase # "commit" => op.cp.pending
    /\ op.phase = "commit" => ~op.cp.pending /\ op.cp.active = Name
    /\ op.phase # "commit" => op.cp.active = op.old.active
    /\ op.bad = {}
    /\ trae.task # op.task => spent.user >= 1
    /\ trae.task # op.task /\ op.task # Was.task => spent.user >= 2

\* The calls of a rollback.
UndoesOf(plan, task, pick) ==
  {c \in Commands :
     /\ c.do = "delete" => c.name = plan.row.name /\ plan.created
     /\ c.do = "add" => c.row = plan.row /\ plan.created
     /\ c.do = "select" => c.to = pick /\ c.pick = pick /\ c.task = task /\ task # NoTask /\ c.label = Primary
     /\ c.do = "put" => c.task \in {NoTask, plan.was.task}}

Mishaps == spent.fault + spent.user
Accidents == spent.fault + spent.crash
OneFault == spent.crash = 0 /\ spent.fault <= 1
Few == Accidents <= 1 \/ (spent.crash = 0 /\ spent.fault <= 2)

\* Rows of the model that was active are the active row, whatever became of the
\* row of the plan.
ActiveAlone == \A n \in DOMAIN Was.rows \cup {Name} : op.old.active # None /\ n[1] = op.old.active[1] => n = op.old.active

Backward ==
  InSwitch /\ op.phase = "undo" =>
    /\ op.todo \in Seq(UndoesOf(op.plan, op.task, op.pick)) /\ Ordered(op.todo) /\ Covered(op.todo)
    /\ op.bad = {} => Becomes(Cells, trae, op.todo, Was)
    /\ Mishaps <= 1 => op.bad = {}
    /\ Mishaps >= 1
    /\ op.task # Was.task => Mishaps >= 2
    /\ ~op.cp.pending => spent.fault >= 1 /\ op.cp.active = Name
    /\ op.cp.pending => op.cp.active = op.old.active
    /\ ~op.cp.pending /\ spent.fault <= 1 => Becomes(LabelCells \cup RowCells, trae, op.todo, Was)
    /\ Accidents = 0 => Becomes(RowCells, trae, op.todo, Was)
    /\ Few => Becomes(RowCells, trae, op.todo, Was) \/ ActiveAlone

\* A rollback that is complete has undone the switch.
Undone ==
  InSwitch /\ op.phase = "failed" => saved.pending \/ Same(trae, Was) \/ (op.bad # {} /\ saved = op.cp /\ ~op.cp.pending)

\* The calls of a restore, of its clean-up, and of a restore that gives up; and
\* what they are to achieve.
Native(cp) == [rows |-> NoRows, chosen |-> cp.base, task |-> NoTask, picks |-> [t \in Tasks |-> cp.pick]]
Defaults(cp) == LabelCells \cup {c \in TaskCells : c[2] = cp.task}
RemovesOf(cp) == {c \in Deletings : \E r \in cp.owned : r.name = c.name}
ReselectsOf(cp) == {c \in Selectings : c.do = "select" /\ c.to = cp.active /\ cp.active # None /\ c.task = NoTask}
Reselected(active) == [rows |-> NoRows, chosen |-> [l \in Labels |-> active], task |-> NoTask, picks |-> <<>>]

Returning ==
  InRestore =>
    /\ op.phase = "restore" => op.todo \in Seq(Selectings) /\ Becomes(Defaults(op.cp), trae, op.todo, Native(op.cp)) /\ op.cp.pending
    /\ op.phase \in {"release", "clean", "restored"} => Becomes(Defaults(op.cp), trae, <<>>, Native(op.cp))
    /\ op.phase \in {"again", "release"} => op.cp.pending
    /\ op.phase = "again" =>
         /\ op.todo \in Seq(ReselectsOf(op.cp))
         /\ op.cp.active # None => Becomes(LabelCells, trae, op.todo, Reselected(op.cp.active))
         /\ op.cp.active # None /\ op.todo = <<>> => op.cp.active \in DOMAIN trae.rows
         /\ op.cp.active = None => op.todo = <<>>
    /\ op.phase = "clean" =>
         /\ op.todo \in Seq(RemovesOf(op.cp)) /\ op.cp.active = None
         /\ \A n \in DOMAIN trae.rows : Named(op.cp.owned, n) # {} =>
              n \in op.kept \/ \E i \in DOMAIN op.todo : op.todo[i].name = n
    /\ op.phase = "restored" => saved.active = None

\* With at most one mishap every row that AT-Switch made is on the checkpoint.
Accounted ==
  saved # None /\ Mishaps <= 1 => \A n \in DOMAIN trae.rows : n[2] = 0 \/ Named(saved.owned, n) # {}

\* What is selected is there.
Healthy ==
  /\ saved = None => \A l \in Labels : trae.chosen[l] \in Exists(trae.rows)
  /\ saved # None /\ ~saved.pending /\ saved.active # None /\ op.phase # "undo"
     /\ (spent.fault = 0 \/ (spent.crash = 0 /\ spent.fault <= 2)) =>
       \A l \in Labels : trae.chosen[l] \in Exists(trae.rows)

\* The active row is there and has its model to itself.
AloneIn(rows, active) == active # None => \A n \in DOMAIN rows : n[1] = active[1] => n = active
Active ==
  saved # None /\ op.phase \notin {"apply", "review", "verify", "undo"} =>
    /\ Accidents = 0 => saved.active \in DOMAIN trae.rows \cup {None}
    /\ Few => AloneIn(trae.rows, saved.active)

\* So it was when a switch was planned.
WasActive ==
  InSwitch /\ op.phase \in Working \cup {"undo"} =>
    /\ Accidents = 0 => op.old.active \in DOMAIN Was.rows \cup {None}
    /\ Few => AloneIn(Was.rows, op.old.active)

\* After one failure at most, the active row is there, or its name is on no record
\* and the next row of its model gets it.
Lasts(cp, rows) == cp.active \in DOMAIN rows \cup {None} \/ (cp.active[2] = 1 /\ Named(cp.owned, cp.active) = {})

\* The rows that a plan can be about.
PlanLasts ==
  InSwitch /\ op.phase \in Working \cup {"undo"} =>
    /\ op.cp.owned \subseteq op.old.owned \cup op.plan.replaced \cup {op.plan.row}
    /\ op.plan.replaced # {} => op.plan.created /\ Name[2] = 1
    /\ op.plan.created =>
         LET first == <<Name[1], 1>> IN
         Name = first \/ first \in DOMAIN Was.rows \/ Named(op.old.owned, first) # {}

\* A rollback of which one call fails loses the row that was replaced at most,
\* and its record with it.
UndoLasts ==
  InSwitch /\ op.phase = "undo" =>
    /\ spent.fault = 0 => "removal" \notin op.bad
    /\ OneFault =>
         IF op.old.active \in DOMAIN Was.rows
         THEN \/ WillBe(trae, op.todo, <<"row", op.old.active>>, "there")
              \/ op.old.active = Name /\ Name[2] = 1 /\ op.plan.created /\ "removal" \notin op.bad
         ELSE op.old.active = None \/ "removal" \notin op.bad

Lasting ==
  /\ saved # None /\ op.phase \notin {"apply", "review", "verify", "undo"} /\ OneFault => Lasts(saved, trae.rows)
  /\ InSwitch /\ op.phase \in Working \cup {"undo"} /\ OneFault => Lasts(op.old, Was.rows)
  /\ PlanLasts /\ UndoLasts

Core ==
  /\ Typed /\ Held /\ Found /\ PlanOK /\ Forward /\ Backward /\ Undone
  /\ Returning /\ Accounted /\ Healthy /\ Active /\ WasActive

IInv == Core /\ Lasting

-----------------------------------------------------------------------------
(* States and calls *)

\* Every set of numbers that is not empty has a smallest member.
LEMMA HasMin == ASSUME NEW S \in SUBSET Nat, S # {} PROVE \E p \in S : \A q \in S : p <= q
<1>1. IsWellFoundedOn(OpToRel(<, Nat), Nat)
  BY NatLessThanWellFounded, Zenon
<1>2. PICK x \in S : \A y \in S : ~(<<y, x>> \in OpToRel(<, Nat))
  BY <1>1, WFMin, Zenon
<1>3. \A y \in S : ~(y < x)
  BY <1>2 DEF OpToRel
<1> QED BY <1>3

LEMMA StateFields ==
  ASSUME NEW t \in States
  PROVE  /\ DOMAIN t.rows \in SUBSET Names /\ t.rows \in [DOMAIN t.rows -> Keys \cup {Unset}]
         /\ t.chosen \in [Labels -> Selections] /\ t.task \in Tasks \cup {NoTask}
         /\ t.picks \in [Tasks -> Selections \cup {Unset}]
         /\ DOMAIN t = {"rows", "chosen", "task", "picks"}
BY DEF States

LEMMA CommandIs ==
  ASSUME NEW c \in Commands
  PROVE  \/ /\ Selecting(c) /\ c \in Selectings /\ c.label \in Labels /\ c.to \in Selections
            /\ c.task \in Tasks \cup {NoTask} /\ c.pick \in Selections \cup {Unset}
            /\ c.do # "add" /\ c.do # "delete"
         \/ c.do = "add" /\ ~Selecting(c) /\ c \in Addings /\ c.row \in Rows
         \/ c.do = "delete" /\ ~Selecting(c) /\ c \in Deletings /\ c.name \in Names
BY DEF Commands, Selectings, Addings, Deletings, Selecting

LEMMA RowFields == ASSUME NEW r \in Rows PROVE r.name \in Names /\ r.key \in Keys
BY DEF Rows

\* A call keeps the type of TRAE's state and leaves the open task alone.
LEMMA AfterTyped ==
  ASSUME trae \in States, NEW c \in Commands
  PROVE  After(c) \in States /\ After(c).task = trae.task
<1>1. CASE Selecting(c)
  <2>1. c.label \in Labels /\ c.to \in Selections /\ c.task \in Tasks \cup {NoTask} /\ c.pick \in Selections \cup {Unset}
    BY <1>1, CommandIs
  <2>2. After(c) = [trae EXCEPT !.chosen[c.label] = c.to, !.picks = [t \in Tasks |-> IF t = c.task THEN c.pick ELSE @[t]]]
    BY <1>1 DEF After, Selecting
  <2> QED BY <2>1, <2>2 DEF States
<1>2. CASE c.do = "add"
  <2>1. c.row.name \in Names /\ c.row.key \in Keys
    BY <1>2, CommandIs, RowFields
  <2> DEFINE rows == [n \in DOMAIN trae.rows \cup {c.row.name} |-> IF n = c.row.name THEN c.row.key ELSE trae.rows[n]]
  <2>2. After(c) = [trae EXCEPT !.rows = rows]
    BY <1>2 DEF After
  <2>3. DOMAIN trae.rows \cup {c.row.name} \in SUBSET Names
    BY <2>1, StateFields
  <2>4. rows \in [DOMAIN trae.rows \cup {c.row.name} -> Keys \cup {Unset}]
    BY <2>1, StateFields
  <2> HIDE DEF rows
  <2> QED BY <2>2, <2>3, <2>4 DEF States
<1>3. CASE c.do = "delete"
  <2> DEFINE rows == [n \in DOMAIN trae.rows \ {c.name} |-> trae.rows[n]]
  <2>2. After(c) = [trae EXCEPT !.rows = rows]
    BY <1>3 DEF After
  <2>3. DOMAIN trae.rows \ {c.name} \in SUBSET Names
    BY StateFields
  <2>4. rows \in [DOMAIN trae.rows \ {c.name} -> Keys \cup {Unset}]
    BY StateFields
  <2> HIDE DEF rows
  <2> QED BY <2>2, <2>3, <2>4 DEF States
<1> QED BY <1>1, <1>2, <1>3, CommandIs

LEMMA AfterRows ==
  ASSUME trae \in States, NEW c \in Commands
  PROVE  DOMAIN After(c).rows = CASE c.do = "add" -> DOMAIN trae.rows \cup {c.row.name}
                                  [] c.do = "delete" -> DOMAIN trae.rows \ {c.name}
                                  [] OTHER -> DOMAIN trae.rows
<1>1. CASE Selecting(c)
  BY <1>1, StateFields DEF After, Selecting
<1>2. CASE c.do = "add"
  BY <1>2, StateFields DEF After
<1>3. CASE c.do = "delete"
  BY <1>3, StateFields DEF After
<1> QED BY <1>1, <1>2, <1>3, CommandIs

LEMMA CellIs ==
  ASSUME NEW cell \in Cells
  PROVE  \/ cell[1] = "label" /\ cell[2] \in Labels
         \/ cell[1] = "row" /\ cell[2] \in Names
         \/ cell[1] = "task" /\ cell[2] \in Tasks
BY DEF Cells, LabelCells, RowCells, TaskCells

\* After a call TRAE shows what the call wrote, and what it showed.
LEMMA AfterDid ==
  ASSUME trae \in States, NEW c \in Commands
  PROVE  Did(After(c), trae, c)
<1> SUFFICES ASSUME NEW cell \in Cells
             PROVE  Shown(After(c), cell) = IF Writes(c, cell) THEN Written(c, cell) ELSE Shown(trae, cell)
  BY DEF Did
<1>1. CASE cell[1] = "row"
  BY <1>1, AfterRows, CommandIs DEF Shown, Writes, Written
<1>2. CASE cell[1] = "label" /\ cell[2] \in Labels
  <2>1. CASE Selecting(c)
    <3>1. c.label \in Labels
      BY <2>1, CommandIs
    <3>2. After(c).chosen = [trae.chosen EXCEPT ![c.label] = c.to]
      BY <2>1, StateFields DEF After, Selecting
    <3> QED BY <1>2, <2>1, <3>1, <3>2, StateFields DEF Shown, Writes, Written
  <2>2. CASE ~Selecting(c)
    <3>1. After(c).chosen = trae.chosen
      BY <2>2, CommandIs, StateFields DEF After, Selecting
    <3> QED BY <1>2, <2>2, <3>1 DEF Shown, Writes
  <2> QED BY <2>1, <2>2
<1>3. CASE cell[1] = "task" /\ cell[2] \in Tasks
  <2>1. CASE Selecting(c)
    <3>2. After(c).picks = [t \in Tasks |-> IF t = c.task THEN c.pick ELSE trae.picks[t]]
      BY <2>1, StateFields DEF After, Selecting
    <3> QED BY <1>3, <2>1, <3>2, StateFields DEF Shown, Writes, Written
  <2>2. CASE ~Selecting(c)
    <3>1. After(c).picks = trae.picks
      BY <2>2, CommandIs, StateFields DEF After, Selecting
    <3> QED BY <1>3, <2>2, <3>1 DEF Shown, Writes
  <2> QED BY <2>1, <2>2
<1> QED BY <1>1, <1>2, <1>3, CellIs

\* A call that succeeds has its effect, ...
LEMMA AnsweredTrue ==
  ASSUME trae \in States, NEW c \in Commands, Answered(c, TRUE)
  PROVE  /\ trae' \in States /\ trae'.task = trae.task /\ Did(trae', trae, c)
         /\ DOMAIN trae'.rows = DOMAIN After(c).rows
         /\ Accepts(c) /\ spent' = spent
BY AfterTyped, AfterDid DEF Answered

\* ... and one that fails was refused, or had it or not.
LEMMA AnsweredFalse ==
  ASSUME trae \in States, NEW c \in Commands, Answered(c, FALSE)
  PROVE  /\ trae' \in States /\ trae'.task = trae.task
         /\ trae' = trae \/ (Did(trae', trae, c) /\ DOMAIN trae'.rows = DOMAIN After(c).rows /\ Accepts(c))
         /\ ~Fault => ~Accepts(c) /\ spent' = spent /\ trae' = trae
<1>1. trae' = trae \/ (trae' = After(c) /\ Accepts(c))
  BY DEF Answered
<1> QED BY <1>1, AfterTyped, AfterDid DEF Answered

LEMMA SpentMore ==
  ASSUME spent \in Spents
  PROVE  /\ Fault => spent' = [spent EXCEPT !.fault = spent.fault + 1]
         /\ Spend("user") => spent' = [spent EXCEPT !.user = spent.user + 1]
         /\ Spend("crash") => spent' = [spent EXCEPT !.crash = spent.crash + 1]
         /\ Calls => spent' = [spent EXCEPT !.call = spent.call + 1] /\ spent.call < MaxCalls
BY DEF Fault, Spend, Calls, Spents

LEMMA SpentIs ==
  ASSUME spent \in Spents
  PROVE  /\ spent.call \in Nat /\ spent.fault \in Nat /\ spent.crash \in Nat /\ spent.user \in Nat
         /\ Fault => /\ spent' \in Spents /\ spent'.fault = spent.fault + 1 /\ spent'.crash = spent.crash
                     /\ spent'.user = spent.user /\ spent'.call = spent.call
         /\ Spend("user") => /\ spent' \in Spents /\ spent'.fault = spent.fault /\ spent'.crash = spent.crash
                             /\ spent'.user = spent.user + 1 /\ spent'.call = spent.call
         /\ Spend("crash") => /\ spent' \in Spents /\ spent'.fault = spent.fault /\ spent'.crash = spent.crash + 1
                              /\ spent'.user = spent.user /\ spent'.call = spent.call
         /\ Calls => /\ spent' \in Spents /\ spent'.fault = spent.fault /\ spent'.crash = spent.crash
                     /\ spent'.user = spent.user /\ spent'.call = spent.call + 1 /\ spent.call < MaxCalls
BY SpentMore DEF Spents

-----------------------------------------------------------------------------
(* Series of calls *)

\* A call that shows its effect leaves the cell to the calls after it.
LEMMA WillBeStep ==
  ASSUME NEW S, NEW todo \in Seq(S), todo # <<>>, NEW t, NEW u, NEW cell, NEW v, WillBe(t, todo, cell, v),
         Shown(u, cell) = IF Writes(Head(todo), cell) THEN Written(Head(todo), cell) ELSE Shown(t, cell)
  PROVE  WillBe(u, Tail(todo), cell, v)
<1>1. PICK i \in 0 .. Len(todo) :
        /\ IF i = 0 THEN Shown(t, cell) = v ELSE Writes(todo[i], cell) /\ Written(todo[i], cell) = v
        /\ \A j \in i + 1 .. Len(todo) : Writes(todo[j], cell) => Written(todo[j], cell) = v
  BY DEF WillBe
<1>2. Len(todo) \in Nat \ {0} /\ Head(todo) = todo[1] /\ Len(Tail(todo)) = Len(todo) - 1
      /\ \A j \in 1 .. Len(todo) - 1 : Tail(todo)[j] = todo[j + 1]
  OBVIOUS
<1>3. CASE i >= 2
  <2>1. i - 1 \in 0 .. Len(Tail(todo)) /\ i - 1 # 0 /\ Tail(todo)[i - 1] = todo[i]
    BY <1>2, <1>3
  <2>2. \A j \in (i - 1) + 1 .. Len(Tail(todo)) : Tail(todo)[j] = todo[j + 1] /\ j + 1 \in i + 1 .. Len(todo)
    BY <1>2, <1>3
  <2> QED BY <1>1, <2>1, <2>2 DEF WillBe
<1>4. CASE i < 2
  <2>1. Shown(u, cell) = v
    BY <1>1, <1>2, <1>4
  <2>2. 0 \in 0 .. Len(Tail(todo))
    BY <1>2
  <2>3. \A j \in 0 + 1 .. Len(Tail(todo)) : Tail(todo)[j] = todo[j + 1] /\ j + 1 \in i + 1 .. Len(todo)
    BY <1>2, <1>4
  <2> QED BY <1>1, <2>1, <2>2, <2>3 DEF WillBe
<1> QED BY <1>3, <1>4

\* What is written again later may be anything now.
LEMMA WillBeLater ==
  ASSUME NEW S, NEW todo \in Seq(S), todo # <<>>, NEW t, NEW u, NEW cell, NEW v, WillBe(t, todo, cell, v),
         NEW k \in 2 .. Len(todo), Writes(todo[k], cell)
  PROVE  WillBe(u, Tail(todo), cell, v)
<1>1. PICK i \in 0 .. Len(todo) :
        /\ IF i = 0 THEN Shown(t, cell) = v ELSE Writes(todo[i], cell) /\ Written(todo[i], cell) = v
        /\ \A j \in i + 1 .. Len(todo) : Writes(todo[j], cell) => Written(todo[j], cell) = v
  BY DEF WillBe
<1>2. Len(todo) \in Nat \ {0} /\ Len(Tail(todo)) = Len(todo) - 1
      /\ \A j \in 1 .. Len(todo) - 1 : Tail(todo)[j] = todo[j + 1]
  OBVIOUS
<1>3. PICK m \in 2 .. Len(todo) : m >= i /\ Writes(todo[m], cell) /\ Written(todo[m], cell) = v
  <2>1. CASE k <= i
    BY <1>1, <1>2, <2>1
  <2>2. CASE k > i
    BY <1>1, <1>2, <2>2
  <2> QED BY <2>1, <2>2, <1>2
<1>4. m - 1 \in 0 .. Len(Tail(todo)) /\ m - 1 # 0 /\ Tail(todo)[m - 1] = todo[m]
  BY <1>2, <1>3
<1>5. \A j \in (m - 1) + 1 .. Len(Tail(todo)) : Tail(todo)[j] = todo[j + 1] /\ j + 1 \in i + 1 .. Len(todo)
  BY <1>2, <1>3
<1> QED BY <1>1, <1>3, <1>4, <1>5 DEF WillBe

\* Every call that writes the cell writes v.
LEMMA WillBeAll ==
  ASSUME NEW S, NEW todo \in Seq(S), NEW t, NEW cell, NEW v,
         \A j \in DOMAIN todo : Writes(todo[j], cell) => Written(todo[j], cell) = v,
         Shown(t, cell) = v \/ \E j \in DOMAIN todo : Writes(todo[j], cell)
  PROVE  WillBe(t, todo, cell, v)
<1>1. DOMAIN todo = 1 .. Len(todo) /\ Len(todo) \in Nat
  OBVIOUS
<1>2. CASE Shown(t, cell) = v
  <2>1. 0 \in 0 .. Len(todo) /\ \A j \in 0 + 1 .. Len(todo) : j \in DOMAIN todo
    BY <1>1
  <2> QED BY <1>2, <2>1 DEF WillBe
<1>3. ASSUME NEW i \in DOMAIN todo, Writes(todo[i], cell) PROVE WillBe(t, todo, cell, v)
  <2>1. i \in 0 .. Len(todo) /\ i # 0 /\ \A j \in i + 1 .. Len(todo) : j \in DOMAIN todo
    BY <1>1
  <2> QED BY <1>3, <2>1 DEF WillBe
<1> QED BY <1>2, <1>3

LEMMA CatIs ==
  ASSUME NEW S, NEW a \in Seq(S), NEW b \in Seq(S)
  PROVE  /\ a \o b \in Seq(S) /\ Len(a \o b) = Len(a) + Len(b) /\ Len(a) \in Nat /\ Len(b) \in Nat
         /\ DOMAIN a = 1 .. Len(a) /\ DOMAIN b = 1 .. Len(b)
         /\ DOMAIN (a \o b) = 1 .. Len(a) + Len(b)
         /\ \A i \in 1 .. Len(a) + Len(b) : (a \o b)[i] = IF i <= Len(a) THEN a[i] ELSE b[i - Len(a)]
OBVIOUS

\* The calls of the second part decide, ...
LEMMA WillBeSecond ==
  ASSUME NEW S, NEW a \in Seq(S), NEW b \in Seq(S), NEW t, NEW cell, NEW v,
         \A j \in DOMAIN b : Writes(b[j], cell) => Written(b[j], cell) = v,
         \E j \in DOMAIN b : Writes(b[j], cell)
  PROVE  WillBe(t, a \o b, cell, v)
<1>1. PICK k \in DOMAIN b : Writes(b[k], cell)
  OBVIOUS
<1>2. Len(a) + k \in 0 .. Len(a \o b) /\ Len(a) + k # 0 /\ (a \o b)[Len(a) + k] = b[k]
  BY CatIs
<1>3. \A j \in (Len(a) + k) + 1 .. Len(a \o b) : j - Len(a) \in DOMAIN b /\ (a \o b)[j] = b[j - Len(a)]
  BY CatIs
<1> QED BY <1>1, <1>2, <1>3 DEF WillBe

\* ... and those of the first if none of the second has another value.
LEMMA WillBeFirst ==
  ASSUME NEW S, NEW a \in Seq(S), NEW b \in Seq(S), NEW t, NEW cell, NEW v, WillBe(t, a, cell, v),
         \A j \in DOMAIN b : Writes(b[j], cell) => Written(b[j], cell) = v
  PROVE  WillBe(t, a \o b, cell, v)
<1>1. PICK i \in 0 .. Len(a) :
        /\ IF i = 0 THEN Shown(t, cell) = v ELSE Writes(a[i], cell) /\ Written(a[i], cell) = v
        /\ \A j \in i + 1 .. Len(a) : Writes(a[j], cell) => Written(a[j], cell) = v
  BY DEF WillBe
<1>2. i \in 0 .. Len(a \o b) /\ (i # 0 => (a \o b)[i] = a[i])
  BY CatIs
<1>3. ASSUME NEW j \in i + 1 .. Len(a \o b), Writes((a \o b)[j], cell) PROVE Written((a \o b)[j], cell) = v
  <2>1. CASE j <= Len(a)
    BY CatIs, <1>1, <1>3, <2>1
  <2>2. CASE j > Len(a)
    <3>1. j - Len(a) \in DOMAIN b /\ (a \o b)[j] = b[j - Len(a)]
      BY CatIs, <2>2
    <3> QED BY <1>3, <3>1
  <2> QED BY <2>1, <2>2, CatIs
<1> QED BY <1>1, <1>2, <1>3 DEF WillBe

LEMMA BecomesStep ==
  ASSUME NEW S, NEW todo \in Seq(S), todo # <<>>, NEW t, NEW u, NEW w, NEW C \in SUBSET Cells,
         Becomes(C, t, todo, w), Did(u, t, Head(todo))
  PROVE  Becomes(C, u, Tail(todo), w)
<1> SUFFICES ASSUME NEW cell \in C PROVE WillBe(u, Tail(todo), cell, Shown(w, cell))
  BY DEF Becomes
<1>1. WillBe(t, todo, cell, Shown(w, cell))
  BY DEF Becomes
<1>2. Shown(u, cell) = IF Writes(Head(todo), cell) THEN Written(Head(todo), cell) ELSE Shown(t, cell)
  BY DEF Did
<1> HIDE DEF WillBe, Shown, Writes, Written
<1> QED BY <1>1, <1>2, WillBeStep

LEMMA BecomesSame ==
  ASSUME NEW todo, NEW t, NEW u, NEW w, NEW C, Becomes(C, t, todo, w),
         \A cell \in C : Shown(u, cell) = Shown(t, cell)
  PROVE  Becomes(C, u, todo, w)
BY DEF Becomes, WillBe

LEMMA BecomesDone ==
  ASSUME NEW t, NEW w, NEW C
  PROVE  Becomes(C, t, <<>>, w) <=> \A cell \in C : Shown(t, cell) = Shown(w, cell)
BY DEF Becomes, WillBe

LEMMA BecomesPart ==
  ASSUME NEW t, NEW todo, NEW w, NEW C, NEW D, Becomes(C, t, todo, w), D \subseteq C
  PROVE  Becomes(D, t, todo, w)
BY DEF Becomes

\* What is left of a series is in order, too.
LEMMA OrderedTail ==
  ASSUME NEW S, NEW todo \in Seq(S), todo # <<>>, Ordered(todo) PROVE Ordered(Tail(todo))
<1>1. \A i \in DOMAIN Tail(todo) : i + 1 \in DOMAIN todo /\ Tail(todo)[i] = todo[i + 1] /\ i \in Nat
  OBVIOUS
<1>2. \A i, j \in DOMAIN Tail(todo) : i < j => i + 1 < j + 1
  BY <1>1
<1> QED BY <1>1, <1>2 DEF Ordered

LEMMA OrderedCat ==
  ASSUME NEW S, NEW a \in Seq(S), NEW b \in Seq(S), Ordered(a), Ordered(b),
         \A i \in DOMAIN a, j \in DOMAIN b :
           (b[j].do = "add" => a[i].do = "delete") /\ (b[j].do = "delete" => a[i].do # "add")
  PROVE  Ordered(a \o b)
<1> SUFFICES ASSUME NEW i \in DOMAIN (a \o b), NEW j \in DOMAIN (a \o b), i < j
             PROVE  /\ (a \o b)[j].do = "add" => (a \o b)[i].do = "delete"
                    /\ (a \o b)[j].do = "delete" => (a \o b)[i].do # "add"
  BY DEF Ordered
<1>1. CASE j <= Len(a)
  <2>1. i \in DOMAIN a /\ j \in DOMAIN a /\ (a \o b)[i] = a[i] /\ (a \o b)[j] = a[j]
    BY CatIs, <1>1
  <2> QED BY <2>1 DEF Ordered
<1>2. CASE j > Len(a) /\ i <= Len(a)
  <2>1. i \in DOMAIN a /\ j - Len(a) \in DOMAIN b /\ (a \o b)[i] = a[i] /\ (a \o b)[j] = b[j - Len(a)]
    BY CatIs, <1>2
  <2> QED BY <2>1
<1>3. CASE i > Len(a)
  <2>1. i - Len(a) \in DOMAIN b /\ j - Len(a) \in DOMAIN b /\ (a \o b)[i] = b[i - Len(a)] /\ (a \o b)[j] = b[j - Len(a)]
        /\ i - Len(a) < j - Len(a)
    BY CatIs, <1>3
  <2> QED BY <2>1 DEF Ordered
<1> QED BY <1>1, <1>2, <1>3, CatIs

LEMMA CoveredTail ==
  ASSUME NEW S, NEW todo \in Seq(S), todo # <<>>, Covered(todo) PROVE Covered(Tail(todo))
<1>1. \A i \in DOMAIN Tail(todo) : i + 1 \in DOMAIN todo /\ Tail(todo)[i] = todo[i + 1] /\ i \in Nat
  OBVIOUS
<1>2. \A j \in DOMAIN todo : j > 1 => j - 1 \in DOMAIN Tail(todo) /\ Tail(todo)[j - 1] = todo[j]
  OBVIOUS
<1> SUFFICES ASSUME NEW i \in DOMAIN Tail(todo), Tail(todo)[i].do = "select"
             PROVE  \E j \in DOMAIN Tail(todo) : i < j /\ Tail(todo)[j].do = "put" /\ Tail(todo)[j].label = Tail(todo)[i].label
  BY DEF Covered
<1>3. PICK j \in DOMAIN todo : i + 1 < j /\ todo[j].do = "put" /\ todo[j].label = todo[i + 1].label
  BY <1>1 DEF Covered
<1>4. j - 1 \in DOMAIN Tail(todo) /\ i < j - 1
  BY <1>1, <1>2, <1>3
<1> QED BY <1>1, <1>2, <1>3, <1>4

-----------------------------------------------------------------------------
(* Checkpoints and plans *)

LEMMA CpFields ==
  ASSUME NEW cp \in Cps
  PROVE  /\ cp.base \in [Labels -> Selections] /\ cp.task \in Tasks \cup {NoTask} /\ cp.pick \in Selections \cup {Unset}
         /\ DOMAIN cp.tasks \in SUBSET Tasks /\ cp.tasks \in [DOMAIN cp.tasks -> Selections]
         /\ cp.owned \in SUBSET Rows /\ cp.borrowed \in SUBSET Rows
         /\ cp.active \in Names \cup {None} /\ cp.pending \in BOOLEAN
BY DEF Cps

LEMMA EffectiveTyped ==
  ASSUME NEW t \in States, NEW task \in Tasks \cup {NoTask}
  PROVE  Effective(t, task) \in Selections
BY StateFields DEF Effective, Labels

LEMMA PickTyped ==
  ASSUME NEW t \in States
  PROVE  /\ OpenPick(t) \in Selections \cup {Unset} /\ (t.task # NoTask => OpenPick(t) \in Selections)
         /\ StoredPick(t) \in Selections \cup {Unset}
BY StateFields, EffectiveTyped DEF OpenPick, StoredPick

LEMMA WithTaskTyped ==
  ASSUME NEW tasks, DOMAIN tasks \in SUBSET Tasks, tasks \in [DOMAIN tasks -> Selections],
         NEW task \in Tasks \cup {NoTask}, NEW pick, task # NoTask => pick \in Selections
  PROVE  WithTask(tasks, task, pick) \in UNION {[S -> Selections] : S \in SUBSET Tasks}
<1>1. CASE task = NoTask \/ task \in DOMAIN tasks
  BY <1>1 DEF WithTask
<1>2. CASE ~(task = NoTask \/ task \in DOMAIN tasks)
  <2> DEFINE S == DOMAIN tasks \cup {task}
             f == [t \in S |-> IF t = task THEN pick ELSE tasks[t]]
  <2>1. S \in SUBSET Tasks /\ f \in [S -> Selections]
    BY <1>2
  <2>2. WithTask(tasks, task, pick) = f
    BY <1>2 DEF WithTask
  <2> HIDE DEF S, f
  <2> QED BY <2>1, <2>2
<1> QED BY <1>1, <1>2

LEMMA CheckpointTyped ==
  ASSUME trae \in States, saved \in Cps \cup {None}
  PROVE  /\ Checkpoint \in Cps
         /\ saved # None => Checkpoint = saved
         /\ saved = None => /\ Checkpoint.owned = {} /\ Checkpoint.active = None /\ Checkpoint.base = trae.chosen
                            /\ Checkpoint.task = trae.task /\ Checkpoint.pick = StoredPick(trae)
<1>1. CASE saved # None
  BY <1>1 DEF Checkpoint
<1>2. CASE saved = None
  <2>1. [t \in {} |-> Unset] \in UNION {[S -> Selections] : S \in SUBSET Tasks}
    <3>1. [t \in {} |-> Unset] \in [{} -> Selections] /\ {} \in SUBSET Tasks
      OBVIOUS
    <3> QED BY <3>1
  <2> QED BY <1>2, <2>1, StateFields, PickTyped DEF Checkpoint, Cps
<1> QED BY <1>1, <1>2

LEMMA UpsertIs ==
  ASSUME NEW rows \in SUBSET Rows, NEW row \in Rows
  PROVE  /\ Upsert(rows, row) \in SUBSET Rows /\ row \in Upsert(rows, row)
         /\ OneRowAName(rows) => OneRowAName(Upsert(rows, row))
         /\ \A n : Named(rows, n) # {} => Named(Upsert(rows, row), n) # {}
BY DEF Upsert, OneRowAName, Named

\* There is an oldest row, and a number for a new one.
LEMMA OldestIs ==
  ASSUME Assumptions, NEW rows \in SUBSET Rows, rows # {}
  PROVE  Oldest(rows) \in rows
<1> DEFINE S == {r.name[2] : r \in rows}
<1>1. \A r \in rows : r.name[2] \in Nat
  BY RowFields DEF Names, Assumptions
<1>5. S \in SUBSET Nat /\ S # {}
  BY <1>1
<1> HIDE DEF S
<1>2. PICK p \in S : \A q \in S : p <= q
  BY <1>5, HasMin
<1> USE DEF S
<1>3. PICK r \in rows : r.name[2] = p
  BY <1>2
<1>4. \A q \in rows : r.name[2] <= q.name[2]
  BY <1>2, <1>3
<1> QED BY <1>3, <1>4 DEF Oldest

LEMMA FreeNameIs ==
  ASSUME Assumptions, NEW model \in Bases, NEW taken, NEW k \in 1 .. Copies, <<model, k>> \notin taken
  PROVE  \E i \in 1 .. k : FreeName(model, taken) = <<model, i>> /\ <<model, i>> \notin taken
<1> DEFINE S == {i \in 1 .. Copies : <<model, i>> \notin taken}
<1>7. S \in SUBSET Nat /\ S # {}
  BY DEF Assumptions
<1> HIDE DEF S
<1>1. PICK p \in S : \A q \in S : p <= q
  BY <1>7, HasMin
<1> USE DEF S
<1>2. p \in 1 .. Copies /\ <<model, p>> \notin taken /\ p <= k
  BY <1>1
<1>3. \A j \in 1 .. p - 1 : <<model, j>> \in taken
  BY <1>1, <1>2 DEF Assumptions
<1> DEFINE P(i) == <<model, i>> \notin taken /\ \A j \in 1 .. i - 1 : <<model, j>> \in taken
           c == CHOOSE i \in 1 .. Copies : P(i)
<1>4. c \in 1 .. Copies /\ P(c)
  BY <1>2, <1>3
<1>5. c <= k
  BY <1>4
<1>6. FreeName(model, taken) = <<model, c>>
  BY DEF FreeName
<1> HIDE DEF c
<1> QED BY <1>4, <1>5, <1>6

\* What a plan for the model b promises.
PlanFacts(plan, b) ==
  LET name == plan.row.name IN
  /\ plan \in PlanSet /\ plan.was = trae /\ name[1] = b
  /\ plan.replaced \subseteq past /\ (plan.replaced = {} \/ \E r \in Rows : plan.replaced = {r} /\ r.name = name)
  /\ plan.created =>
       /\ ~plan.borrowed
       /\ plan.replaced # {} => name \in DOMAIN trae.rows
       /\ plan.replaced = {} => \A n \in DOMAIN trae.rows : n[1] # name[1]
  /\ ~plan.created => name \in DOMAIN trae.rows /\ plan.replaced = {}
  /\ ~plan.borrowed => name[2] \in 1 .. spent.call + 1

LEMMA PlansKeepFacts ==
  ASSUME Assumptions, trae \in States, spent \in Spents, spent.call < MaxCalls, past \in SUBSET Rows,
         \A r \in past : r.name[2] \in 1 .. spent.call, OnRecord,
         NEW cp \in Cps, cp.owned \subseteq past, NEW b \in Bases, NEW k \in Keys,
         NEW plan \in Plans(cp, [base |-> b, key |-> k])
  PROVE  PlanFacts(plan, b)
<1> DEFINE input    == [base |-> b, key |-> k]
           here     == DOMAIN trae.rows
           expected == <<b, 1>>
           known    == FirstOf(Matching(cp.owned, input), Matching(past, input))
           named    == FirstOf(Named(cp.owned, expected), Named(past, expected))
           present  == {n \in here : n[1] = b}
           row(n)   == [name |-> n, key |-> k]
           free     == FreeName(b, here \cup {r.name : r \in cp.owned})
<1>1. plan \in IF known # {} /\ Oldest(known).name \in here THEN {Plan(Oldest(known), FALSE, FALSE, {})}
              ELSE IF named # {} /\ expected \in here THEN {Plan(row(expected), TRUE, FALSE, {r}) : r \in named}
              ELSE IF present # {} THEN {Plan(row(n), FALSE, TRUE, {}) : n \in present}
              ELSE {Plan(row(free), TRUE, FALSE, {})}
  BY DEF Plans
<1>2. known \in SUBSET past /\ \A r \in known : r.name[1] = b
  BY DEF FirstOf, Matching
<1>3. named \in SUBSET past /\ \A r \in named : r.name = expected
  BY DEF FirstOf, Named
<1>4. here \in SUBSET Names /\ spent.call \in Nat /\ MaxCalls \in Nat /\ Copies \in Nat /\ MaxCalls <= Copies
  BY StateFields, SpentIs DEF Assumptions
<1> HIDE DEF known, named, free, here
<1>5. CASE known # {} /\ Oldest(known).name \in here
  <2>1. Oldest(known) \in known
    BY <1>2, <1>5, OldestIs
  <2>2. plan = Plan(Oldest(known), FALSE, FALSE, {})
    BY <1>1, <1>5
  <2>3. Oldest(known) \in Rows /\ Oldest(known) \in past
    BY <1>2, <2>1
  <2>4. Oldest(known).name[2] \in 1 .. spent.call + 1
    BY <2>3, <1>4
  <2> QED BY <1>2, <1>5, <2>1, <2>2, <2>3, <2>4 DEF PlanFacts, Plan, PlanSet, here
<1>6. CASE ~(known # {} /\ Oldest(known).name \in here) /\ named # {} /\ expected \in here
  <2>1. PICK r \in named : plan = Plan(row(expected), TRUE, FALSE, {r})
    BY <1>1, <1>6
  <2>2. expected \in Names /\ row(expected) \in Rows
    BY <1>4, <1>6 DEF Rows
  <2>3. r \in past /\ r \in Rows /\ r.name = expected
    BY <1>3, <2>1
  <2>4. 1 \in 1 .. spent.call + 1
    BY <1>4
  <2> QED BY <1>6, <2>1, <2>2, <2>3, <2>4 DEF PlanFacts, Plan, PlanSet, here
<1>7. CASE ~(known # {} /\ Oldest(known).name \in here) /\ ~(named # {} /\ expected \in here) /\ present # {}
  <2>1. PICK n \in present : plan = Plan(row(n), FALSE, TRUE, {})
    BY <1>1, <1>7
  <2>2. n \in here /\ n[1] = b /\ row(n) \in Rows
    BY <1>4, <2>1 DEF Rows
  <2> QED BY <2>1, <2>2 DEF PlanFacts, Plan, PlanSet, here
<1>8. CASE ~(known # {} /\ Oldest(known).name \in here) /\ ~(named # {} /\ expected \in here) /\ ~(present # {})
  <2>1. plan = Plan(row(free), TRUE, FALSE, {})
    BY <1>1, <1>8
  <2> DEFINE top == spent.call + 1
             taken == here \cup {r.name : r \in cp.owned}
  <2>2. top \in 1 .. Copies
    BY <1>4
  <2>3. <<b, top>> \notin taken
    <3>1. \A r \in past : r.name # <<b, top>>
      BY <1>4
    <3>2. <<b, top>> \notin here
      BY <3>1, <1>4 DEF OnRecord, here
    <3> QED BY <3>1, <3>2
  <2>4. free = FreeName(b, taken)
    BY DEF free
  <2> HIDE DEF top, taken
  <2>5. \E i \in 1 .. top : free = <<b, i>>
    BY <2>2, <2>3, <2>4, FreeNameIs
  <2>6. free \in Names /\ free[1] = b /\ free[2] \in 1 .. spent.call + 1
    BY <2>2, <2>5, <1>4 DEF Names, top
  <2>7. row(free) \in Rows
    BY <2>6 DEF Rows
  <2>8. \A n \in here : n[1] # b
    BY <1>8
  <2> QED BY <2>1, <2>6, <2>7, <2>8 DEF PlanFacts, Plan, PlanSet, here
<1> QED BY <1>5, <1>6, <1>7, <1>8

\* The checkpoint of a plan.
LEMMA PlannedIs ==
  ASSUME trae \in States, NEW cp \in Cps, OneRowAName(cp.owned), cp.owned \subseteq past, NEW b, NEW plan, PlanFacts(plan, b)
  PROVE  LET new == Planned(cp, plan) IN
         /\ new \in Cps /\ OneRowAName(new.owned)
         /\ new.base = cp.base /\ new.task = cp.task /\ new.pick = cp.pick /\ new.active = cp.active /\ new.pending
         /\ plan.created => plan.row \in new.owned
         /\ \A n : Named(cp.owned, n) # {} => Named(new.owned, n) # {}
         /\ \A r \in new.owned : r \in past \/ (r = plan.row /\ ~plan.borrowed)
<1> DEFINE rest == cp.owned \cup {r \in plan.replaced : Named(cp.owned, r.name) = {}}
           owned == IF plan.borrowed THEN rest ELSE Upsert(rest, plan.row)
           borrowed == IF plan.borrowed THEN Upsert(cp.borrowed, plan.row) ELSE cp.borrowed
           tasks == WithTask(cp.tasks, plan.was.task, OpenPick(plan.was))
           new == Planned(cp, plan)
<1>1. plan.row \in Rows /\ plan.replaced \in SUBSET Rows
  BY DEF PlanFacts, PlanSet
<1>2. rest \in SUBSET Rows
  BY <1>1, CpFields
<1>3. OneRowAName(rest)
  BY DEF OneRowAName, Named, PlanFacts
<1>4. rest \subseteq past /\ \A n : Named(cp.owned, n) # {} => Named(rest, n) # {}
  BY DEF PlanFacts, Named
<1> HIDE DEF rest
<1>5. owned \in SUBSET Rows /\ OneRowAName(owned) /\ \A n : Named(cp.owned, n) # {} => Named(owned, n) # {}
  BY <1>1, <1>2, <1>3, <1>4, UpsertIs
<1>6. borrowed \in SUBSET Rows
  BY <1>1, UpsertIs, CpFields
<1>7. tasks \in UNION {[S -> Selections] : S \in SUBSET Tasks}
  <2>1. plan.was = trae
    BY DEF PlanFacts
  <2> QED BY <2>1, StateFields, PickTyped, CpFields, WithTaskTyped
<1>8. new = [cp EXCEPT !.tasks = tasks, !.owned = owned, !.borrowed = borrowed, !.pending = TRUE]
  BY DEF Planned, rest
<1>9. plan.created => plan.row \in owned
  BY <1>1, <1>2, UpsertIs DEF PlanFacts
<1>10. \A r \in owned : r \in past \/ (r = plan.row /\ ~plan.borrowed)
  BY <1>4 DEF Upsert
<1> HIDE DEF owned, borrowed, tasks, new
<1>11. new \in Cps
  BY <1>5, <1>6, <1>7, <1>8 DEF Cps
<1>12. /\ new.owned = owned /\ new.base = cp.base /\ new.task = cp.task /\ new.pick = cp.pick /\ new.active = cp.active
       /\ new.pending
  BY <1>8 DEF Cps
<1> QED BY <1>5, <1>9, <1>10, <1>11, <1>12 DEF new

-----------------------------------------------------------------------------
(* The calls of a switch *)

LEMMA ExtrasAre ==
  ASSUME Assumptions
  PROVE  /\ DOMAIN Extras = 1 .. Len(Extras) /\ Len(Extras) \in Nat \ {0}
         /\ \A i \in DOMAIN Extras : Extras[i] \in Labels
         /\ \A l \in Labels : l = Primary \/ \E i \in DOMAIN Extras : Extras[i] = l
         /\ Primary \in Labels
<1>1. Extras \in Seq(ToSet(Extras)) /\ Extras # <<>>
  BY DEF Assumptions
<1> QED BY <1>1 DEF Labels, ToSet

LEMMA SelectIs ==
  ASSUME NEW l \in Labels, NEW n \in Selections, NEW task \in Tasks \cup {NoTask}, NEW pick \in Selections \cup {Unset}
  PROVE  /\ Select(l, n, task) \in Commands /\ PutBack(l, n, task, pick) \in Commands
         /\ Select(l, n, task) \in Selectings /\ PutBack(l, n, task, pick) \in Selectings
BY DEF Select, PutBack, Commands, Selectings

LEMMA SeqElement == ASSUME NEW S, NEW s \in Seq(S), NEW i \in DOMAIN s PROVE s[i] \in S
OBVIOUS

\* What a call that selects writes.
LEMMA SelectWrites ==
  ASSUME NEW c \in Commands, NEW cell \in Cells
  PROVE  /\ Selecting(c) => /\ Writes(c, cell) <=> \/ cell[1] = "label" /\ cell[2] = c.label
                                                   \/ cell[1] = "task" /\ cell[2] = c.task
                            /\ Written(c, cell) = IF cell[1] = "label" THEN c.to ELSE IF cell[1] = "task" THEN c.pick ELSE "gone"
         /\ c.do = "add" => (Writes(c, cell) <=> cell[1] = "row" /\ cell[2] = c.row.name) /\ (cell[1] = "row" => Written(c, cell) = "there")
         /\ c.do = "delete" => (Writes(c, cell) <=> cell[1] = "row" /\ cell[2] = c.name) /\ (cell[1] = "row" => Written(c, cell) = "gone")
<1>1. CASE cell[1] = "label"
  BY <1>1, CommandIs DEF Writes, Written, Selecting
<1>2. CASE cell[1] = "task"
  BY <1>2, CommandIs DEF Writes, Written, Selecting
<1>3. CASE cell[1] = "row"
  BY <1>3, CommandIs DEF Writes, Written, Selecting
<1> QED BY <1>1, <1>2, <1>3, CellIs

LEMMA SwitchedShows ==
  ASSUME NEW name \in Names, NEW task, NEW cell \in AimsOf(name, task)
  PROVE  /\ cell \in Cells
         /\ Shown(Switched(name), cell) = IF cell[1] = "row" THEN "there" ELSE name
         /\ cell[1] = "row" => cell[2] = name
         /\ cell[1] = "task" => cell[2] = task /\ task \in Tasks
         /\ cell[1] = "label" => cell[2] \in Labels
         /\ cell[1] \in {"row", "task", "label"}
BY DEF AimsOf, Cells, LabelCells, TaskCells, RowCells, Shown, Switched

LEMMA StepsAre ==
  ASSUME Assumptions, trae \in States, NEW b, NEW plan, PlanFacts(plan, b)
  PROVE  /\ Steps(plan) \in Seq(AppliesOf(plan, plan.was.task)) /\ Ordered(Steps(plan))
         /\ Becomes(AimsOf(plan.row.name, plan.was.task), trae, Steps(plan), Switched(plan.row.name))
         /\ plan.replaced # {} => \E i \in DOMAIN Steps(plan) : Steps(plan)[i].do = "delete"
<1> DEFINE name == plan.row.name
           task == plan.was.task
           S == AppliesOf(plan, task)
           A == [i \in 1 .. Cardinality(plan.replaced) |-> Delete(name)]
           B == IF plan.created THEN <<Add(plan.row)>> ELSE <<>>
           C == <<Select(Primary, name, task)>>
           D == [i \in DOMAIN Extras |-> Select(Extras[i], name, NoTask)]
<1>1. plan.row \in Rows /\ name \in Names /\ name \in Selections /\ task \in Tasks \cup {NoTask}
      /\ plan.created \in BOOLEAN /\ plan.was = trae
  BY RowFields, StateFields DEF PlanFacts, PlanSet, Selections
<1>2. /\ plan.replaced = {} => Cardinality(plan.replaced) = 0
      /\ plan.replaced # {} => Cardinality(plan.replaced) = 1 /\ plan.created
  BY FS_EmptySet, FS_Singleton DEF PlanFacts
<1>3. A = IF plan.replaced = {} THEN <<>> ELSE <<Delete(name)>>
  BY <1>2
<1>4. Delete(name) \in Commands /\ Add(plan.row) \in Commands
  BY <1>1 DEF Delete, Add, Commands, Deletings, Addings
<1>5. A \in Seq(S)
  BY <1>2, <1>3, <1>4 DEF AppliesOf, Delete
<1>6. B \in Seq(S)
  <2>1. plan.created => Add(plan.row) \in S
    BY <1>4 DEF AppliesOf, Add
  <2>2. CASE plan.created
    <3>1. B = <<Add(plan.row)>>
      BY <2>2
    <3> HIDE DEF B, S
    <3> QED BY <3>1, <2>1, <2>2
  <2>3. CASE ~plan.created
    <3>1. B = <<>>
      BY <2>3
    <3> HIDE DEF B, S
    <3> QED BY <3>1
  <2> QED BY <2>2, <2>3
<1>7. Select(Primary, name, task) \in S /\ \A l \in Labels : Select(l, name, NoTask) \in S
  BY <1>1, SelectIs, ExtrasAre DEF AppliesOf, Select
<1>8. C \in Seq(S) /\ D \in Seq(S)
  BY <1>7, ExtrasAre
<1>9. Steps(plan) = A \o B \o C \o D
  BY DEF Steps
<1>10. S \subseteq Commands
  BY DEF AppliesOf
<1>11. \A i \in DOMAIN C : Selecting(C[i]) /\ C[i].to = name /\ C[i].pick = name
  BY DEF Select, Selecting
<1>12. \A i \in DOMAIN D : Selecting(D[i]) /\ D[i].to = name /\ D[i].pick = name /\ D[i].task = NoTask /\ D[i].label = Extras[i]
  BY DEF Select, Selecting
<1>13. \A i \in DOMAIN A : A[i].do = "delete" /\ A[i].name = name
  BY DEF Delete
<1>14. \A i \in DOMAIN B : B[i].do = "add" /\ B[i].row = plan.row
  BY DEF Add
<1>15. DOMAIN C = {1} /\ DOMAIN D = DOMAIN Extras /\ C[1].label = Primary /\ C[1].task = task
  BY DEF Select
<1>16. Len(A) <= 1 /\ Len(B) <= 1 /\ (plan.created => 1 \in DOMAIN B) /\ (~plan.created => DOMAIN A = {} /\ DOMAIN B = {})
       /\ (plan.replaced # {} => 1 \in DOMAIN A)
  BY <1>2, <1>3
<1> HIDE DEF A, B, C, D, S
<1>20. A \o B \in Seq(S) /\ A \o B \o C \in Seq(S) /\ A \o B \o C \o D \in Seq(S)
  BY <1>5, <1>6, <1>8
<1>21. Ordered(A) /\ Ordered(B) /\ Ordered(C) /\ Ordered(D)
  <2>1. Ordered(A)
    BY <1>5, <1>13 DEF Ordered
  <2>2. Ordered(B)
    BY <1>6, <1>14, <1>16 DEF Ordered
  <2>3. Ordered(C) /\ Ordered(D)
    BY <1>8, <1>11, <1>12 DEF Ordered, Selecting
  <2> QED BY <2>1, <2>2, <2>3
<1>22. Ordered(A \o B)
  BY <1>5, <1>6, <1>13, <1>14, <1>21, OrderedCat
<1>23. Ordered(A \o B \o C)
  BY <1>20, <1>8, <1>22, <1>11, <1>21, OrderedCat DEF Selecting
<1>24. Ordered(A \o B \o C \o D)
  BY <1>20, <1>8, <1>23, <1>12, <1>21, OrderedCat DEF Selecting
<1>25. ASSUME NEW cell \in AimsOf(name, task)
       PROVE  WillBe(trae, A \o B \o C \o D, cell, Shown(Switched(name), cell))
  <2>1. /\ cell \in Cells
        /\ Shown(Switched(name), cell) = IF cell[1] = "row" THEN "there" ELSE name
        /\ cell[1] = "row" => cell[2] = name
        /\ cell[1] = "task" => cell[2] = task /\ task \in Tasks
        /\ cell[1] = "label" => cell[2] \in Labels
        /\ cell[1] \in {"row", "task", "label"}
    BY <1>1, SwitchedShows
  <2>2. \A i \in DOMAIN D : /\ D[i] \in Commands
                            /\ Writes(D[i], cell) <=> cell[1] = "label" /\ cell[2] = Extras[i]
                            /\ cell[1] = "label" => Written(D[i], cell) = name
    <3> SUFFICES ASSUME NEW i \in DOMAIN D
                 PROVE  /\ D[i] \in Commands
                        /\ Writes(D[i], cell) <=> cell[1] = "label" /\ cell[2] = Extras[i]
                        /\ cell[1] = "label" => Written(D[i], cell) = name
      OBVIOUS
    <3>1. D[i] \in Commands
      BY <1>8, <1>10
    <3>2. NoTask \notin Tasks
      BY DEF Assumptions
    <3> QED BY <3>1, <3>2, <1>12, <2>1, SelectWrites
  <2>3. /\ C[1] \in Commands
        /\ Writes(C[1], cell) <=> (cell[1] = "label" /\ cell[2] = Primary) \/ cell[1] = "task"
        /\ cell[1] # "row" => Written(C[1], cell) = name
    <3>1. C[1] \in Commands
      BY <1>8, <1>10, <1>15, SeqElement
    <3> QED BY <3>1, <1>11, <1>15, <2>1, SelectWrites
  <2>4. \A i \in DOMAIN C : i = 1
    BY <1>15
  <2>5. CASE cell[1] = "row"
    <3>1. \A i \in DOMAIN B : Writes(B[i], cell) /\ Written(B[i], cell) = "there"
      BY <1>6, <1>10, <1>14, <2>1, <2>5, SelectWrites
    <3>2. WillBe(trae, A \o B, cell, "there")
      <4>1. CASE plan.created
        BY <4>1, <3>1, <1>16, <1>5, <1>6, WillBeSecond
      <4>2. CASE ~plan.created
        <5>1. Shown(trae, cell) = "there"
          BY <4>2, <2>1, <2>5 DEF PlanFacts, Shown
        <5>2. DOMAIN (A \o B) = {}
          BY <4>2, <1>16, <1>5, <1>6, CatIs
        <5> QED BY <5>1, <5>2, <1>20, WillBeAll
      <4> QED BY <4>1, <4>2, <1>1
    <3>3. WillBe(trae, A \o B \o C, cell, "there")
      BY <3>2, <1>20, <1>8, <2>3, <2>4, <2>5, WillBeFirst
    <3>4. WillBe(trae, A \o B \o C \o D, cell, "there")
      BY <3>3, <1>20, <1>8, <2>2, <2>5, WillBeFirst
    <3> QED BY <3>4, <2>1, <2>5
  <2>6. CASE cell[1] # "row"
    <3>1. CASE Writes(C[1], cell)
      <4>1. WillBe(trae, A \o B \o C, cell, name)
        BY <3>1, <1>20, <1>8, <1>15, <2>3, <2>4, <2>6, WillBeSecond
      <4>2. WillBe(trae, A \o B \o C \o D, cell, name)
        BY <4>1, <1>20, <1>8, <2>2, WillBeFirst
      <4> QED BY <4>2, <2>1, <2>6
    <3>2. CASE ~Writes(C[1], cell)
      <4>1. cell[1] = "label" /\ \E i \in DOMAIN D : Writes(D[i], cell)
        BY <3>2, <2>1, <2>2, <2>3, <2>6, <1>15, ExtrasAre
      <4>2. WillBe(trae, A \o B \o C \o D, cell, name)
        BY <4>1, <1>20, <1>8, <2>2, WillBeSecond
      <4> QED BY <4>2, <2>1, <2>6
    <3> QED BY <3>1, <3>2
  <2> QED BY <2>5, <2>6
<1>26. plan.replaced # {} => \E i \in DOMAIN (A \o B \o C \o D) : (A \o B \o C \o D)[i].do = "delete"
  <2> SUFFICES ASSUME plan.replaced # {} PROVE (A \o B \o C \o D)[1].do = "delete" /\ 1 \in DOMAIN (A \o B \o C \o D)
    OBVIOUS
  <2>1. 1 \in DOMAIN A /\ A[1].do = "delete"
    BY <1>13, <1>16
  <2>2. 1 \in DOMAIN (A \o B) /\ (A \o B)[1] = A[1]
    BY <2>1, <1>5, <1>6, CatIs
  <2>3. 1 \in DOMAIN (A \o B \o C) /\ (A \o B \o C)[1] = A[1]
    BY <2>2, <1>8, <1>20, CatIs
  <2>4. 1 \in DOMAIN (A \o B \o C \o D) /\ (A \o B \o C \o D)[1] = A[1]
    BY <2>3, <1>8, <1>20, CatIs
  <2> QED BY <2>1, <2>4
<1> QED BY <1>9, <1>20, <1>24, <1>25, <1>26 DEF Becomes, S

-----------------------------------------------------------------------------
(* The calls of a rollback *)

\* What a rollback starts from, the state u and what has been tried.
Undoable(u, tried, task, pick) ==
  LET plan == op.plan IN
  /\ op \in SwitchOps /\ u \in States
  /\ "delete" \in tried => plan.replaced # {}
  /\ plan.replaced # {} => plan.created
  /\ "add" \in tried => plan.created
  /\ "added" \in tried => "add" \in tried
  /\ plan.created => (Name \in DOMAIN Was.rows <=> plan.replaced # {})
  /\ "add" \in tried /\ plan.replaced # {} => "delete" \in tried
  /\ "add" \notin tried /\ "delete" \notin tried => (Name \in DOMAIN u.rows <=> Name \in DOMAIN Was.rows)
  /\ \A n \in Names : n = Name \/ (n \in DOMAIN u.rows <=> n \in DOMAIN Was.rows)
  /\ task \in Tasks \cup {NoTask}
  /\ \A t \in Tasks : t \in {task, Was.task} \/ u.picks[t] = Was.picks[t]
  /\ task # NoTask => pick \in Selections
  /\ task # Was.task => Was.task = NoTask /\ pick = Was.picks[task]

LEMMA SwitchFields ==
  ASSUME op \in SwitchOps
  PROVE  /\ op.call = "switch" /\ op.phase \in SwitchPhases /\ op.base \in Bases /\ op.cp \in Cps /\ op.old \in Cps
         /\ op.bound \in Bases \cup {None} /\ op.plan \in PlanSet /\ op.task \in Tasks \cup {NoTask}
         /\ op.pick \in Selections \cup {Unset} /\ op.todo \in Seq(Commands)
         /\ op.tried \in SUBSET {"delete", "add", "added"} /\ op.bad \in SUBSET {"removal", "replaced", "selection"}
         /\ op.plan.row \in Rows /\ Name \in Names /\ op.plan.created \in BOOLEAN /\ op.plan.borrowed \in BOOLEAN
         /\ op.plan.replaced \in SUBSET Rows /\ Was \in States
BY RowFields DEF SwitchOps, PlanSet, Name, Was

LEMMA CompensationIs ==
  ASSUME Assumptions, NEW tried, NEW task, NEW pick, Undoable(trae', tried, task, pick)
  PROVE  LET s == Compensation(tried, task, pick) IN
         /\ s \in Seq(UndoesOf(op.plan, task, pick)) /\ Ordered(s) /\ Covered(s)
         /\ Becomes(Cells, trae', s, Was)
<1> DEFINE S == UndoesOf(op.plan, task, pick)
           swap == "delete" \in tried
           lost == "added" \notin tried /\ Name \notin DOMAIN trae'.rows
           last == Len(Extras)
           frees == "add" \in tried /\ ~lost /\ swap
           drops == "add" \in tried /\ ~lost /\ ~swap
           c1 == IF frees THEN <<Delete(Name)>> ELSE <<>>
           c2 == IF swap THEN <<Add(op.plan.row)>> ELSE <<>>
           c3 == IF task # NoTask THEN <<Select(Primary, pick, task)>> ELSE <<>>
           c4 == [i \in 1 .. last - 1 |-> PutBack(Extras[i], Was.chosen[Extras[i]], NoTask, Unset)]
           c5 == <<PutBack(Primary, Was.chosen[Primary], Was.task, StoredPick(Was))>>
           c6 == <<PutBack(Extras[last], Was.chosen[Extras[last]], NoTask, Unset)>>
           c7 == IF drops THEN <<Delete(Name)>> ELSE <<>>
<1>1. Compensation(tried, task, pick) = c1 \o c2 \o c3 \o c4 \o c5 \o c6 \o c7
  BY DEF Compensation, Name, Was
<1>2. /\ op.plan.row \in Rows /\ Name \in Names /\ Name = op.plan.row.name /\ Was \in States /\ Was = op.plan.was
      /\ task \in Tasks \cup {NoTask} /\ op.plan.created \in BOOLEAN /\ NoTask \notin Tasks
      /\ trae' \in States
  BY SwitchFields DEF Undoable, Name, Was, Assumptions
<1>3. Delete(Name) \in Commands /\ Add(op.plan.row) \in Commands
  BY <1>2 DEF Delete, Add, Commands, Deletings, Addings
<1>4. (op.plan.created => Delete(Name) \in S /\ Add(op.plan.row) \in S)
  BY <1>2, <1>3 DEF UndoesOf, Delete, Add
<1>5. (frees \/ drops \/ swap) => op.plan.created
  BY DEF Undoable
<1>6. task # NoTask => Select(Primary, pick, task) \in S
  BY <1>2, ExtrasAre, SelectIs DEF UndoesOf, Select, Undoable
<1>7. \A l \in Labels : PutBack(l, Was.chosen[l], NoTask, Unset) \in S
  <2> SUFFICES ASSUME NEW l \in Labels PROVE PutBack(l, Was.chosen[l], NoTask, Unset) \in S
    OBVIOUS
  <2>1. Was.chosen[l] \in Selections
    BY <1>2, StateFields
  <2> QED BY <1>2, <2>1, SelectIs DEF UndoesOf, PutBack
<1>8. PutBack(Primary, Was.chosen[Primary], Was.task, StoredPick(Was)) \in S
  <2>1. Was.chosen[Primary] \in Selections /\ Was.task \in Tasks \cup {NoTask} /\ StoredPick(Was) \in Selections \cup {Unset}
    BY <1>2, StateFields, PickTyped, ExtrasAre
  <2> QED BY <1>2, <2>1, SelectIs, ExtrasAre DEF UndoesOf, PutBack
<1>9. S \subseteq Commands
  BY DEF UndoesOf
<1>10. /\ \A i \in DOMAIN c1 : frees /\ c1[i] = Delete(Name)
       /\ \A i \in DOMAIN c2 : swap /\ c2[i] = Add(op.plan.row)
       /\ \A i \in DOMAIN c3 : i = 1 /\ task # NoTask /\ c3[i] = Select(Primary, pick, task)
       /\ \A i \in DOMAIN c7 : drops /\ c7[i] = Delete(Name)
       /\ swap => 1 \in DOMAIN c2
       /\ task # NoTask => 1 \in DOMAIN c3
       /\ drops => 1 \in DOMAIN c7
       /\ Len(c1) <= 1 /\ Len(c2) <= 1 /\ Len(c3) <= 1 /\ Len(c7) <= 1
  <2>1. (\A i \in DOMAIN c1 : frees /\ c1[i] = Delete(Name)) /\ Len(c1) <= 1
    <3>1. CASE frees
      <4>1. c1 = <<Delete(Name)>>
        BY <3>1
      <4> HIDE DEF c1, frees
      <4> QED BY <3>1, <4>1
    <3>2. CASE ~frees
      <4>1. c1 = <<>>
        BY <3>2
      <4> HIDE DEF c1, frees
      <4> QED BY <3>2, <4>1
    <3> QED BY <3>1, <3>2
  <2>2. (\A i \in DOMAIN c2 : swap /\ c2[i] = Add(op.plan.row)) /\ Len(c2) <= 1 /\ (swap => 1 \in DOMAIN c2)
    <3>1. CASE swap
      <4>1. c2 = <<Add(op.plan.row)>>
        BY <3>1
      <4> HIDE DEF c2, swap
      <4> QED BY <3>1, <4>1
    <3>2. CASE ~swap
      <4>1. c2 = <<>>
        BY <3>2
      <4> HIDE DEF c2, swap
      <4> QED BY <3>2, <4>1
    <3> QED BY <3>1, <3>2
  <2>3. (\A i \in DOMAIN c3 : i = 1 /\ task # NoTask /\ c3[i] = Select(Primary, pick, task)) /\ Len(c3) <= 1 /\ (task # NoTask => 1 \in DOMAIN c3)
    <3>1. CASE task # NoTask
      <4>1. c3 = <<Select(Primary, pick, task)>>
        BY <3>1
      <4> HIDE DEF c3
      <4> QED BY <3>1, <4>1
    <3>2. CASE task = NoTask
      <4>1. c3 = <<>>
        BY <3>2
      <4> HIDE DEF c3
      <4> QED BY <3>2, <4>1
    <3> QED BY <3>1, <3>2
  <2>4. (\A i \in DOMAIN c7 : drops /\ c7[i] = Delete(Name)) /\ Len(c7) <= 1 /\ (drops => 1 \in DOMAIN c7)
    <3>1. CASE drops
      <4>1. c7 = <<Delete(Name)>>
        BY <3>1
      <4> HIDE DEF c7, drops
      <4> QED BY <3>1, <4>1
    <3>2. CASE ~drops
      <4>1. c7 = <<>>
        BY <3>2
      <4> HIDE DEF c7, drops
      <4> QED BY <3>2, <4>1
    <3> QED BY <3>1, <3>2
  <2> HIDE DEF c1, c2, c3, c7, frees, swap, drops
  <2> QED BY <2>1, <2>2, <2>3, <2>4
<1>11. c1 \in Seq(S) /\ c2 \in Seq(S) /\ c3 \in Seq(S) /\ c7 \in Seq(S)
  <2>1. c1 \in Seq(S)
    <3>1. CASE frees
      <4>1. c1 = <<Delete(Name)>> /\ Delete(Name) \in S
        BY <3>1, <1>4, <1>5, <1>6
      <4> HIDE DEF c1, frees, S
      <4> QED BY <4>1
    <3>2. CASE ~frees
      <4>1. c1 = <<>>
        BY <3>2
      <4> HIDE DEF c1, frees, S
      <4> QED BY <4>1
    <3> QED BY <3>1, <3>2
  <2>2. c2 \in Seq(S)
    <3>1. CASE swap
      <4>1. c2 = <<Add(op.plan.row)>> /\ Add(op.plan.row) \in S
        BY <3>1, <1>4, <1>5, <1>6
      <4> HIDE DEF c2, swap, S
      <4> QED BY <4>1
    <3>2. CASE ~swap
      <4>1. c2 = <<>>
        BY <3>2
      <4> HIDE DEF c2, swap, S
      <4> QED BY <4>1
    <3> QED BY <3>1, <3>2
  <2>3. c3 \in Seq(S)
    <3>1. CASE task # NoTask
      <4>1. c3 = <<Select(Primary, pick, task)>> /\ Select(Primary, pick, task) \in S
        BY <3>1, <1>4, <1>5, <1>6
      <4> HIDE DEF c3, S
      <4> QED BY <4>1
    <3>2. CASE task = NoTask
      <4>1. c3 = <<>>
        BY <3>2
      <4> HIDE DEF c3, S
      <4> QED BY <4>1
    <3> QED BY <3>1, <3>2
  <2>4. c7 \in Seq(S)
    <3>1. CASE drops
      <4>1. c7 = <<Delete(Name)>> /\ Delete(Name) \in S
        BY <3>1, <1>4, <1>5, <1>6
      <4> HIDE DEF c7, drops, S
      <4> QED BY <4>1
    <3>2. CASE ~drops
      <4>1. c7 = <<>>
        BY <3>2
      <4> HIDE DEF c7, drops, S
      <4> QED BY <4>1
    <3> QED BY <3>1, <3>2
  <2> QED BY <2>1, <2>2, <2>3, <2>4
<1>12. c4 \in Seq(S) /\ DOMAIN c4 = 1 .. last - 1 /\ \A i \in DOMAIN c4 :
         i \in DOMAIN Extras /\ c4[i] = PutBack(Extras[i], Was.chosen[Extras[i]], NoTask, Unset)
  BY <1>7, ExtrasAre
<1>13. c5 \in Seq(S) /\ DOMAIN c5 = {1} /\ c5[1] = PutBack(Primary, Was.chosen[Primary], Was.task, StoredPick(Was))
  BY <1>8
<1>14. c6 \in Seq(S) /\ DOMAIN c6 = {1} /\ c6[1] = PutBack(Extras[last], Was.chosen[Extras[last]], NoTask, Unset)
       /\ last \in DOMAIN Extras /\ Extras[last] \in Labels
  BY <1>7, ExtrasAre
<1> DEFINE s2 == c1 \o c2
           s3 == s2 \o c3
           s4 == s3 \o c4
           s5 == s4 \o c5
           s6 == s5 \o c6
           s7 == s6 \o c7
<1>15. Compensation(tried, task, pick) = s7
  BY <1>1
<1>16. s2 \in Seq(S) /\ s3 \in Seq(S) /\ s4 \in Seq(S) /\ s5 \in Seq(S) /\ s6 \in Seq(S) /\ s7 \in Seq(S)
  BY <1>11, <1>12, <1>13, <1>14
<1>17. /\ \A i \in DOMAIN c4 : c4[i].do = "put" /\ Selecting(c4[i])
       /\ \A i \in DOMAIN c5 : c5[i].do = "put" /\ Selecting(c5[i])
       /\ \A i \in DOMAIN c6 : c6[i].do = "put" /\ Selecting(c6[i])
       /\ \A i \in DOMAIN c1 : c1[i].do = "delete"
       /\ \A i \in DOMAIN c2 : c2[i].do = "add"
       /\ \A i \in DOMAIN c3 : c3[i].do = "select" /\ c3[i].label = Primary
       /\ \A i \in DOMAIN c7 : c7[i].do = "delete"
  <2> HIDE DEF c1, c2, c3, c4, c5, c6, c7
  <2> QED BY <1>10, <1>12, <1>13, <1>14 DEF PutBack, Select, Delete, Add, Selecting
<1>18. swap => DOMAIN c7 = {}
  BY <1>10
<1> HIDE DEF c1, c2, c3, c4, c5, c6, c7, S
<1>20. Ordered(s7)
  <2>1. Ordered(c1) /\ Ordered(c2) /\ Ordered(c3) /\ Ordered(c7)
    BY <1>10, <1>11, <1>17 DEF Ordered
  <2>2. Ordered(c4) /\ Ordered(c5) /\ Ordered(c6)
    BY <1>12, <1>13, <1>14, <1>17 DEF Ordered
  <2>3. Ordered(s2)
    BY <1>11, <1>17, <2>1, OrderedCat
  <2>4. Ordered(s3)
    BY <1>11, <1>16, <1>17, <2>1, <2>3, OrderedCat
  <2>5. Ordered(s4)
    BY <1>12, <1>16, <1>17, <2>2, <2>4, OrderedCat
  <2>6. Ordered(s5)
    BY <1>13, <1>16, <1>17, <2>2, <2>5, OrderedCat
  <2>7. Ordered(s6)
    BY <1>14, <1>16, <1>17, <2>2, <2>6, OrderedCat
  <2>8. \A i \in DOMAIN s6 : DOMAIN c7 # {} => s6[i].do # "add"
    <3> SUFFICES ASSUME NEW i \in DOMAIN s6, DOMAIN c7 # {} PROVE s6[i].do # "add"
      OBVIOUS
    <3>1. \A j \in DOMAIN s2 : s2[j].do # "add"
      <4>1. DOMAIN c2 = {}
        BY <1>10, <1>18
      <4> QED BY <4>1, <1>11, <1>17, CatIs
    <3>2. \A j \in DOMAIN s3 : s3[j].do # "add"
      <4> HIDE DEF s2
      <4> QED BY <3>1, <1>11, <1>16, <1>17, CatIs
    <3>3. \A j \in DOMAIN s4 : s4[j].do # "add"
      <4> HIDE DEF s3
      <4> QED BY <3>2, <1>12, <1>16, <1>17, CatIs
    <3>4. \A j \in DOMAIN s5 : s5[j].do # "add"
      <4> HIDE DEF s4
      <4> QED BY <3>3, <1>13, <1>16, <1>17, CatIs
    <3> HIDE DEF s5
    <3> QED BY <3>4, <1>14, <1>16, <1>17, CatIs
  <2> HIDE DEF s6
  <2> QED BY <1>11, <1>16, <1>17, <2>1, <2>7, <2>8, OrderedCat
<1>21. Covered(s7)
  <2> DEFINE p == Len(s4) + 1
  <2>1. p \in DOMAIN s5 /\ s5[p] = c5[1]
    <3>1. Len(c5) = 1 /\ c5 \in Seq(S) /\ s4 \in Seq(S)
      BY <1>13, <1>16
    <3> HIDE DEF s4
    <3>2. DOMAIN (s4 \o c5) = 1 .. Len(s4) + 1 /\ Len(s4) \in Nat /\ (s4 \o c5)[p] = c5[p - Len(s4)]
      BY <3>1, CatIs
    <3> QED BY <3>2
  <2>2. p \in DOMAIN s6 /\ s6[p] = c5[1]
    <3> HIDE DEF s5, p
    <3> QED BY <2>1, <1>14, <1>16, CatIs
  <2>3. p \in DOMAIN s7 /\ s7[p] = c5[1]
    <3> HIDE DEF s6, p
    <3> QED BY <2>2, <1>11, <1>16, CatIs
  <2>4. c5[1].do = "put" /\ c5[1].label = Primary
    BY <1>13 DEF PutBack
  <2>5. \A i \in DOMAIN s7 : s7[i].do = "select" => i < p /\ s7[i].label = Primary
    <3>1. \A i \in DOMAIN s2 : s2[i].do # "select"
      BY <1>11, <1>17, CatIs
    <3>2. \A i \in DOMAIN s3 : s3[i].do = "select" => s3[i].label = Primary
      <4> HIDE DEF s2
      <4> QED BY <3>1, <1>11, <1>16, <1>17, CatIs
    <3>3. \A i \in DOMAIN s4 : s4[i].do = "select" => i < p /\ s4[i].label = Primary
      <4>1. \A i \in DOMAIN s4 : i < p
        <5> HIDE DEF s4
        <5> QED BY <1>13, <1>16, CatIs
      <4>2. \A i \in DOMAIN s4 : s4[i].do = "select" => s4[i].label = Primary
        <5> HIDE DEF s3
        <5> QED BY <3>2, <1>12, <1>16, <1>17, CatIs
      <4> QED BY <4>1, <4>2
    <3>4. \A i \in DOMAIN s5 : s5[i].do = "select" => i < p /\ s5[i].label = Primary
      <4> HIDE DEF s4, p
      <4> QED BY <3>3, <1>13, <1>16, <1>17, CatIs
    <3>5. \A i \in DOMAIN s6 : s6[i].do = "select" => i < p /\ s6[i].label = Primary
      <4> HIDE DEF s5, p
      <4> QED BY <3>4, <1>14, <1>16, <1>17, CatIs
    <3> HIDE DEF s6, p
    <3> QED BY <3>5, <1>11, <1>16, <1>17, CatIs
  <2> HIDE DEF p, s7
  <2> QED BY <2>3, <2>4, <2>5 DEF Covered
<1>22. ASSUME NEW cell \in Cells PROVE WillBe(trae', s7, cell, Shown(Was, cell))
  <2> DEFINE v == Shown(Was, cell)
  <2>1. \A i \in DOMAIN c4 : /\ c4[i] \in Commands /\ (Writes(c4[i], cell) => Written(c4[i], cell) = v)
                             /\ Writes(c4[i], cell) <=> cell[1] = "label" /\ cell[2] = Extras[i]
    <3> SUFFICES ASSUME NEW i \in DOMAIN c4
                 PROVE  /\ c4[i] \in Commands /\ (Writes(c4[i], cell) => Written(c4[i], cell) = v)
                        /\ Writes(c4[i], cell) <=> cell[1] = "label" /\ cell[2] = Extras[i]
      OBVIOUS
    <3>1. c4[i] \in Commands
      BY <1>9, <1>12, SeqElement
    <3>2. c4[i].label = Extras[i] /\ c4[i].task = NoTask /\ c4[i].to = Was.chosen[Extras[i]]
      BY <1>12 DEF PutBack
    <3> QED BY <3>1, <3>2, <1>2, <1>17, CellIs, SelectWrites DEF Shown
  <2>2. \A i \in DOMAIN c6 : /\ c6[i] \in Commands /\ (Writes(c6[i], cell) => Written(c6[i], cell) = v)
                             /\ Writes(c6[i], cell) <=> cell[1] = "label" /\ cell[2] = Extras[last]
    <3> SUFFICES ASSUME NEW i \in DOMAIN c6
                 PROVE  /\ c6[i] \in Commands /\ (Writes(c6[i], cell) => Written(c6[i], cell) = v)
                        /\ Writes(c6[i], cell) <=> cell[1] = "label" /\ cell[2] = Extras[last]
      OBVIOUS
    <3>1. c6[i] \in Commands
      BY <1>9, <1>14, SeqElement
    <3>2. c6[i].label = Extras[last] /\ c6[i].task = NoTask /\ c6[i].to = Was.chosen[Extras[last]]
      BY <1>14 DEF PutBack
    <3> QED BY <3>1, <3>2, <1>2, <1>17, CellIs, SelectWrites DEF Shown
  <2>3. \A i \in DOMAIN c5 : /\ c5[i] \in Commands /\ (Writes(c5[i], cell) => Written(c5[i], cell) = v)
                             /\ Writes(c5[i], cell) <=> \/ cell[1] = "label" /\ cell[2] = Primary
                                                        \/ cell[1] = "task" /\ cell[2] = Was.task
    <3> SUFFICES ASSUME NEW i \in DOMAIN c5
                 PROVE  /\ c5[i] \in Commands /\ (Writes(c5[i], cell) => Written(c5[i], cell) = v)
                        /\ Writes(c5[i], cell) <=> \/ cell[1] = "label" /\ cell[2] = Primary
                                                   \/ cell[1] = "task" /\ cell[2] = Was.task
      OBVIOUS
    <3>1. c5[i] \in Commands
      BY <1>9, <1>13, SeqElement
    <3>2. c5[i].label = Primary /\ c5[i].task = Was.task /\ c5[i].to = Was.chosen[Primary] /\ c5[i].pick = StoredPick(Was)
      BY <1>13 DEF PutBack
    <3>3. Writes(c5[i], cell) <=> \/ cell[1] = "label" /\ cell[2] = Primary
                                  \/ cell[1] = "task" /\ cell[2] = Was.task
      BY <3>1, <3>2, <1>17, SelectWrites
    <3>4. cell[1] = "task" /\ cell[2] = Was.task => v = StoredPick(Was)
      BY <1>2, CellIs DEF Shown, StoredPick
    <3>5. cell[1] = "label" /\ cell[2] = Primary => v = Was.chosen[Primary]
      BY DEF Shown
    <3> HIDE DEF v
    <3> QED BY <3>1, <3>2, <3>3, <3>4, <3>5, <1>17, SelectWrites
  <2>4. \A i \in DOMAIN c7 : /\ c7[i] \in Commands /\ drops /\ (Writes(c7[i], cell) <=> cell[1] = "row" /\ cell[2] = Name)
                             /\ (cell[1] = "row" => Written(c7[i], cell) = "gone")
    BY <1>3, <1>10, SelectWrites DEF Delete
  <2>5. \A i \in DOMAIN c1 : /\ c1[i] \in Commands /\ frees /\ (Writes(c1[i], cell) <=> cell[1] = "row" /\ cell[2] = Name)
    BY <1>3, <1>10, SelectWrites DEF Delete
  <2>6. \A i \in DOMAIN c2 : /\ c2[i] \in Commands /\ swap /\ (Writes(c2[i], cell) <=> cell[1] = "row" /\ cell[2] = Name)
                             /\ (cell[1] = "row" => Written(c2[i], cell) = "there")
    BY <1>2, <1>3, <1>10, SelectWrites DEF Add
  <2>7. \A i \in DOMAIN c3 : /\ c3[i] \in Commands /\ task # NoTask
                             /\ Writes(c3[i], cell) <=> \/ cell[1] = "label" /\ cell[2] = Primary
                                                        \/ cell[1] = "task" /\ cell[2] = task
                             /\ (cell[1] = "task" => Written(c3[i], cell) = pick)
    <3> SUFFICES ASSUME NEW i \in DOMAIN c3
                 PROVE  /\ c3[i] \in Commands /\ task # NoTask
                        /\ Writes(c3[i], cell) <=> \/ cell[1] = "label" /\ cell[2] = Primary
                                                   \/ cell[1] = "task" /\ cell[2] = task
                        /\ (cell[1] = "task" => Written(c3[i], cell) = pick)
      OBVIOUS
    <3>1. c3[i] \in Commands
      BY <1>9, <1>11, SeqElement
    <3>2. c3[i].label = Primary /\ c3[i].task = task /\ c3[i].pick = pick /\ Selecting(c3[i]) /\ task # NoTask
      BY <1>10 DEF Select, Selecting
    <3> QED BY <3>1, <3>2, SelectWrites
  <2>8. \A i \in DOMAIN c7 : Writes(c7[i], cell) => Written(c7[i], cell) = v
    <3>1. drops /\ cell[1] = "row" /\ cell[2] = Name => v = "gone"
      <4> SUFFICES ASSUME drops, cell[1] = "row", cell[2] = Name PROVE v = "gone"
        OBVIOUS
      <4>1. Name \notin DOMAIN Was.rows
        BY DEF Undoable
      <4> QED BY <4>1 DEF Shown
    <3> QED BY <3>1, <2>4
  <2> HIDE DEF v
  \* From any point on only v is written.
  <2>11. WillBe(trae', s6, cell, v) => WillBe(trae', s7, cell, v)
    BY <1>11, <1>16, <2>8, WillBeFirst
  <2>12. WillBe(trae', s5, cell, v) => WillBe(trae', s7, cell, v)
    <3> HIDE DEF s7, s5
    <3>1. WillBe(trae', s5, cell, v) => WillBe(trae', s6, cell, v)
      BY <1>14, <1>16, <2>2, WillBeFirst
    <3> QED BY <3>1, <2>11
  <2>13. WillBe(trae', s4, cell, v) => WillBe(trae', s7, cell, v)
    <3> HIDE DEF s7, s4
    <3>1. WillBe(trae', s4, cell, v) => WillBe(trae', s5, cell, v)
      BY <1>13, <1>16, <2>3, WillBeFirst
    <3> QED BY <3>1, <2>12
  <2>14. WillBe(trae', s3, cell, v) => WillBe(trae', s7, cell, v)
    <3> HIDE DEF s7, s3
    <3>1. WillBe(trae', s3, cell, v) => WillBe(trae', s4, cell, v)
      BY <1>12, <1>16, <2>1, WillBeFirst
    <3> QED BY <3>1, <2>13
  <2> HIDE DEF s7
  <2>15. CASE cell[1] = "label" /\ cell[2] \in Labels
    <3>1. CASE cell[2] = Primary
      <4> HIDE DEF s4
      <4>1. WillBe(trae', s5, cell, v)
        BY <3>1, <2>3, <2>15, <1>13, <1>16, WillBeSecond
      <4> QED BY <4>1, <2>12 DEF v
    <3>2. CASE cell[2] = Extras[last]
      <4> HIDE DEF s5
      <4>1. WillBe(trae', s6, cell, v)
        BY <3>2, <2>2, <2>15, <1>14, <1>16, WillBeSecond
      <4> QED BY <4>1, <2>11 DEF v
    <3>3. CASE cell[2] # Primary /\ cell[2] # Extras[last]
      <4>1. PICK i \in DOMAIN Extras : Extras[i] = cell[2]
        BY <3>3, <2>15, ExtrasAre
      <4>2. i \in DOMAIN c4
        BY <4>1, <3>3, <1>12, ExtrasAre
      <4> HIDE DEF s3
      <4>3. WillBe(trae', s4, cell, v)
        BY <4>1, <4>2, <2>1, <2>15, <1>12, <1>16, WillBeSecond
      <4> QED BY <4>3, <2>13 DEF v
    <3> QED BY <3>1, <3>2, <3>3
  <2>16. CASE cell[1] = "task" /\ cell[2] \in Tasks
    <3>1. CASE cell[2] = Was.task
      <4> HIDE DEF s4
      <4>1. WillBe(trae', s5, cell, v)
        BY <3>1, <2>3, <2>16, <1>13, <1>16, WillBeSecond
      <4> QED BY <4>1, <2>12 DEF v
    <3>2. CASE cell[2] # Was.task /\ cell[2] = task
      <4>1. pick = v
        BY <3>2, <2>16, <1>2 DEF Undoable, v, Shown
      <4>2. task # NoTask /\ 1 \in DOMAIN c3
        BY <3>2, <2>16, <1>2, <1>10
      <4> HIDE DEF s2
      <4>3. WillBe(trae', s3, cell, v)
        BY <4>1, <4>2, <3>2, <2>7, <2>16, <1>11, <1>16, WillBeSecond
      <4> QED BY <4>3, <2>14 DEF v
    <3>3. CASE cell[2] # Was.task /\ cell[2] # task
      <4>1. Shown(trae', cell) = v
        BY <3>3, <2>16, <1>2 DEF Undoable, v, Shown
      <4>2. \A i \in DOMAIN s2 : ~Writes(s2[i], cell)
        BY <2>5, <2>6, <2>16, <1>11, CatIs
      <4>3. \A i \in DOMAIN s3 : ~Writes(s3[i], cell)
        BY <4>2, <2>7, <2>16, <3>3, <1>11, <1>16, CatIs
      <4> HIDE DEF s3
      <4>4. WillBe(trae', s3, cell, v)
        BY <4>1, <4>3, <1>16, WillBeAll
      <4> QED BY <4>4, <2>14 DEF v
    <3> QED BY <3>1, <3>2, <3>3
  <2>17. CASE cell[1] = "row" /\ cell[2] \in Names
    <3>1. CASE cell[2] = Name /\ swap
      <4>1. v = "there"
        BY <3>1, <2>17, <1>2 DEF Undoable, v, Shown
      <4>2. 1 \in DOMAIN c2
        BY <3>1, <1>10
      <4>3. WillBe(trae', s2, cell, v)
        BY <4>1, <4>2, <3>1, <2>6, <2>17, <1>11, WillBeSecond
      <4> HIDE DEF s2
      <4>4. WillBe(trae', s3, cell, v)
        BY <4>3, <2>7, <2>17, <1>11, <1>16, WillBeFirst
      <4> QED BY <4>4, <2>14 DEF v
    <3>2. CASE cell[2] = Name /\ drops
      <4>1. 1 \in DOMAIN c7
        BY <3>2, <1>10
      <4> HIDE DEF s6
      <4>2. WillBe(trae', s7, cell, v)
        BY <4>1, <3>2, <2>4, <2>8, <2>17, <1>11, <1>16, WillBeSecond DEF s7
      <4> QED BY <4>2 DEF v
    <3>3. CASE ~(cell[2] = Name /\ (swap \/ drops))
      <4>1. Shown(trae', cell) = v
        <5>1. CASE cell[2] # Name
          BY <5>1, <2>17, <1>2 DEF Undoable, v, Shown
        <5>2. CASE cell[2] = Name /\ "add" \notin tried
          BY <5>2, <3>3, <2>17, <1>2 DEF Undoable, v, Shown
        <5>3. CASE cell[2] = Name /\ "add" \in tried
          <6>1. lost /\ ~swap
            BY <5>3, <3>3
          <6>2. Name \notin DOMAIN Was.rows
            BY <5>3, <6>1 DEF Undoable
          <6> QED BY <5>3, <6>1, <6>2, <2>17 DEF v, Shown
        <5> QED BY <5>1, <5>2, <5>3
      <4>2. \A i \in DOMAIN s2 : ~Writes(s2[i], cell)
        BY <3>3, <2>5, <2>6, <2>17, <1>11, CatIs
      <4>3. \A i \in DOMAIN s3 : ~Writes(s3[i], cell)
        BY <4>2, <2>7, <2>17, <1>11, <1>16, CatIs
      <4> HIDE DEF s3
      <4>4. WillBe(trae', s3, cell, v)
        BY <4>1, <4>3, <1>16, WillBeAll
      <4> QED BY <4>4, <2>14 DEF v
    <3> QED BY <3>1, <3>2, <3>3
  <2> QED BY <2>15, <2>16, <2>17, CellIs
<1> HIDE DEF s7
<1>23. Becomes(Cells, trae', s7, Was)
  BY <1>22 DEF Becomes
<1> QED BY <1>15, <1>16, <1>20, <1>21, <1>23 DEF S

-----------------------------------------------------------------------------
(* The calls of a restore *)

\* A finite set in some order: every member is there.
LEMMA InOrder ==
  ASSUME NEW S, IsFiniteSet(S)
  PROVE  SetToSeq(S) \in Seq(S) /\ \A x \in S : \E i \in DOMAIN SetToSeq(S) : SetToSeq(S)[i] = x
<1> DEFINE n == Cardinality(S)
           f == SetToSeq(S)
<1>1. n \in Nat /\ ExistsBijection(1 .. n, S)
  BY FS_CardinalityType
<1>2. PICK g \in Bijection(1 .. n, S) : TRUE
  BY <1>1 DEF ExistsBijection
<1>3. g \in [1 .. n -> S] /\ IsInjective(g)
  BY <1>2 DEF Bijection, Injection
<1>4. f \in [1 .. n -> S] /\ IsInjective(f)
  BY <1>3 DEF SetToSeq
<1> HIDE DEF f
<1>5. f \in Seq(S)
  BY <1>1, <1>4
<1>6. f \in Injection(1 .. n, S)
  BY <1>4 DEF Injection
<1>7. IsFiniteSet(1 .. n) /\ Cardinality(1 .. n) = n
  BY <1>1, FS_Interval
<1> HIDE DEF n
<1>8. f \in Surjection(1 .. n, S)
  BY <1>6, <1>7, FS_Injection DEF n
<1>9. DOMAIN f = 1 .. n
  BY <1>4
<1> QED BY <1>5, <1>8, <1>9 DEF Surjection, f

LEMMA RestorationIs ==
  ASSUME Assumptions, NEW cp \in Cps
  PROVE  /\ Restoration(cp) \in Seq(Selectings)
         /\ Becomes(Defaults(cp), trae, Restoration(cp), Native(cp))
<1> DEFINE tasks == SetToSeq(DOMAIN cp.tasks)
           A == [i \in DOMAIN tasks |-> Select(Primary, cp.tasks[tasks[i]], tasks[i])]
           B == <<PutBack(Primary, cp.base[Primary], cp.task, cp.pick)>>
           C == [i \in DOMAIN Extras |-> PutBack(Extras[i], cp.base[Extras[i]], NoTask, Unset)]
           S == Selectings
<1>1. Restoration(cp) = (A \o B) \o C
  BY DEF Restoration
<1>2. DOMAIN cp.tasks \in SUBSET Tasks /\ IsFiniteSet(Tasks)
  BY CpFields DEF Assumptions
<1>3. tasks \in Seq(DOMAIN cp.tasks)
  BY <1>2, FS_Subset, InOrder
<1>4. \A t \in DOMAIN cp.tasks : Select(Primary, cp.tasks[t], t) \in S
  BY <1>2, CpFields, SelectIs, ExtrasAre DEF Selections
<1>5. A \in Seq(S)
  <2> HIDE DEF tasks, S
  <2> QED BY <1>3, <1>4
<1>6. PutBack(Primary, cp.base[Primary], cp.task, cp.pick) \in S
  BY CpFields, SelectIs, ExtrasAre
<1>7. \A i \in DOMAIN Extras : PutBack(Extras[i], cp.base[Extras[i]], NoTask, Unset) \in S
  BY CpFields, SelectIs, ExtrasAre
<1>8. B \in Seq(S) /\ DOMAIN B = {1} /\ B[1] = PutBack(Primary, cp.base[Primary], cp.task, cp.pick)
  BY <1>6
<1>9. C \in Seq(S) /\ DOMAIN C = DOMAIN Extras /\ \A i \in DOMAIN C : C[i] = PutBack(Extras[i], cp.base[Extras[i]], NoTask, Unset)
  BY <1>7, ExtrasAre
<1>10. S \subseteq Commands
  BY DEF Commands
<1> HIDE DEF A, B, C, S
<1>11. A \o B \in Seq(S) /\ (A \o B) \o C \in Seq(S)
  BY <1>5, <1>8, <1>9, CatIs
<1>12. ASSUME NEW cell \in Defaults(cp) PROVE WillBe(trae, (A \o B) \o C, cell, Shown(Native(cp), cell))
  <2>1. /\ cell \in Cells
        /\ \/ cell[1] = "label" /\ cell[2] \in Labels /\ Shown(Native(cp), cell) = cp.base[cell[2]]
           \/ cell[1] = "task" /\ cell[2] \in Tasks /\ cell[2] = cp.task /\ Shown(Native(cp), cell) = cp.pick
    BY DEF Defaults, Cells, LabelCells, TaskCells, Shown, Native
  <2> DEFINE v == Shown(Native(cp), cell)
  <2>2. /\ B[1] \in Commands /\ (Writes(B[1], cell) => Written(B[1], cell) = v)
        /\ Writes(B[1], cell) <=> (cell[1] = "label" /\ cell[2] = Primary) \/ cell[1] = "task"
    <3>1. B[1] \in Commands
      BY <1>8, <1>10, SeqElement
    <3>2. B[1].label = Primary /\ B[1].task = cp.task /\ B[1].to = cp.base[Primary] /\ B[1].pick = cp.pick /\ Selecting(B[1])
      BY <1>8 DEF PutBack, Selecting
    <3> HIDE DEF v
    <3>3. Writes(B[1], cell) <=> (cell[1] = "label" /\ cell[2] = Primary) \/ cell[1] = "task"
      BY <2>1, <3>1, <3>2, SelectWrites
    <3>4. Writes(B[1], cell) => Written(B[1], cell) = v
      BY <2>1, <3>1, <3>2, <3>3, SelectWrites DEF v
    <3> QED BY <3>1, <3>3, <3>4
  <2>3. \A i \in DOMAIN C : /\ C[i] \in Commands /\ (Writes(C[i], cell) => Written(C[i], cell) = v)
                            /\ Writes(C[i], cell) <=> cell[1] = "label" /\ cell[2] = Extras[i]
    <3> SUFFICES ASSUME NEW i \in DOMAIN C
                 PROVE  /\ C[i] \in Commands /\ (Writes(C[i], cell) => Written(C[i], cell) = v)
                        /\ Writes(C[i], cell) <=> cell[1] = "label" /\ cell[2] = Extras[i]
      OBVIOUS
    <3>1. C[i] \in Commands
      BY <1>9, <1>10, SeqElement
    <3>2. C[i].label = Extras[i] /\ C[i].task = NoTask /\ C[i].to = cp.base[Extras[i]] /\ Selecting(C[i]) /\ NoTask \notin Tasks
      BY <1>9 DEF PutBack, Selecting, Assumptions
    <3> HIDE DEF v
    <3>3. Writes(C[i], cell) <=> cell[1] = "label" /\ cell[2] = Extras[i]
      BY <2>1, <3>1, <3>2, SelectWrites
    <3>4. Writes(C[i], cell) => Written(C[i], cell) = v
      BY <2>1, <3>1, <3>2, <3>3, SelectWrites DEF v
    <3> QED BY <3>1, <3>3, <3>4
  <2> HIDE DEF v
  <2>4. CASE Writes(B[1], cell)
    <3>1. WillBe(trae, A \o B, cell, v)
      BY <2>2, <2>4, <1>5, <1>8, WillBeSecond
    <3>2. WillBe(trae, (A \o B) \o C, cell, v)
      <4> DEFINE AB == A \o B
      <4>1. AB \in Seq(S) /\ WillBe(trae, AB, cell, v)
        BY <1>11, <3>1
      <4> HIDE DEF AB
      <4>2. WillBe(trae, AB \o C, cell, v)
        BY <4>1, <2>3, <1>9, WillBeFirst
      <4> QED BY <4>2 DEF AB
    <3> QED BY <3>2 DEF v
  <2>5. CASE ~Writes(B[1], cell)
    <3>1. cell[1] = "label" /\ \E i \in DOMAIN C : Writes(C[i], cell)
      BY <2>1, <2>2, <2>3, <2>5, <1>9, ExtrasAre
    <3>2. WillBe(trae, (A \o B) \o C, cell, v)
      BY <3>1, <2>3, <1>9, <1>11, WillBeSecond
    <3> QED BY <3>2 DEF v
  <2> QED BY <2>4, <2>5
<1> QED BY <1>1, <1>11, <1>12 DEF Becomes, S

LEMMA ReselectionIs ==
  ASSUME Assumptions, NEW cp \in Cps, cp.active # None, NEW todo,
         todo = <<Select(Primary, cp.active, NoTask)>> \o [i \in DOMAIN Extras |-> Select(Extras[i], cp.active, NoTask)]
  PROVE  /\ todo \in Seq(ReselectsOf(cp)) /\ todo # <<>>
         /\ Becomes(LabelCells, trae, todo, Reselected(cp.active))
<1> DEFINE S == ReselectsOf(cp)
           a == cp.active
           A == <<Select(Primary, a, NoTask)>>
           B == [i \in DOMAIN Extras |-> Select(Extras[i], a, NoTask)]
<1>1. a \in Names
  BY CpFields
<1>2. \A l \in Labels : Select(l, a, NoTask) \in S
  BY <1>1, SelectIs DEF ReselectsOf, Select, Selections
<1>3. A \in Seq(S) /\ DOMAIN A = {1} /\ A[1] = Select(Primary, a, NoTask)
  BY <1>2, ExtrasAre
<1>4. B \in Seq(S) /\ DOMAIN B = DOMAIN Extras /\ \A i \in DOMAIN B : B[i] = Select(Extras[i], a, NoTask)
  BY <1>2, ExtrasAre
<1>5. todo = A \o B
  OBVIOUS
<1>6. S \subseteq Commands
  BY DEF ReselectsOf, Commands
<1> HIDE DEF A, B, S
<1>7. todo \in Seq(S) /\ todo # <<>>
  <2>1. Len(A) = 1 /\ Len(A \o B) = Len(A) + Len(B) /\ Len(B) \in Nat /\ A \o B \in Seq(S)
    BY <1>3, <1>4, CatIs
  <2> QED BY <2>1, <1>5
<1>8. ASSUME NEW cell \in LabelCells PROVE WillBe(trae, todo, cell, Shown(Reselected(a), cell))
  <2>1. cell \in Cells /\ cell[1] = "label" /\ cell[2] \in Labels /\ Shown(Reselected(a), cell) = a
    BY DEF Cells, LabelCells, Shown, Reselected
  <2>2. /\ A[1] \in Commands /\ (Writes(A[1], cell) <=> cell[2] = Primary) /\ Written(A[1], cell) = a
    <3>1. A[1] \in Commands
      BY <1>3, <1>6, SeqElement
    <3> QED BY <2>1, <3>1, <1>3, SelectWrites DEF Select, Selecting
  <2>3. \A i \in DOMAIN B : /\ B[i] \in Commands /\ (Writes(B[i], cell) <=> cell[2] = Extras[i]) /\ Written(B[i], cell) = a
    <3> SUFFICES ASSUME NEW i \in DOMAIN B
                 PROVE  /\ B[i] \in Commands /\ (Writes(B[i], cell) <=> cell[2] = Extras[i]) /\ Written(B[i], cell) = a
      OBVIOUS
    <3>1. B[i] \in Commands
      BY <1>4, <1>6, SeqElement
    <3>2. B[i].label = Extras[i] /\ B[i].task = NoTask /\ B[i].to = a /\ Selecting(B[i])
      BY <1>4 DEF Select, Selecting
    <3> QED BY <2>1, <3>1, <3>2, SelectWrites
  <2> HIDE DEF a
  <2>4. CASE cell[2] = Primary
    <3>1. WillBe(trae, A, cell, a)
      BY <2>2, <2>4, <1>3, WillBeAll
    <3>2. WillBe(trae, A \o B, cell, a)
      BY <3>1, <2>3, <1>3, <1>4, WillBeFirst
    <3> QED BY <3>2, <1>5, <2>1
  <2>5. CASE cell[2] # Primary
    <3>1. \E i \in DOMAIN B : Writes(B[i], cell)
      BY <2>1, <2>3, <2>5, <1>4, ExtrasAre
    <3>2. WillBe(trae, A \o B, cell, a)
      BY <3>1, <2>3, <1>3, <1>4, WillBeSecond
    <3> QED BY <3>2, <1>5, <2>1
  <2> QED BY <2>4, <2>5
<1> QED BY <1>7, <1>8 DEF Becomes, S

\* Every row that is owned is among those to be removed.
NamesOf(rows) == {r.name : r \in rows}
DeletesOf(names) == [i \in DOMAIN names |-> Delete(names[i])]
RemovesAll(rows, todo) == \A n : Named(rows, n) # {} => \E i \in DOMAIN todo : todo[i].name = n
LEMMA RemovalIs ==
  ASSUME Assumptions, NEW cp \in Cps, NEW names, names = SetToSeq(NamesOf(cp.owned)),
         NEW todo, todo = DeletesOf(names)
  PROVE  /\ todo \in Seq(RemovesOf(cp))
         /\ RemovesAll(cp.owned, todo)
<1> DEFINE S == {r.name : r \in cp.owned}
<1>1. \A r \in cp.owned : r.name \in Names
  BY CpFields, RowFields
<1>2. IsFiniteSet(Names)
  <2>1. IsFiniteSet(Bases) /\ 0 \in Int /\ Copies \in Int
    BY DEF Assumptions
  <2>2. IsFiniteSet(0 .. Copies)
    BY <2>1, FS_Interval
  <2> QED BY <2>1, <2>2, FS_Product DEF Names
<1>3. S \in SUBSET Names
  BY <1>1
<1>4. IsFiniteSet(S)
  BY <1>2, <1>3, FS_Subset
<1>5. \A n \in S : Delete(n) \in RemovesOf(cp)
  BY <1>3 DEF RemovesOf, Delete, Deletings
<1>6. names = SetToSeq(S)
  BY DEF NamesOf
<1>9. \A n : Named(cp.owned, n) # {} => n \in S
  BY DEF Named
<1> HIDE DEF S
<1>7. names \in Seq(S) /\ \A n \in S : \E i \in DOMAIN names : names[i] = n
  BY <1>4, <1>6, InOrder
<1>8. todo \in Seq(RemovesOf(cp)) /\ DOMAIN todo = DOMAIN names
  BY <1>5, <1>7 DEF DeletesOf
<1> QED BY <1>7, <1>8, <1>9 DEF Delete, DeletesOf, RemovesAll

-----------------------------------------------------------------------------
(* What a step leaves alone *)

LEMMA RestoreFields ==
  ASSUME op \in RestoreOps
  PROVE  /\ op.call = "restore" /\ op.phase \in RestorePhases /\ op.cp \in Cps /\ op.bound \in Bases \cup {None}
         /\ op.todo \in Seq(Commands) /\ op.kept \in SUBSET Names
BY DEF RestoreOps

\* Which operation there is, by its phase.
LEMMA OpIs ==
  ASSUME Typed
  PROVE  /\ op.phase = "idle" => op = Idle
         /\ InSwitch => op \in SwitchOps /\ op.phase \in SwitchPhases
         /\ InRestore => op \in RestoreOps /\ op.phase \in RestorePhases
         /\ op = Idle \/ InSwitch \/ InRestore
         /\ op = Idle => op.phase = "idle" /\ ~InSwitch /\ ~InRestore
         /\ op.phase \in Working \cup {"handover", "done", "unfinished", "undo"} => InSwitch /\ ~InRestore
         /\ op.phase \in {"restore", "again", "release", "clean", "restored"} => InRestore /\ ~InSwitch
<1>1. CASE op = Idle
  BY <1>1 DEF Idle, InSwitch, InRestore, Working
<1>2. CASE op \in SwitchOps
  BY <1>2, SwitchFields DEF InSwitch, InRestore, SwitchPhases, Working, Idle
<1>3. CASE op \in RestoreOps
  BY <1>3, RestoreFields DEF InSwitch, InRestore, RestorePhases, Working, Idle
<1> QED BY <1>1, <1>2, <1>3 DEF Typed

\* The bounds' counters only grow.
SpentGrows ==
  /\ spent' \in Spents /\ spent'.call = spent.call
  /\ spent'.fault >= spent.fault /\ spent'.crash >= spent.crash /\ spent'.user >= spent.user

LEMMA Grown ==
  ASSUME spent \in Spents, SpentGrows
  PROVE  /\ Mishaps \in Nat /\ Mishaps' \in Nat /\ Accidents \in Nat /\ Accidents' \in Nat
         /\ Mishaps' >= Mishaps /\ Accidents' >= Accidents
BY SpentIs DEF SpentGrows, Mishaps, Accidents, Spents

LEMMA UnspentGrows ==
  ASSUME spent \in Spents, spent' = spent PROVE SpentGrows /\ Mishaps' = Mishaps /\ Accidents' = Accidents
BY SpentIs DEF SpentGrows, Mishaps, Accidents

LEMMA FaultGrows ==
  ASSUME spent \in Spents, Fault
  PROVE  /\ SpentGrows /\ spent'.fault = spent.fault + 1 /\ Mishaps' = Mishaps + 1 /\ Accidents' = Accidents + 1
         /\ spent'.user = spent.user /\ spent'.crash = spent.crash
BY SpentIs DEF SpentGrows, Mishaps, Accidents

LEMMA FewShrinks ==
  ASSUME spent \in Spents, SpentGrows
  PROVE  (Few' => Few) /\ (OneFault' => OneFault) /\ (Accidents' = 0 => Accidents = 0)
BY SpentIs DEF SpentGrows, Spents, Few, OneFault, Accidents

LEMMA FewFault ==
  ASSUME spent \in Spents, Fault
  PROVE  (Few' => OneFault) /\ (OneFault' => OneFault /\ spent.fault = 0 /\ Accidents = 0)
BY SpentIs DEF Spents, Few, OneFault, Accidents

\* A call adds only rows that are on record, and deletes none of the user's.
LEMMA FoundKept ==
  ASSUME Typed, Found, past' = past, native' = native, spent'.call = spent.call, NEW c \in Commands,
         DOMAIN trae'.rows = DOMAIN trae.rows \/ (DOMAIN trae'.rows = DOMAIN After(c).rows /\ Accepts(c)),
         c.do = "delete" => c.name[2] # 0, c.do = "add" => c.row \in past
  PROVE  Found'
<1>1. DOMAIN After(c).rows = CASE c.do = "add" -> DOMAIN trae.rows \cup {c.row.name}
                               [] c.do = "delete" -> DOMAIN trae.rows \ {c.name}
                               [] OTHER -> DOMAIN trae.rows
  BY AfterRows DEF Typed
<1>2. CASE DOMAIN trae'.rows = DOMAIN trae.rows
  BY <1>2 DEF Found, OnRecord, OneRowAModel
<1>3. CASE DOMAIN trae'.rows = DOMAIN After(c).rows /\ Accepts(c) /\ c.do = "add"
  <2>1. DOMAIN trae'.rows = DOMAIN trae.rows \cup {c.row.name}
    BY <1>1, <1>3
  <2>2. \A n \in DOMAIN trae.rows : n[1] # c.row.name[1]
    BY <1>3 DEF Accepts
  <2>3. OnRecord'
    BY <1>3, <2>1 DEF Found, OnRecord
  <2>4. OneRowAModel(trae'.rows)
    BY <2>1, <2>2 DEF Found, OneRowAModel
  <2> QED BY <2>1, <2>3, <2>4 DEF Found
<1>4. CASE DOMAIN trae'.rows = DOMAIN After(c).rows /\ c.do = "delete"
  BY <1>1, <1>4 DEF Found, OnRecord, OneRowAModel
<1>5. CASE DOMAIN trae'.rows = DOMAIN After(c).rows /\ c.do # "delete" /\ c.do # "add"
  BY <1>1, <1>2, <1>5
<1> QED BY <1>2, <1>3, <1>4, <1>5

LEMMA FoundSame ==
  ASSUME Found, past' = past, native' = native, spent'.call = spent.call, DOMAIN trae'.rows = DOMAIN trae.rows
  PROVE  Found'
BY DEF Found, OnRecord, OneRowAModel

LEMMA HeldSame ==
  ASSUME Held, saved' = saved, past' = past, native' = native, op # Idle, op'.call = op.call,
         InSwitch \/ InRestore => op'.cp = op.cp, InSwitch => op'.old = op.old,
         op.phase \in {"failed", "restored", "undo"} => op'.phase = op.phase
  PROVE  Held'
BY DEF Held, Fits, InSwitch, InRestore

\* A checkpoint is saved, and the operation has it.
LEMMA HeldSaved ==
  ASSUME Held, native' = native, native # None, past \subseteq past', saved' # None, op' # Idle, op'.call = op.call,
         op'.cp = saved', InSwitch => op'.old = op.old,
         saved'.owned \subseteq past', OneRowAName(saved'.owned),
         saved'.base = native.chosen, saved'.task = native.task, saved'.pick = StoredPick(native)
  PROVE  Held'
BY DEF Held, Fits, InSwitch, InRestore

LEMMA AccountedKept ==
  ASSUME Typed, Accounted, SpentGrows, saved # None,
         \A n \in DOMAIN trae'.rows : n \in DOMAIN trae.rows \/ Named(saved.owned, n) # {},
         \A n : Named(saved.owned, n) # {} => Named(saved'.owned, n) # {}
  PROVE  Accounted'
<1> SUFFICES ASSUME Mishaps' <= 1, NEW n \in DOMAIN trae'.rows PROVE n[2] = 0 \/ Named(saved'.owned, n) # {}
  BY DEF Accounted
<1>1. Mishaps <= 1
  BY Grown DEF Typed
<1> QED BY <1>1 DEF Accounted

LEMMA HealthySame ==
  ASSUME Typed, Healthy, SpentGrows, trae'.chosen = trae.chosen, DOMAIN trae'.rows = DOMAIN trae.rows,
         saved' = saved, op.phase # "undo"
  PROVE  Healthy'
<1>1. Exists(trae'.rows) = Exists(trae.rows)
  BY DEF Exists
<1>2. spent'.fault = 0 \/ (spent'.crash = 0 /\ spent'.fault <= 2) => spent.fault = 0 \/ (spent.crash = 0 /\ spent.fault <= 2)
  BY SpentIs DEF Typed, SpentGrows, Spents
<1> QED BY <1>1, <1>2 DEF Healthy

LEMMA ActiveSame ==
  ASSUME Typed, Active, SpentGrows, DOMAIN trae'.rows = DOMAIN trae.rows, saved # None, saved'.active = saved.active,
         op.phase \notin {"apply", "review", "verify", "undo"}
  PROVE  Active'
<1>1. (Accidents' = 0 => Accidents = 0) /\ (Few' => Few)
  BY FewShrinks DEF Typed
<1> QED BY <1>1 DEF Active, AloneIn

LEMMA WasActiveKept ==
  ASSUME Typed, WasActive, SpentGrows, InSwitch, op.phase \in Working \cup {"undo"},
         op'.plan = op.plan, op'.old = op.old
  PROVE  WasActive'
<1>1. (Accidents' = 0 => Accidents = 0) /\ (Few' => Few)
  BY FewShrinks DEF Typed
<1> QED BY <1>1 DEF WasActive, AloneIn, Was

\* The row of the plan and the picks of the tasks switched are all that changes.
LEMMA PlanKept ==
  ASSUME Typed, PlanOK, SpentGrows, InSwitch, op.phase \in Working \cup {"undo"}, native' = native, past \subseteq past',
         op'.plan = op.plan, op'.cp.owned = op.cp.owned, op'.base = op.base, op'.task = op.task, op'.pick = op.pick,
         \A n \in Names : (n = Name /\ op.plan.created) \/ (n \in DOMAIN trae'.rows <=> n \in DOMAIN trae.rows),
         \A t \in Tasks : t \in {op.task, Was.task} \/ trae'.picks[t] = trae.picks[t]
  PROVE  PlanOK'
<1>1. spent'.user >= spent.user /\ spent.user \in Nat /\ spent'.user \in Nat
  BY SpentIs DEF SpentGrows, Typed, Spents
<1>2. Name' = Name /\ Was' = Was
  BY DEF Name, Was
<1>3. \A n \in Names : (n = Name /\ op.plan.created) \/ (n \in DOMAIN trae'.rows <=> n \in DOMAIN Was.rows)
  BY DEF PlanOK
<1>4. \A t \in Tasks : t \in {op.task, Was.task} \/ trae'.picks[t] = Was.picks[t]
  BY DEF PlanOK
<1>5. op.task # Was.task => spent'.user >= 1
  BY <1>1 DEF PlanOK
<1>6. native' # None => \A n \in DOMAIN native'.rows : n \in DOMAIN Was.rows
  BY DEF PlanOK
<1>7. InSwitch' => (op'.phase \in Working \cup {"undo"} => PlanOK')
  <2>1. /\ OneRowAModel(Was.rows) /\ \A l \in Labels : Was.chosen[l] \in Exists(Was.rows)
        /\ op.plan.replaced \subseteq past /\ (op.plan.replaced = {} \/ \E r \in Rows : op.plan.replaced = {r} /\ r.name = Name)
    BY DEF PlanOK
  <2>2. past \subseteq past'
    OBVIOUS
  <2>3. op.plan.replaced \subseteq past'
    BY <2>1, <2>2
  <2>4. op.plan.created =>
       /\ ~op.plan.borrowed /\ op.plan.row \in op.cp.owned
       /\ op.plan.replaced # {} => Name \in DOMAIN Was.rows
       /\ op.plan.replaced = {} => \A n \in DOMAIN Was.rows : n[1] # Name[1]
    BY DEF PlanOK
  <2>5. (~op.plan.created => Name \in DOMAIN Was.rows /\ op.plan.replaced = {}) /\ Name[1] = op.base
    BY DEF PlanOK
  <2>6. /\ op.task # NoTask => op.pick \in Selections
        /\ op.task # NoTask /\ op.task = Was.task => op.pick \in Exists(Was.rows)
        /\ op.task # Was.task => Was.task = NoTask
        /\ op.task # Was.task => op.pick = Was.picks[op.task]
    BY DEF PlanOK
  <2> QED BY <1>2, <1>3, <1>4, <1>5, <1>6, <2>1, <2>3, <2>4, <2>5, <2>6 DEF PlanOK
<1> QED BY <1>7 DEF PlanOK

\* Nothing is said of the plan of an operation that is over.
LEMMA Over ==
  ASSUME op'.phase \in {"idle", "handover", "done", "unfinished", "restore", "again", "release", "clean", "restored"}
  PROVE  PlanOK' /\ Forward' /\ Backward' /\ Undone' /\ WasActive'
BY DEF PlanOK, Forward, Backward, Undone, WasActive, Working

LEMMA RowsAlike ==
  ASSUME NEW t \in States, NEW u \in States, Becomes(RowCells, t, <<>>, u)
  PROVE  DOMAIN t.rows = DOMAIN u.rows
<1> SUFFICES ASSUME NEW n \in Names PROVE n \in DOMAIN t.rows <=> n \in DOMAIN u.rows
  BY StateFields
<1>1. <<"row", n>> \in RowCells
  BY DEF RowCells
<1>2. Shown(t, <<"row", n>>) = Shown(u, <<"row", n>>)
  BY <1>1, BecomesDone
<1> QED BY <1>2 DEF Shown

LEMMA LabelsAlike ==
  ASSUME NEW t \in States, NEW u, Becomes(LabelCells, t, <<>>, u), NEW l \in Labels
  PROVE  t.chosen[l] = u.chosen[l]
<1>1. <<"label", l>> \in LabelCells
  BY DEF LabelCells
<1>2. Shown(t, <<"label", l>>) = Shown(u, <<"label", l>>)
  BY <1>1, BecomesDone
<1> QED BY <1>2 DEF Shown

\* The row that was active is still the only one of its model when the row of a
\* plan has been made.
LEMMA ActiveStaysAlone ==
  ASSUME Typed, PlanOK, WasActive, Lasting, InSwitch, op.phase \in Working \cup {"undo"}, OneFault
  PROVE  ActiveAlone
<1>1. AloneIn(Was.rows, op.old.active) /\ Lasts(op.old, Was.rows) /\ PlanLasts
  <2>1. spent \in Spents /\ spent.fault \in Nat /\ spent.crash \in Nat
    BY SpentIs DEF Typed
  <2>2. Few
    BY <2>1 DEF OneFault, Few, Accidents
  <2> QED BY <2>2 DEF WasActive, Lasting
<1>2. op \in SwitchOps
  BY OpIs
<1>3. op.plan.created \in BOOLEAN /\ op.old.active \in Names \cup {None}
  BY <1>2, SwitchFields, CpFields
<1>4. Name \in DOMAIN Was.rows \/ (op.plan.created /\ \A n \in DOMAIN Was.rows : n[1] # Name[1])
  BY <1>3 DEF PlanOK
<1> SUFFICES ASSUME op.old.active # None, Name[1] = op.old.active[1], Name \notin DOMAIN Was.rows PROVE Name = op.old.active
  BY <1>1 DEF ActiveAlone, AloneIn
<1>5. op.plan.created /\ op.old.active \notin DOMAIN Was.rows
  BY <1>4
<1>6. op.old.active[2] = 1 /\ Named(op.old.owned, op.old.active) = {}
  BY <1>1, <1>5 DEF Lasts
<1>7. op.old.active = <<Name[1], 1>>
  BY <1>3, <1>6 DEF Names
<1>8. Name = op.old.active \/ op.old.active \in DOMAIN Was.rows \/ Named(op.old.owned, op.old.active) # {}
  BY <1>1, <1>5, <1>7 DEF PlanLasts
<1> QED BY <1>5, <1>6, <1>8

-----------------------------------------------------------------------------
(* A switch *)

LEMMA SeqHead ==
  ASSUME NEW S, NEW s \in Seq(S), s # <<>>
  PROVE  /\ Head(s) = s[1] /\ Head(s) \in S /\ 1 \in DOMAIN s /\ Tail(s) \in Seq(S)
         /\ \A j \in DOMAIN s : j = 1 \/ (j - 1 \in DOMAIN Tail(s) /\ Tail(s)[j - 1] = s[j] /\ 1 < j /\ j \in 2 .. Len(s))
         /\ \A j \in DOMAIN Tail(s) : j + 1 \in DOMAIN s /\ Tail(s)[j] = s[j + 1]
OBVIOUS

\* What is to be there once the calls are made, the first of which adds or deletes
\* nothing, is there already.
LEMMA ThereNow ==
  ASSUME NEW t, NEW todo \in Seq(Commands), todo # <<>>, Ordered(todo), NEW n \in Names,
         WillBe(t, todo, <<"row", n>>, "there"), Head(todo).do \notin {"add", "delete"}
  PROVE  n \in DOMAIN t.rows
<1> DEFINE cell == <<"row", n>>
<1>1. PICK i \in 0 .. Len(todo) : IF i = 0 THEN Shown(t, cell) = "there" ELSE Writes(todo[i], cell) /\ Written(todo[i], cell) = "there"
  BY DEF WillBe
<1>2. CASE i = 0
  BY <1>1, <1>2 DEF Shown
<1>3. CASE i # 0
  <2>1. i \in DOMAIN todo /\ 1 \in DOMAIN todo /\ Head(todo) = todo[1] /\ i >= 1
    BY <1>3
  <2>2. Writes(todo[i], cell) /\ Written(todo[i], cell) = "there"
    BY <1>1, <1>3
  <2>3. todo[i].do = "add"
    BY <2>2 DEF Written, Writes
  <2>4. i > 1
    BY <2>1, <2>3
  <2>5. todo[1].do = "delete"
    BY <2>1, <2>3, <2>4 DEF Ordered
  <2> QED BY <2>1, <2>5
<1> QED BY <1>2, <1>3

LEMMA UndoableIs ==
  ASSUME Typed, PlanOK, InSwitch, op.phase \in Working, trae' \in States, NEW tried,
         "delete" \in tried => op.plan.replaced # {},
         "add" \in tried => op.plan.created, "added" \in tried => "add" \in tried,
         "add" \in tried /\ op.plan.replaced # {} => "delete" \in tried,
         "add" \notin tried /\ "delete" \notin tried => (Name \in DOMAIN trae'.rows <=> Name \in DOMAIN Was.rows),
         \A n \in Names : (n = Name /\ op.plan.created) \/ (n \in DOMAIN trae'.rows <=> n \in DOMAIN trae.rows),
         \A t \in Tasks : t \in {op.task, Was.task} \/ trae'.picks[t] = trae.picks[t]
  PROVE  Undoable(trae', tried, op.task, op.pick)
<1>1. op \in SwitchOps
  BY OpIs
<1>2. op.plan.replaced # {} => op.plan.created
  BY <1>1, SwitchFields DEF PlanOK
<1>3. op.plan.created => (Name \in DOMAIN Was.rows <=> op.plan.replaced # {})
  BY DEF PlanOK
<1>4. \A n \in Names : n = Name \/ (n \in DOMAIN trae'.rows <=> n \in DOMAIN Was.rows)
  BY DEF PlanOK
<1>5. \A t \in Tasks : t \in {op.task, Was.task} \/ trae'.picks[t] = Was.picks[t]
  BY DEF PlanOK
<1>6. /\ op.task # NoTask => op.pick \in Selections
      /\ op.task # Was.task => Was.task = NoTask /\ op.pick = Was.picks[op.task]
  BY DEF PlanOK
<1>7. op.task \in Tasks \cup {NoTask}
  BY <1>1, SwitchFields
<1> QED BY <1>1, <1>2, <1>3, <1>4, <1>5, <1>6, <1>7 DEF Undoable

\* A rollback begins.
LEMMA RollsBackIs ==
  ASSUME Assumptions, Typed, Held, PlanOK, Forward, WasActive, InSwitch, op.phase \in Working,
         NEW tried, tried \in SUBSET {"delete", "add", "added"}, Undoable(trae', tried, op.task, op.pick), RollsBack(tried),
         SpentGrows, native' = native, saved' = saved, past' = past,
         Mishaps' >= 1, op.task # Was.task => Mishaps' >= 2, ~op.cp.pending => spent'.fault >= 1,
         \A n \in Names : (n = Name /\ op.plan.created) \/ (n \in DOMAIN trae'.rows <=> n \in DOMAIN trae.rows),
         \A t \in Tasks : t \in {op.task, Was.task} \/ trae'.picks[t] = trae.picks[t]
  PROVE  /\ op' \in SwitchOps /\ Held' /\ PlanOK' /\ Forward' /\ Backward' /\ Undone' /\ Returning' /\ Healthy' /\ Active'
         /\ WasActive'
<1>1. op \in SwitchOps
  BY OpIs
<1> DEFINE s == Compensation(tried, op.task, op.pick)
<1>2. /\ s \in Seq(UndoesOf(op.plan, op.task, op.pick)) /\ Ordered(s) /\ Covered(s)
      /\ Becomes(Cells, trae', s, Was)
  BY CompensationIs
<1>3. s \in Seq(Commands)
  BY <1>2 DEF UndoesOf
<1>4. op' = [op EXCEPT !.phase = "undo", !.todo = s, !.tried = tried]
  BY DEF RollsBack
<1> HIDE DEF s
<1>5. op' \in SwitchOps
  BY <1>1, <1>3, <1>4 DEF SwitchOps, SwitchPhases
<1>6. /\ op'.phase = "undo" /\ op'.todo = s /\ op'.call = "switch" /\ op'.cp = op.cp /\ op'.old = op.old
      /\ op'.plan = op.plan /\ op'.base = op.base /\ op'.task = op.task /\ op'.pick = op.pick /\ op'.bad = op.bad
  BY <1>1, <1>4 DEF SwitchOps
<1>7. Name' = Name /\ Was' = Was
  BY <1>6 DEF Name, Was
<1>8. PlanOK'
  BY <1>6, PlanKept
<1>9. WasActive'
  BY <1>6, WasActiveKept
<1>10. Held'
  <2>1. op # Idle /\ op.call = "switch"
    BY OpIs DEF InSwitch
  <2>2. op.phase \notin {"failed", "restored", "undo"}
    BY DEF Working
  <2> QED BY <1>6, <2>1, <2>2, HeldSame
<1>11. Forward' /\ Undone' /\ Returning'
  BY <1>6 DEF Forward, Undone, Returning, Working, InRestore
<1>12. saved # None
  BY OpIs DEF Held
<1>13. Healthy' /\ Active'
  BY <1>6, <1>12 DEF Healthy, Active
<1>14. Backward'
  <2>1. op.bad = {} /\ (~op.cp.pending => op.cp.active = Name) /\ (op.cp.pending => op.cp.active = op.old.active)
    BY DEF Forward
  <2>2. Becomes(RowCells, trae', s, Was) /\ Becomes(LabelCells \cup RowCells, trae', s, Was)
    BY <1>2, BecomesPart DEF Cells
  <2> QED BY <1>2, <1>6, <1>7, <2>1, <2>2 DEF Backward
<1> QED BY <1>5, <1>8, <1>9, <1>10, <1>11, <1>13, <1>14

LEMMA HistoryNumbered ==
  ASSUME Typed, Found, NEW r \in past
  PROVE  r.name[2] # 0
BY SpentIs DEF Typed, Found

\* What the calls of a switch say of the rows.
LEMMA ApplyFacts ==
  ASSUME Typed, Forward, PlanOK, Held, Found, InSwitch, op.phase \in Working, NEW c \in AppliesOf(op.plan, op.task)
  PROVE  /\ c \in Commands
         /\ c.do = "delete" => c.name = Name /\ Name[2] # 0 /\ op.plan.created /\ op.plan.replaced # {}
         /\ c.do = "add" => c.row.name = Name /\ op.plan.created /\ c.row \in past
         /\ op.plan.created => Named(op.cp.owned, Name) # {}
<1>1. c.do = "delete" => c.name = Name /\ op.plan.created /\ op.plan.replaced # {}
  BY DEF AppliesOf, Name
<1>2. c.do = "add" => c.row.name = Name /\ c.row = op.plan.row /\ op.plan.created
  BY DEF AppliesOf, Name
<1>3. op.plan.created => op.plan.row \in op.cp.owned /\ op.plan.row.name = Name
  BY DEF PlanOK, Name
<1>4. op.cp.owned \subseteq past
  BY DEF Held, Fits
<1>5. op.plan.replaced # {} => Name[2] # 0
  <2>1. op.plan.replaced # {} => \E r \in past : r.name = Name
    BY DEF PlanOK
  <2> QED BY <2>1, HistoryNumbered
<1>6. op.plan.created => Named(op.cp.owned, Name) # {}
  BY <1>3 DEF Named
<1> QED BY <1>1, <1>2, <1>3, <1>4, <1>5, <1>6 DEF AppliesOf

\* TRAE refuses no call of a switch.
LEMMA ApplyAccepted ==
  ASSUME Typed, Held, Found, PlanOK, Forward, InSwitch, op.phase \in {"apply", "review"}, op.todo # <<>>
  PROVE  Accepts(Head(op.todo))
<1> DEFINE c == Head(op.todo)
           S == AppliesOf(op.plan, op.task)
<1>1. op \in SwitchOps /\ op.todo \in Seq(S) /\ Ordered(op.todo)
  BY OpIs DEF Forward, Working
<1>2. c \in S /\ c = op.todo[1] /\ 1 \in DOMAIN op.todo
  BY <1>1, SeqHead
<1>3. Name \in Names /\ op.todo \in Seq(Commands)
  BY <1>1, SwitchFields
<1> HIDE DEF S, c
<1>4. CASE c.do = "select"
  <2>1. c.to = Name
    BY <1>2, <1>4 DEF S, AppliesOf, Name
  <2>2. <<"row", Name>> \in AimsOf(Name, op.task) /\ Shown(Switched(Name), <<"row", Name>>) = "there"
    BY DEF AimsOf, Shown, Switched
  <2>3. Becomes(AimsOf(Name, op.task), trae, op.todo, Switched(Name))
    BY DEF Forward, Working
  <2>4. WillBe(trae, op.todo, <<"row", Name>>, "there")
    BY <2>2, <2>3 DEF Becomes
  <2>5. Name \in DOMAIN trae.rows
    BY <1>1, <1>3, <1>4, <2>4, ThereNow DEF c
  <2> QED BY <1>4, <2>1, <2>5 DEF Accepts, Exists, c
<1>5. CASE c.do = "add"
  <2>1. c.row.name = Name /\ op.plan.created
    BY <1>2, <1>5 DEF S, AppliesOf, Name
  <2>2. \A i \in DOMAIN op.todo : op.todo[i].do # "delete"
    <3> SUFFICES ASSUME NEW i \in DOMAIN op.todo, op.todo[i].do = "delete" PROVE FALSE
      OBVIOUS
    <3>1. 1 < i
      BY <1>1, <1>2, <1>5, SeqHead
    <3> QED BY <3>1, <1>1, <1>2, <1>5 DEF Ordered
  <2>3. Name \notin DOMAIN trae.rows
    BY <1>2, <1>5, <2>2 DEF Forward, Working
  <2>4. \A n \in DOMAIN trae.rows : n \in Names
    BY StateFields DEF Typed
  <2>5. \A n \in DOMAIN trae.rows : n \in DOMAIN Was.rows /\ n # Name
    BY <2>3, <2>4 DEF PlanOK, Working
  <2>6. \A n \in DOMAIN trae.rows : n[1] # Name[1]
    BY <2>1, <2>5 DEF PlanOK, Working, OneRowAModel
  <2> QED BY <1>5, <2>1, <2>6 DEF Accepts, c
<1>6. CASE c.do \notin {"select", "add"}
  BY <1>6 DEF Accepts, c
<1> QED BY <1>4, <1>5, <1>6 DEF c

\* What a call may have changed: the row of its name and the picks of its tasks.
LEMMA EffectIs ==
  ASSUME trae \in States, NEW c \in Commands, trae' \in States,
         trae' = trae \/ (Did(trae', trae, c) /\ DOMAIN trae'.rows = DOMAIN After(c).rows),
         NEW name, c.do = "delete" => c.name = name, c.do = "add" => c.row.name = name,
         NEW T, Selecting(c) => c.task \in T
  PROVE  /\ \A n : n = name \/ (n \in DOMAIN trae'.rows <=> n \in DOMAIN trae.rows)
         /\ Selecting(c) => DOMAIN trae'.rows = DOMAIN trae.rows
         /\ \A t \in Tasks : t \in T \/ trae'.picks[t] = trae.picks[t]
         /\ c.do = "delete" /\ trae' # trae => name \notin DOMAIN trae'.rows
         /\ ~Selecting(c) => trae'.chosen = trae.chosen
<1>1. CASE trae' = trae
  BY <1>1
<1>2. CASE trae' # trae
  <2>1. Did(trae', trae, c) /\ DOMAIN trae'.rows = DOMAIN After(c).rows
    BY <1>2
  <2>2. DOMAIN After(c).rows = CASE c.do = "add" -> DOMAIN trae.rows \cup {c.row.name}
                                 [] c.do = "delete" -> DOMAIN trae.rows \ {c.name}
                                 [] OTHER -> DOMAIN trae.rows
    BY AfterRows
  <2>3. Selecting(c) \/ c.do = "add" \/ c.do = "delete"
    BY CommandIs
  <2>4. Selecting(c) => DOMAIN trae'.rows = DOMAIN trae.rows
    BY <2>1, <2>2 DEF Selecting
  <2>5. \A n : n = name \/ (n \in DOMAIN trae'.rows <=> n \in DOMAIN trae.rows)
    BY <2>1, <2>2, <2>3, <2>4
  <2>6. c.do = "delete" => name \notin DOMAIN trae'.rows
    BY <2>1, <2>2
  <2>7. ASSUME NEW t \in Tasks, t \notin T PROVE trae'.picks[t] = trae.picks[t]
    <3>1. <<"task", t>> \in Cells
      BY DEF Cells, TaskCells
    <3>2. ~Writes(c, <<"task", t>>)
      BY <2>7 DEF Writes
    <3>3. Shown(trae', <<"task", t>>) = Shown(trae, <<"task", t>>)
      BY <2>1, <3>1, <3>2 DEF Did
    <3> QED BY <3>3 DEF Shown
  <2>8. ASSUME ~Selecting(c) PROVE trae'.chosen = trae.chosen
    <3>1. ASSUME NEW l \in Labels PROVE trae'.chosen[l] = trae.chosen[l]
      <4>1. <<"label", l>> \in Cells
        BY DEF Cells, LabelCells
      <4>2. ~Writes(c, <<"label", l>>)
        BY <2>8 DEF Writes
      <4>3. Shown(trae', <<"label", l>>) = Shown(trae, <<"label", l>>)
        BY <2>1, <4>1, <4>2 DEF Did
      <4> QED BY <4>3 DEF Shown
    <3>2. trae'.chosen \in [Labels -> Selections] /\ trae.chosen \in [Labels -> Selections]
      BY StateFields
    <3> QED BY <3>1, <3>2
  <2> QED BY <2>4, <2>5, <2>6, <2>7, <2>8
<1> QED BY <1>1, <1>2

\* A series whose first call shows its effect in the cells of C.
LEMMA BecomesShown ==
  ASSUME NEW S, NEW todo \in Seq(S), todo # <<>>, NEW t, NEW u, NEW w, NEW C, Becomes(C, t, todo, w),
         \A cell \in C : Shown(u, cell) = IF Writes(Head(todo), cell) THEN Written(Head(todo), cell) ELSE Shown(t, cell)
  PROVE  Becomes(C, u, Tail(todo), w)
<1> SUFFICES ASSUME NEW cell \in C PROVE WillBe(u, Tail(todo), cell, Shown(w, cell))
  BY DEF Becomes
<1>1. WillBe(t, todo, cell, Shown(w, cell))
  BY DEF Becomes
<1>2. Shown(u, cell) = IF Writes(Head(todo), cell) THEN Written(Head(todo), cell) ELSE Shown(t, cell)
  OBVIOUS
<1> HIDE DEF WillBe, Shown, Writes, Written
<1> QED BY <1>1, <1>2, WillBeStep

\* A call of a switch, whatever became of it.
LEMMA ApplyCalled ==
  ASSUME Assumptions, Typed, Held, Found, PlanOK, Forward, Accounted, InSwitch, op.phase \in {"apply", "review"},
         NEW c \in AppliesOf(op.plan, op.task), trae' \in States,
         trae' = trae \/ (Did(trae', trae, c) /\ DOMAIN trae'.rows = DOMAIN After(c).rows /\ Accepts(c)),
         SpentGrows, saved' = saved, past' = past, native' = native
  PROVE  /\ Found' /\ Accounted'
         /\ \A n \in Names : (n = Name /\ op.plan.created) \/ (n \in DOMAIN trae'.rows <=> n \in DOMAIN trae.rows)
         /\ c.do = "select" => DOMAIN trae'.rows = DOMAIN trae.rows
         /\ \A t \in Tasks : t \in {op.task, Was.task} \/ trae'.picks[t] = trae.picks[t]
         /\ c.do = "delete" /\ trae' # trae => Name \notin DOMAIN trae'.rows
<1>1. /\ c \in Commands
      /\ c.do = "delete" => c.name = Name /\ Name[2] # 0 /\ op.plan.created /\ op.plan.replaced # {}
      /\ c.do = "add" => c.row.name = Name /\ op.plan.created /\ c.row \in past
      /\ op.plan.created => Named(op.cp.owned, Name) # {}
  BY ApplyFacts DEF Working
<1>2. Found'
  <2>1. spent'.call = spent.call
    BY DEF SpentGrows
  <2> QED BY <1>1, <2>1, FoundKept
<1>3. Selecting(c) => c.task \in {NoTask, op.task}
  BY DEF AppliesOf, Selecting
<1>4. trae \in States /\ NoTask \notin Tasks
  BY DEF Typed, Assumptions
<1>5. /\ \A n : n = Name \/ (n \in DOMAIN trae'.rows <=> n \in DOMAIN trae.rows)
      /\ Selecting(c) => DOMAIN trae'.rows = DOMAIN trae.rows
      /\ \A t \in Tasks : t \in {NoTask, op.task} \/ trae'.picks[t] = trae.picks[t]
      /\ c.do = "delete" /\ trae' # trae => Name \notin DOMAIN trae'.rows
  <2> DEFINE T == {NoTask, op.task}
  <2>1. Selecting(c) => c.task \in T
    BY <1>3
  <2> HIDE DEF T
  <2>2. /\ \A n : n = Name \/ (n \in DOMAIN trae'.rows <=> n \in DOMAIN trae.rows)
        /\ Selecting(c) => DOMAIN trae'.rows = DOMAIN trae.rows
        /\ \A t \in Tasks : t \in T \/ trae'.picks[t] = trae.picks[t]
        /\ c.do = "delete" /\ trae' # trae => Name \notin DOMAIN trae'.rows
    BY <1>1, <1>4, <2>1, EffectIs
  <2> QED BY <2>2 DEF T
<1>6. Selecting(c) \/ op.plan.created
  BY <1>1, CommandIs
<1>7. \A n \in Names : (n = Name /\ op.plan.created) \/ (n \in DOMAIN trae'.rows <=> n \in DOMAIN trae.rows)
  BY <1>5, <1>6
<1>8. saved = op.cp /\ saved # None
  BY OpIs DEF Held
<1>9. \A n \in DOMAIN trae'.rows : n \in DOMAIN trae.rows \/ Named(saved.owned, n) # {}
  <2>1. \A n \in DOMAIN trae'.rows : n \in Names
    BY StateFields
  <2> QED BY <1>1, <1>7, <1>8, <2>1
<1>10. Accounted'
  BY <1>8, <1>9, AccountedKept
<1>11. \A t \in Tasks : t \in {op.task, Was.task} \/ trae'.picks[t] = trae.picks[t]
  BY <1>4, <1>5
<1>12. c.do = "select" => DOMAIN trae'.rows = DOMAIN trae.rows
  BY <1>5 DEF Selecting
<1>13. c.do = "delete" /\ trae' # trae => Name \notin DOMAIN trae'.rows
  BY <1>5
<1> QED BY <1>2, <1>7, <1>10, <1>11, <1>12, <1>13

\* The next call of a switch is due.
Advances(c) == op' = [op EXCEPT !.todo = Tail(@), !.tried = Tried(c, TRUE)]

LEMMA TriedIs ==
  ASSUME NEW c, op.tried \in SUBSET {"delete", "add", "added"}
  PROVE  /\ Tried(c, TRUE) \in SUBSET {"delete", "add", "added"} /\ Tried(c, FALSE) \in SUBSET {"delete", "add", "added"}
         /\ c.do = "delete" => Tried(c, TRUE) = op.tried \cup {"delete"} /\ Tried(c, FALSE) = op.tried \cup {"delete"}
         /\ c.do = "add" => Tried(c, TRUE) = op.tried \cup {"add", "added"} /\ Tried(c, FALSE) = op.tried \cup {"add"}
         /\ c.do \notin {"delete", "add"} => Tried(c, TRUE) = op.tried /\ Tried(c, FALSE) = op.tried
BY DEF Tried

\* What has been tried, in a switch whose next call is c, says what may have become
\* of the row.
LEMMA TriedKept ==
  ASSUME Typed, Held, Found, PlanOK, Forward, InSwitch, op.phase \in {"apply", "review"}, op.todo # <<>>,
         NEW c, c = Head(op.todo), NEW ok \in BOOLEAN, NEW tried, tried = Tried(c, ok),
         c.do = "select" => DOMAIN trae'.rows = DOMAIN trae.rows
  PROVE  /\ tried \in SUBSET {"delete", "add", "added"}
         /\ "delete" \in tried => op.plan.replaced # {}
         /\ "add" \in tried => op.plan.created
         /\ "added" \in tried => "add" \in tried
         /\ "add" \notin tried /\ "delete" \notin tried => (Name \in DOMAIN trae'.rows <=> Name \in DOMAIN Was.rows)
         /\ "add" \in tried /\ op.plan.replaced # {} => "delete" \in tried
         /\ op.plan.replaced # {} => "delete" \in tried \/ \E i \in DOMAIN Tail(op.todo) : Tail(op.todo)[i].do = "delete"
<1> DEFINE S == AppliesOf(op.plan, op.task)
<1>1. op \in SwitchOps /\ op.todo \in Seq(S) /\ Ordered(op.todo)
  BY OpIs DEF Forward, Working
<1>2. c \in S /\ c = op.todo[1] /\ 1 \in DOMAIN op.todo
  BY <1>1, SeqHead
<1>3. /\ c.do \in {"delete", "add", "select"}
      /\ c.do = "delete" => op.plan.created /\ op.plan.replaced # {}
      /\ c.do = "add" => op.plan.created
  BY <1>2, CommandIs DEF AppliesOf, Selecting
<1>4. op.tried \in SUBSET {"delete", "add", "added"}
  BY <1>1, SwitchFields
<1>5. /\ tried \in SUBSET {"delete", "add", "added"}
      /\ c.do = "delete" => tried = op.tried \cup {"delete"}
      /\ c.do = "add" => tried = op.tried \cup {"add", "added"} \/ tried = op.tried \cup {"add"}
      /\ c.do = "select" => tried = op.tried
  BY <1>4, TriedIs
<1>6. /\ TriedOK
      /\ "add" \in op.tried /\ op.plan.replaced # {} => "delete" \in op.tried
      /\ op.plan.replaced # {} => "delete" \in op.tried \/ \E i \in DOMAIN op.todo : op.todo[i].do = "delete"
  BY DEF Forward, Working
<1>7. c.do = "add" => \A i \in DOMAIN op.todo : op.todo[i].do # "delete"
  <2> SUFFICES ASSUME c.do = "add", NEW i \in DOMAIN op.todo, op.todo[i].do = "delete" PROVE FALSE
    OBVIOUS
  <2>1. 1 < i
    BY <1>1, <1>2, SeqHead
  <2> QED BY <2>1, <1>1, <1>2 DEF Ordered
<1>8. op.plan.replaced # {} => "delete" \in tried \/ \E i \in DOMAIN Tail(op.todo) : Tail(op.todo)[i].do = "delete"
  <2> SUFFICES ASSUME op.plan.replaced # {}, "delete" \notin tried
               PROVE  \E i \in DOMAIN Tail(op.todo) : Tail(op.todo)[i].do = "delete"
    OBVIOUS
  <2>1. "delete" \notin op.tried /\ c.do # "delete"
    BY <1>3, <1>5
  <2>2. PICK i \in DOMAIN op.todo : op.todo[i].do = "delete"
    BY <1>6, <2>1
  <2>3. i # 1
    BY <1>2, <2>1, <2>2
  <2>4. i - 1 \in DOMAIN Tail(op.todo) /\ Tail(op.todo)[i - 1] = op.todo[i]
    BY <1>1, <2>3, SeqHead
  <2> QED BY <2>2, <2>4
<1>9. "add" \in tried /\ op.plan.replaced # {} => "delete" \in tried
  BY <1>3, <1>5, <1>6, <1>7
<1>10. "add" \notin tried /\ "delete" \notin tried => (Name \in DOMAIN trae'.rows <=> Name \in DOMAIN Was.rows)
  BY <1>3, <1>5, <1>6 DEF TriedOK
<1>11. /\ "delete" \in tried => op.plan.replaced # {}
       /\ "add" \in tried => op.plan.created
       /\ "added" \in tried => "add" \in tried
  BY <1>3, <1>5, <1>6 DEF TriedOK
<1> QED BY <1>5, <1>8, <1>9, <1>10, <1>11

\* A call of a switch whose effect is there.
LEMMA AdvanceIs ==
  ASSUME Assumptions, IInv, InSwitch, op.phase \in {"apply", "review"}, op.todo # <<>>,
         NEW c, c = Head(op.todo), trae' \in States, trae'.task = trae.task,
         trae' = trae \/ (Did(trae', trae, c) /\ DOMAIN trae'.rows = DOMAIN After(c).rows /\ Accepts(c)),
         \A cell \in AimsOf(Name, op.task) :
           Shown(trae', cell) = IF Writes(c, cell) THEN Written(c, cell) ELSE Shown(trae, cell),
         SpentGrows, Advances(c), UNCHANGED <<saved, past, binding, key, native>>
  PROVE  Core'
<1> DEFINE S == AppliesOf(op.plan, op.task)
<1>0. Typed /\ Held /\ Found /\ PlanOK /\ Forward /\ Accounted /\ WasActive
  BY DEF IInv, Core
<1>1. op \in SwitchOps /\ op.todo \in Seq(S) /\ Ordered(op.todo)
  BY <1>0, OpIs DEF Forward, Working
<1>2. c \in S /\ Tail(op.todo) \in Seq(S)
  BY <1>1, SeqHead
<1>3. /\ Found' /\ Accounted'
      /\ \A n \in Names : (n = Name /\ op.plan.created) \/ (n \in DOMAIN trae'.rows <=> n \in DOMAIN trae.rows)
      /\ c.do = "select" => DOMAIN trae'.rows = DOMAIN trae.rows
      /\ \A t \in Tasks : t \in {op.task, Was.task} \/ trae'.picks[t] = trae.picks[t]
      /\ c.do = "delete" /\ trae' # trae => Name \notin DOMAIN trae'.rows
  BY <1>0, <1>2, ApplyCalled
<1> DEFINE tried == Tried(c, TRUE)
<1>4. /\ tried \in SUBSET {"delete", "add", "added"}
      /\ "delete" \in tried => op.plan.replaced # {}
      /\ "add" \in tried => op.plan.created
      /\ "added" \in tried => "add" \in tried
      /\ "add" \notin tried /\ "delete" \notin tried => (Name \in DOMAIN trae'.rows <=> Name \in DOMAIN Was.rows)
      /\ "add" \in tried /\ op.plan.replaced # {} => "delete" \in tried
      /\ op.plan.replaced # {} => "delete" \in tried \/ \E i \in DOMAIN Tail(op.todo) : Tail(op.todo)[i].do = "delete"
  BY <1>0, <1>3, TriedKept
<1>5. op' = [op EXCEPT !.todo = Tail(op.todo), !.tried = tried]
  BY DEF Advances
<1> HIDE DEF tried
<1>6. Tail(op.todo) \in Seq(Commands)
  BY <1>2 DEF AppliesOf
<1>7. op' \in SwitchOps
  BY <1>1, <1>4, <1>5, <1>6 DEF SwitchOps
<1>8. /\ op'.phase = op.phase /\ op'.todo = Tail(op.todo) /\ op'.call = "switch" /\ op'.cp = op.cp /\ op'.old = op.old
      /\ op'.plan = op.plan /\ op'.base = op.base /\ op'.task = op.task /\ op'.pick = op.pick /\ op'.bad = op.bad
      /\ op'.tried = tried
  BY <1>1, <1>5 DEF SwitchOps
<1>9. Name' = Name /\ Was' = Was
  BY <1>8 DEF Name, Was
<1>10. Typed'
  BY <1>0, <1>7 DEF Typed, SpentGrows
<1>11. PlanOK'
  BY <1>0, <1>3, <1>8, PlanKept DEF Working
<1>12. WasActive'
  BY <1>0, <1>8, WasActiveKept DEF Working
<1>13. Held'
  <2>1. op # Idle /\ op.call = "switch" /\ op.phase \notin {"failed", "restored"}
    BY <1>0, OpIs DEF InSwitch
  <2> QED BY <1>0, <1>8, <2>1, HeldSame
<1>14. saved = op.cp /\ op.cp.pending /\ saved # None
  BY <1>0, OpIs DEF Held, Forward, Working
<1>15. Healthy' /\ Active' /\ Backward' /\ Undone' /\ Returning'
  BY <1>8, <1>14 DEF Healthy, Active, Backward, Undone, Returning, InRestore
<1>16. Ordered(Tail(op.todo))
  BY <1>1, OrderedTail
<1>17. Becomes(AimsOf(Name, op.task), trae', Tail(op.todo), Switched(Name))
  <2>1. Becomes(AimsOf(Name, op.task), trae, op.todo, Switched(Name))
    BY <1>0 DEF Forward, Working
  <2> QED BY <1>1, <2>1, BecomesShown
<1>18. (\E i \in DOMAIN Tail(op.todo) : Tail(op.todo)[i].do = "add") /\ (\A i \in DOMAIN Tail(op.todo) : Tail(op.todo)[i].do # "delete") =>
         Name \notin DOMAIN trae'.rows
  <2> SUFFICES ASSUME NEW i \in DOMAIN Tail(op.todo), Tail(op.todo)[i].do = "add",
                      \A j \in DOMAIN Tail(op.todo) : Tail(op.todo)[j].do # "delete"
               PROVE  Name \notin DOMAIN trae'.rows
    OBVIOUS
  <2>1. i + 1 \in DOMAIN op.todo /\ op.todo[i + 1].do = "add" /\ 1 \in DOMAIN op.todo /\ 1 < i + 1 /\ c = op.todo[1]
    <3>1. i + 1 \in DOMAIN op.todo /\ op.todo[i + 1].do = "add" /\ 1 \in DOMAIN op.todo /\ c = op.todo[1]
      BY <1>1, SeqHead
    <3>2. i \in Nat /\ i >= 1
      BY <1>2
    <3> QED BY <3>1, <3>2
  <2>2. c.do = "delete"
    BY <1>1, <2>1 DEF Ordered
  <2>3. c.name = Name /\ Name \in Names
    BY <1>1, <1>2, <2>2, SwitchFields DEF AppliesOf, Name
  <2>4. <<"row", Name>> \in AimsOf(Name, op.task)
    BY DEF AimsOf
  <2>5. Writes(c, <<"row", Name>>) /\ Written(c, <<"row", Name>>) = "gone"
    BY <2>2, <2>3 DEF Writes, Written
  <2>6. Shown(trae', <<"row", Name>>) = "gone"
    BY <2>4, <2>5
  <2> QED BY <2>6 DEF Shown
<1>19. TriedOK'
  BY <1>4, <1>8, <1>9 DEF TriedOK
<1>20. Forward'
  <2>1. /\ op.cp.active = op.old.active /\ op.bad = {}
        /\ trae.task # op.task => spent.user >= 1
        /\ trae.task # op.task /\ op.task # Was.task => spent.user >= 2
    BY <1>0 DEF Forward, Working
  <2>2. spent'.user >= spent.user /\ spent.user \in Nat /\ spent'.user \in Nat
    BY <1>0, SpentIs DEF SpentGrows, Typed, Spents
  <2>3. /\ trae'.task # op'.task => spent'.user >= 1
        /\ trae'.task # op'.task /\ op'.task # Was'.task => spent'.user >= 2
    BY <1>8, <1>9, <2>1, <2>2
  <2> QED BY <1>2, <1>4, <1>8, <1>9, <1>14, <1>16, <1>17, <1>18, <1>19, <2>1, <2>3 DEF Forward
<1> QED BY <1>3, <1>10, <1>11, <1>12, <1>13, <1>15, <1>20 DEF IInv, Core

LEMMA ApplyingIs ==
  ASSUME Applying
  PROVE  LET c == Head(op.todo) IN
         /\ op.phase \in {"apply", "review"} /\ op.todo # <<>> /\ UNCHANGED <<saved, past, binding, key, native>>
         /\ \/ Answered(c, TRUE) /\ Advances(c)
            \/ Answered(c, FALSE) /\ Seen(c) /\ Advances(c)
            \/ Answered(c, FALSE) /\ RollsBack(Tried(c, FALSE))
<1> DEFINE c == Head(op.todo)
<1>1. PICK ok \in BOOLEAN :
        /\ Answered(c, ok)
        /\ IF ok \/ (Reached("apply") /\ Seen(c))
             THEN op' = [op EXCEPT !.todo = Tail(@), !.tried = Tried(c, TRUE)]
             ELSE RollsBack(Tried(c, FALSE))
  BY DEF Applying
<1>2. CASE ok = TRUE
  BY <1>1, <1>2 DEF Applying, Advances
<1>3. CASE ok = FALSE
  BY <1>1, <1>3 DEF Applying, Advances
<1> QED BY <1>2, <1>3

LEMMA ApplyingKeeps ==
  ASSUME Assumptions, IInv, Applying
  PROVE  Core'
<1> DEFINE c == Head(op.todo)
           S == AppliesOf(op.plan, op.task)
<1>0. Typed /\ Held /\ Found /\ PlanOK /\ Forward /\ Accounted /\ WasActive
  BY DEF IInv, Core
<1>1. /\ op.phase \in {"apply", "review"} /\ op.todo # <<>> /\ UNCHANGED <<saved, past, binding, key, native>>
      /\ \/ Answered(c, TRUE) /\ Advances(c)
         \/ Answered(c, FALSE) /\ Seen(c) /\ Advances(c)
         \/ Answered(c, FALSE) /\ RollsBack(Tried(c, FALSE))
  BY ApplyingIs
<1>2. InSwitch /\ op.phase \in Working /\ op \in SwitchOps
  BY <1>0, <1>1, OpIs DEF Working
<1>3. op.todo \in Seq(S)
  BY <1>0, <1>2 DEF Forward
<1>4. c \in S /\ c \in Commands
  BY <1>1, <1>3, SeqHead DEF AppliesOf
<1>5. Accepts(c)
  BY <1>0, <1>1, <1>2, ApplyAccepted
<1>6. trae \in States /\ spent \in Spents
  BY <1>0 DEF Typed
<1> HIDE DEF c
<1>7. CASE Answered(c, TRUE) /\ Advances(c)
  <2>1. /\ trae' \in States /\ trae'.task = trae.task /\ Did(trae', trae, c)
        /\ DOMAIN trae'.rows = DOMAIN After(c).rows /\ spent' = spent
    BY <1>4, <1>6, <1>7, AnsweredTrue
  <2>2. SpentGrows
    BY <1>6, <2>1, UnspentGrows
  <2>3. \A cell \in AimsOf(Name, op.task) : cell \in Cells
    BY <1>2, SwitchFields, SwitchedShows
  <2>4. \A cell \in AimsOf(Name, op.task) :
           Shown(trae', cell) = IF Writes(c, cell) THEN Written(c, cell) ELSE Shown(trae, cell)
    BY <2>1, <2>3 DEF Did
  <2> QED BY <1>1, <1>2, <1>5, <1>7, <2>1, <2>2, <2>4, AdvanceIs DEF c
<1>8. ASSUME Answered(c, FALSE)
      PROVE  /\ trae' \in States /\ trae'.task = trae.task
             /\ trae' = trae \/ (Did(trae', trae, c) /\ DOMAIN trae'.rows = DOMAIN After(c).rows /\ Accepts(c))
             /\ Fault /\ SpentGrows /\ spent'.fault = spent.fault + 1 /\ spent'.user = spent.user /\ Mishaps' = Mishaps + 1
  <2>1. /\ trae' \in States /\ trae'.task = trae.task
        /\ trae' = trae \/ (Did(trae', trae, c) /\ DOMAIN trae'.rows = DOMAIN After(c).rows /\ Accepts(c))
        /\ Fault
    BY <1>4, <1>5, <1>6, <1>8, AnsweredFalse
  <2> QED BY <1>6, <2>1, FaultGrows
<1>9. CASE Answered(c, FALSE) /\ Seen(c) /\ Advances(c)
  <2>1. \A cell \in AimsOf(Name, op.task) :
           Shown(trae', cell) = IF Writes(c, cell) THEN Written(c, cell) ELSE Shown(trae, cell)
    <3> SUFFICES ASSUME NEW cell \in AimsOf(Name, op.task)
                 PROVE  Shown(trae', cell) = IF Writes(c, cell) THEN Written(c, cell) ELSE Shown(trae, cell)
      OBVIOUS
    <3>1. cell \in Cells /\ cell[1] \in {"row", "task", "label"} /\ (cell[1] = "task" => cell[2] \in Tasks)
      BY <1>2, SwitchFields, SwitchedShows
    <3>2. CASE trae' # trae
      <4>1. Did(trae', trae, c)
        BY <1>8, <1>9, <3>2
      <4> QED BY <3>1, <4>1 DEF Did
    <3>3. CASE trae' = trae /\ c.do = "add"
      <4>1. c.row.name = Name
        BY <1>4, <3>3 DEF AppliesOf, Name
      <4>2. Name \in DOMAIN trae.rows
        BY <1>9, <3>3 DEF Seen, Name
      <4>3. Writes(c, cell) => cell[1] = "row" /\ cell[2] = Name
        BY <1>4, <3>1, <3>3, <4>1, SelectWrites
      <4> QED BY <3>3, <4>2, <4>3 DEF Shown, Written
    <3>4. CASE trae' = trae /\ c.do = "select"
      <4>1. /\ c.label = Primary /\ trae.chosen[Primary] = c.to
            /\ c.task # NoTask => trae.picks[c.task] = c.to
        BY <1>9, <3>4 DEF Seen
      <4>2. c.to = Name /\ c.pick = Name /\ Selecting(c)
        BY <1>4, <3>4 DEF AppliesOf, Name, Selecting
      <4>3. /\ Writes(c, cell) <=> (cell[1] = "label" /\ cell[2] = c.label) \/ (cell[1] = "task" /\ cell[2] = c.task)
            /\ Written(c, cell) = IF cell[1] = "label" THEN c.to ELSE IF cell[1] = "task" THEN c.pick ELSE "gone"
        BY <1>4, <3>1, <4>2, SelectWrites
      <4>4. NoTask \notin Tasks
        BY DEF Assumptions
      <4> QED BY <3>1, <3>4, <4>1, <4>2, <4>3, <4>4 DEF Shown
    <3> QED BY <1>9, <3>2, <3>3, <3>4 DEF Seen
  <2> QED BY <1>1, <1>2, <1>8, <1>9, <2>1, AdvanceIs DEF c
<1>10. CASE Answered(c, FALSE) /\ RollsBack(Tried(c, FALSE))
  <2> DEFINE tried == Tried(c, FALSE)
  <2>1. /\ Found' /\ Accounted'
        /\ \A n \in Names : (n = Name /\ op.plan.created) \/ (n \in DOMAIN trae'.rows <=> n \in DOMAIN trae.rows)
        /\ c.do = "select" => DOMAIN trae'.rows = DOMAIN trae.rows
        /\ \A t \in Tasks : t \in {op.task, Was.task} \/ trae'.picks[t] = trae.picks[t]
    BY <1>0, <1>1, <1>2, <1>4, <1>8, <1>10, ApplyCalled
  <2>2. /\ tried \in SUBSET {"delete", "add", "added"}
        /\ "delete" \in tried => op.plan.replaced # {}
        /\ "add" \in tried => op.plan.created
        /\ "added" \in tried => "add" \in tried
        /\ "add" \notin tried /\ "delete" \notin tried => (Name \in DOMAIN trae'.rows <=> Name \in DOMAIN Was.rows)
        /\ "add" \in tried /\ op.plan.replaced # {} => "delete" \in tried
    BY <1>0, <1>1, <1>2, <2>1, TriedKept DEF c
  <2> HIDE DEF tried
  <2>3. Undoable(trae', tried, op.task, op.pick)
    BY <1>0, <1>2, <1>8, <1>10, <2>1, <2>2, UndoableIs
  <2>4. op.cp.pending /\ saved # None
    BY <1>0, <1>1, <1>2, OpIs DEF Forward, Held
  <2>5. Mishaps' >= 1 /\ (op.task # Was.task => Mishaps' >= 2)
    <3>1. Mishaps = spent.fault + spent.user /\ spent.fault \in Nat /\ spent.user \in Nat
      BY <1>6, SpentIs DEF Mishaps
    <3>2. op.task # Was.task => spent.user >= 1
      BY <1>0, <1>2 DEF PlanOK
    <3> QED BY <1>8, <1>10, <3>1, <3>2
  <2>6. RollsBack(tried)
    BY <1>10 DEF tried
  <2>7. /\ op' \in SwitchOps /\ Held' /\ PlanOK' /\ Forward' /\ Backward' /\ Undone' /\ Returning' /\ Healthy' /\ Active'
        /\ WasActive'
    BY <1>0, <1>1, <1>2, <1>8, <1>10, <2>1, <2>2, <2>3, <2>4, <2>5, <2>6, RollsBackIs
  <2>8. Typed'
    BY <1>0, <1>1, <1>8, <1>10, <2>7 DEF Typed, SpentGrows
  <2> QED BY <2>1, <2>7, <2>8 DEF IInv, Core
<1> QED BY <1>1, <1>7, <1>9, <1>10 DEF c

\* The last conjuncts of the invariant, in a step of a switch that changes neither
\* TRAE nor the checkpoint.
LEMMA RollbackHere ==
  ASSUME Assumptions, IInv, InSwitch, op.phase \in Working, RollsBack(op.tried),
         UNCHANGED <<trae, saved, past, binding, key, native>>, SpentGrows,
         Mishaps' >= 1, op.task # Was.task => Mishaps' >= 2, ~op.cp.pending => spent'.fault >= 1
  PROVE  Core'
<1>0. Typed /\ Held /\ Found /\ PlanOK /\ Forward /\ Accounted /\ WasActive
  BY DEF IInv, Core
<1>1. op \in SwitchOps
  BY <1>0, OpIs
<1>2. trae' \in States /\ op.tried \in SUBSET {"delete", "add", "added"}
  BY <1>0, <1>1, SwitchFields DEF Typed
<1>3. TriedOK /\ ("add" \in op.tried /\ op.plan.replaced # {} => "delete" \in op.tried)
  BY <1>0 DEF Forward
<1>4. Undoable(trae', op.tried, op.task, op.pick)
  BY <1>0, <1>2, <1>3, UndoableIs DEF TriedOK
<1>5. /\ op' \in SwitchOps /\ Held' /\ PlanOK' /\ Forward' /\ Backward' /\ Undone' /\ Returning' /\ Healthy' /\ Active'
      /\ WasActive'
  BY <1>0, <1>2, <1>4, RollsBackIs
<1>6. Typed'
  BY <1>0, <1>5 DEF Typed, SpentGrows
<1>7. Found'
  BY <1>0, FoundSame DEF SpentGrows
<1>8. saved # None
  BY <1>0, OpIs DEF Held
<1>9. Accounted'
  BY <1>0, <1>8, AccountedKept
<1> QED BY <1>5, <1>6, <1>7, <1>9 DEF IInv, Core

\* What a switch has when all its calls are made.
LEMMA AimsMet ==
  ASSUME Typed, Forward, InSwitch, op.phase \in Working, op.todo = <<>>
  PROVE  /\ \A l \in Labels : trae.chosen[l] = Name
         /\ op.task \in Tasks => trae.picks[op.task] = Name
         /\ Name \in DOMAIN trae.rows
         /\ \A cell \in AimsOf(Name, op.task) : Shown(trae, cell) = Shown(Switched(Name), cell)
<1>1. \A cell \in AimsOf(Name, op.task) : Shown(trae, cell) = Shown(Switched(Name), cell)
  BY BecomesDone DEF Forward
<1>2. ASSUME NEW l \in Labels PROVE trae.chosen[l] = Name
  <2>1. <<"label", l>> \in AimsOf(Name, op.task)
    BY DEF AimsOf, LabelCells
  <2>2. Shown(trae, <<"label", l>>) = Shown(Switched(Name), <<"label", l>>)
    BY <1>1, <2>1
  <2> QED BY <2>2 DEF Shown, Switched
<1>3. ASSUME op.task \in Tasks PROVE trae.picks[op.task] = Name
  <2>1. <<"task", op.task>> \in AimsOf(Name, op.task)
    BY <1>3 DEF AimsOf, TaskCells
  <2>2. Shown(trae, <<"task", op.task>>) = Shown(Switched(Name), <<"task", op.task>>)
    BY <1>1, <2>1
  <2> QED BY <1>3, <2>2 DEF Shown, Switched
<1>4. Name \in DOMAIN trae.rows
  <2>1. <<"row", Name>> \in AimsOf(Name, op.task)
    BY DEF AimsOf
  <2>2. Shown(trae, <<"row", Name>>) = Shown(Switched(Name), <<"row", Name>>)
    BY <1>1, <2>1
  <2> QED BY <2>2 DEF Shown, Switched
<1> QED BY <1>1, <1>2, <1>3, <1>4

\* A task was opened: its baseline goes into the checkpoint and into the plan,
\* and its pick is that of when the switch was planned.
LEMMA TaskSeen ==
  ASSUME Assumptions, IInv, op.phase \in {"apply", "review"}, op.todo = <<>>,
         trae.task # NoTask, op.task = NoTask, Effective(trae, trae.task) # Name,
         NEW cp, cp = [op.cp EXCEPT !.tasks = WithTask(op.cp.tasks, trae.task, Effective(trae, trae.task))]
  PROVE  LET pick == Effective(trae, trae.task) IN
         /\ cp \in Cps /\ cp.owned = op.cp.owned /\ cp.base = op.cp.base /\ cp.task = op.cp.task /\ cp.pick = op.cp.pick
         /\ cp.active = op.cp.active /\ cp.pending = op.cp.pending
         /\ trae.task \in Tasks /\ NoTask \notin Tasks /\ Was.task = NoTask /\ spent.user >= 1
         /\ pick \in Selections /\ pick = Was.picks[trae.task]
<1> DEFINE task == trae.task
           pick == Effective(trae, task)
<1>0. Typed /\ PlanOK /\ Forward
  BY DEF IInv, Core
<1>1. InSwitch /\ op.phase \in Working /\ op \in SwitchOps
  BY <1>0, OpIs DEF Working
<1>2. trae \in States /\ task \in Tasks /\ pick \in Selections
  BY <1>0, StateFields, EffectiveTyped DEF Typed
<1>3. op.cp \in Cps
  BY <1>1, SwitchFields
<1>4. WithTask(op.cp.tasks, task, pick) \in UNION {[S -> Selections] : S \in SUBSET Tasks}
  BY <1>2, <1>3, CpFields, WithTaskTyped
<1> HIDE DEF pick
<1>5. /\ cp \in Cps /\ cp.owned = op.cp.owned /\ cp.base = op.cp.base /\ cp.task = op.cp.task /\ cp.pick = op.cp.pick
      /\ cp.active = op.cp.active /\ cp.pending = op.cp.pending
  <2> DEFINE tasks == WithTask(op.cp.tasks, task, pick)
  <2>1. cp = [op.cp EXCEPT !.tasks = tasks]
    BY DEF pick
  <2> HIDE DEF tasks
  <2> QED BY <1>3, <1>4, <2>1 DEF Cps, tasks
<1>6. Was.task = NoTask /\ NoTask \notin Tasks /\ task # NoTask /\ spent.user >= 1
  BY <1>0, <1>1, <1>2 DEF PlanOK, Forward, Assumptions
<1>7. \A l \in Labels : trae.chosen[l] = Name
  BY <1>0, <1>1, AimsMet
<1>8. pick = Was.picks[task]
  <2>1. trae.picks[task] # Unset /\ pick = trae.picks[task]
    BY <1>6, <1>7, ExtrasAre DEF Effective, pick
  <2> QED BY <1>0, <1>1, <1>2, <1>6, <2>1 DEF PlanOK
<1> QED BY <1>2, <1>5, <1>6, <1>8 DEF pick

LEMMA TaskPlanned ==
  ASSUME Assumptions, IInv, op.phase \in {"apply", "review"}, op.todo = <<>>, UNCHANGED <<trae, past, native>>,
         trae.task # NoTask, op.task = NoTask, Effective(trae, trae.task) # Name,
         NEW cp, cp = [op.cp EXCEPT !.tasks = WithTask(op.cp.tasks, trae.task, Effective(trae, trae.task))],
         op'.plan = op.plan, op'.base = op.base, op'.cp = cp, op'.task = trae.task, op'.pick = Effective(trae, trae.task),
         spent'.user = spent.user
  PROVE  PlanOK'
<1> DEFINE task == trae.task
           pick == Effective(trae, task)
<1>0. Typed /\ PlanOK
  BY DEF IInv, Core
<1>1. InSwitch /\ op.phase \in Working
  BY <1>0, OpIs DEF Working
<1>2. /\ cp.owned = op.cp.owned /\ task \in Tasks /\ NoTask \notin Tasks /\ Was.task = NoTask /\ spent.user >= 1
      /\ pick \in Selections /\ pick = Was.picks[task]
  BY TaskSeen
<1> HIDE DEF pick
<1>3. op'.plan = op.plan /\ op'.base = op.base /\ op'.cp = cp /\ op'.task = task /\ op'.pick = pick
  BY DEF pick
<1>4. Name' = Name /\ Was' = Was
  BY <1>3 DEF Name, Was
<1>5. /\ OneRowAModel(Was.rows) /\ \A l \in Labels : Was.chosen[l] \in Exists(Was.rows)
      /\ op.plan.replaced \subseteq past' /\ (op.plan.replaced = {} \/ \E r \in Rows : op.plan.replaced = {r} /\ r.name = Name)
  BY <1>0, <1>1 DEF PlanOK
<1>6. op.plan.created =>
     /\ ~op.plan.borrowed /\ op.plan.row \in cp.owned
     /\ op.plan.replaced # {} => Name \in DOMAIN Was.rows
     /\ op.plan.replaced = {} => \A n \in DOMAIN Was.rows : n[1] # Name[1]
  BY <1>0, <1>1, <1>2 DEF PlanOK
<1>7. /\ ~op.plan.created => Name \in DOMAIN Was.rows /\ op.plan.replaced = {}
      /\ Name[1] = op.base
      /\ native' # None => \A n \in DOMAIN native'.rows : n \in DOMAIN Was.rows
      /\ \A n \in Names : (n = Name /\ op.plan.created) \/ (n \in DOMAIN trae'.rows <=> n \in DOMAIN Was.rows)
  BY <1>0, <1>1 DEF PlanOK
<1>8. \A t \in Tasks : t \in {task, Was.task} \/ trae'.picks[t] = Was.picks[t]
  BY <1>0, <1>1, <1>2 DEF PlanOK
<1>9. /\ task # NoTask => pick \in Selections
      /\ task # NoTask /\ task = Was.task => pick \in Exists(Was.rows)
      /\ task # Was.task => Was.task = NoTask /\ spent'.user >= 1
      /\ task # Was.task => pick = Was.picks[task]
  BY <1>2
<1> HIDE DEF task
<1> QED BY <1>3, <1>4, <1>5, <1>6, <1>7, <1>8, <1>9 DEF PlanOK

\* Its baseline is saved and it is switched too.
LEMMA TaskJoins ==
  ASSUME Assumptions, IInv, op.phase \in {"apply", "review"}, op.todo = <<>>, UNCHANGED <<trae, binding, key, native>>,
         trae.task # NoTask, op.task = NoTask, Effective(trae, trae.task) # Name,
         NEW cp, cp = [op.cp EXCEPT !.tasks = WithTask(op.cp.tasks, trae.task, Effective(trae, trae.task))],
         op' = [op EXCEPT !.phase = "review", !.cp = cp, !.task = trae.task,
                          !.pick = Effective(trae, trae.task), !.todo = <<Select(Primary, Name, trae.task)>>],
         Saves(cp)
  PROVE  Core'
<1> DEFINE task == trae.task
           pick == Effective(trae, task)
           todo == <<Select(Primary, Name, task)>>
<1>0. Typed /\ Held /\ Found /\ PlanOK /\ Forward /\ Accounted /\ WasActive
  BY DEF IInv, Core
<1>1. InSwitch /\ op.phase \in Working /\ op \in SwitchOps
  BY <1>0, OpIs DEF Working
<1>2. trae \in States /\ task \in Tasks /\ pick \in Selections /\ spent \in Spents
  BY <1>0, StateFields, EffectiveTyped DEF Typed
<1>3. op.cp \in Cps /\ Name \in Names /\ op.plan.row.name = Name
  BY <1>1, SwitchFields DEF Name
<1>5. /\ cp \in Cps /\ cp.owned = op.cp.owned /\ cp.base = op.cp.base /\ cp.task = op.cp.task /\ cp.pick = op.cp.pick
      /\ cp.active = op.cp.active /\ cp.pending = op.cp.pending
  BY TaskSeen
<1> HIDE DEF pick
<1>6. Select(Primary, Name, task) \in Commands
  BY <1>2, <1>3, SelectIs, ExtrasAre DEF Selections
<1> DEFINE c == Select(Primary, Name, task)
<1>7. c.do = "select" /\ c.label = Primary /\ c.to = Name /\ c.pick = Name /\ c.task = task /\ Selecting(c) /\ c \in Commands
  BY <1>6 DEF Select, Selecting
<1>8. c \in AppliesOf(op.plan, task)
  BY <1>3, <1>7 DEF AppliesOf
<1>9. todo = <<c>>
  OBVIOUS
<1> HIDE DEF c
<1>10. todo \in Seq(Commands) /\ todo \in Seq(AppliesOf(op.plan, task)) /\ DOMAIN todo = {1} /\ todo[1] = c
  BY <1>7, <1>8, <1>9
<1> HIDE DEF todo
<1>11. op' = [op EXCEPT !.phase = "review", !.cp = cp, !.task = task, !.pick = pick, !.todo = todo]
  BY DEF todo, pick
<1>12. op' \in SwitchOps
  BY <1>1, <1>2, <1>5, <1>10, <1>11 DEF SwitchOps, SwitchPhases, Working
<1>13. /\ op'.phase = "review" /\ op'.todo = todo /\ op'.call = "switch" /\ op'.cp = cp /\ op'.old = op.old
       /\ op'.plan = op.plan /\ op'.base = op.base /\ op'.task = task /\ op'.pick = pick /\ op'.bad = op.bad
       /\ op'.tried = op.tried
  BY <1>1, <1>11 DEF SwitchOps
<1>14. Name' = Name /\ Was' = Was
  BY <1>13 DEF Name, Was
<1>15. saved = op.cp /\ saved # None /\ Fits(op.cp) /\ op.cp.pending
  BY <1>0, <1>1, OpIs DEF Held, Forward
<1>16. saved' = cp /\ past' = past /\ spent' = spent /\ cp # None
  <2>1. cp # None
    BY <1>5 DEF Assumptions
  <2>2. cp.owned \subseteq past
    BY <1>5, <1>15 DEF Fits
  <2> QED BY <2>1, <2>2 DEF Saves, Stored
<1>17. Typed'
  BY <1>0, <1>5, <1>12, <1>16 DEF Typed
<1>18. Found'
  BY <1>0, <1>16, FoundSame
<1>19. Held'
  <2>1. op' # Idle
    BY <1>13 DEF Idle
  <2> QED BY <1>0, <1>1, <1>5, <1>13, <1>15, <1>16, <2>1, HeldSaved DEF Fits, InSwitch
<1>20. SpentGrows
  BY <1>2, <1>16, UnspentGrows
<1>21. Accounted'
  BY <1>0, <1>5, <1>15, <1>16, <1>20, AccountedKept
<1>22. Healthy' /\ Active' /\ Backward' /\ Undone' /\ Returning'
  BY <1>5, <1>13, <1>15, <1>16 DEF Healthy, Active, Backward, Undone, Returning, InRestore
<1>23. WasActive'
  BY <1>0, <1>1, <1>13, <1>20, WasActiveKept
<1>25. /\ \A l \in Labels : trae.chosen[l] = Name
       /\ Name \in DOMAIN trae.rows
       /\ \A cell \in AimsOf(Name, op.task) : Shown(trae, cell) = Shown(Switched(Name), cell)
  BY <1>0, <1>1, AimsMet
<1>27. PlanOK'
  BY <1>13, <1>16, TaskPlanned DEF pick
<1>28. Becomes(AimsOf(Name, task), trae, todo, Switched(Name))
  <2> SUFFICES ASSUME NEW cell \in AimsOf(Name, task) PROVE WillBe(trae, todo, cell, Shown(Switched(Name), cell))
    BY DEF Becomes
  <2>1. /\ cell \in Cells
        /\ Shown(Switched(Name), cell) = IF cell[1] = "row" THEN "there" ELSE Name
        /\ cell[1] = "row" => cell[2] = Name
        /\ cell[1] = "task" => cell[2] = task /\ task \in Tasks
        /\ cell[1] = "label" => cell[2] \in Labels
        /\ cell[1] \in {"row", "task", "label"}
    BY <1>3, SwitchedShows
  <2>2. /\ Writes(c, cell) <=> (cell[1] = "label" /\ cell[2] = Primary) \/ (cell[1] = "task" /\ cell[2] = task)
        /\ Written(c, cell) = IF cell[1] = "label" THEN Name ELSE IF cell[1] = "task" THEN Name ELSE "gone"
    BY <1>7, <2>1, SelectWrites
  <2>3. cell[1] # "task" => cell \in AimsOf(Name, op.task)
    BY <2>1 DEF AimsOf, TaskCells
  <2>4. Shown(trae, cell) = Shown(Switched(Name), cell) \/ \E j \in DOMAIN todo : Writes(todo[j], cell)
    BY <1>10, <1>25, <2>1, <2>2, <2>3
  <2>5. \A j \in DOMAIN todo : Writes(todo[j], cell) => Written(todo[j], cell) = Shown(Switched(Name), cell)
    BY <1>10, <2>1, <2>2
  <2> QED BY <1>10, <2>4, <2>5, WillBeAll
<1>29. Forward'
  <2>1. TriedOK /\ op.bad = {} /\ op.cp.active = op.old.active
        /\ ("add" \in op.tried /\ op.plan.replaced # {} => "delete" \in op.tried)
    BY <1>0, <1>1 DEF Forward
  <2>2. op.plan.replaced # {} => "delete" \in op.tried
    BY <1>0, <1>1 DEF Forward
  <2>3. TriedOK'
    BY <1>13, <1>14, <2>1 DEF TriedOK
  <2>4. Ordered(todo) /\ \A i \in DOMAIN todo : todo[i].do # "add"
    BY <1>7, <1>10 DEF Ordered
  <2>5. /\ todo \in Seq(AppliesOf(op'.plan, op'.task)) /\ Ordered(op'.todo)
        /\ Becomes(AimsOf(Name, op'.task), trae', op'.todo, Switched(Name))
    BY <1>10, <1>13, <1>28, <2>4
  <2>6. op'.cp.pending /\ op'.cp.active = op'.old.active /\ op'.bad = {} /\ trae'.task = op'.task
    BY <1>5, <1>13, <1>15, <2>1
  <2>7. /\ "add" \in op'.tried /\ op'.plan.replaced # {} => "delete" \in op'.tried
        /\ op'.plan.replaced # {} => "delete" \in op'.tried
    BY <1>13, <2>2
  <2>8. \A i \in DOMAIN op'.todo : op'.todo[i].do # "add"
    BY <1>13, <2>4
  <2> QED BY <1>13, <1>14, <2>3, <2>5, <2>6, <2>7, <2>8 DEF Forward
<1> QED BY <1>17, <1>18, <1>19, <1>21, <1>22, <1>23, <1>27, <1>29 DEF IInv, Core

\* Its baseline is not saved: it is put back with the rest.
LEMMA TaskPutBack ==
  ASSUME Assumptions, IInv, op.phase \in {"apply", "review"}, op.todo = <<>>, UNCHANGED <<trae, binding, key, native>>,
         trae.task # NoTask, op.task = NoTask, Effective(trae, trae.task) # Name,
         NEW cp, cp = [op.cp EXCEPT !.tasks = WithTask(op.cp.tasks, trae.task, Effective(trae, trae.task))],
         op' = [op EXCEPT !.phase = "undo", !.cp = cp, !.task = trae.task, !.pick = Effective(trae, trae.task),
                          !.todo = Compensation(op.tried, trae.task, Effective(trae, trae.task))],
         SaveFails
  PROVE  Core'
<1> DEFINE task == trae.task
           pick == Effective(trae, task)
           s == Compensation(op.tried, task, pick)
<1>0. Typed /\ Held /\ Found /\ PlanOK /\ Forward /\ Accounted /\ WasActive
  BY DEF IInv, Core
<1>1. InSwitch /\ op.phase \in Working /\ op \in SwitchOps
  BY <1>0, OpIs DEF Working
<1>2. trae \in States /\ trae' \in States /\ spent \in Spents /\ op.tried \in SUBSET {"delete", "add", "added"}
  BY <1>0, <1>1, SwitchFields DEF Typed
<1>3. /\ cp \in Cps /\ cp.owned = op.cp.owned /\ cp.base = op.cp.base /\ cp.task = op.cp.task /\ cp.pick = op.cp.pick
      /\ cp.active = op.cp.active /\ cp.pending = op.cp.pending
      /\ task \in Tasks /\ NoTask \notin Tasks /\ Was.task = NoTask /\ spent.user >= 1
      /\ pick \in Selections /\ pick = Was.picks[task]
  BY TaskSeen
<1> HIDE DEF pick
<1>4. /\ SpentGrows /\ Mishaps' = Mishaps + 1 /\ spent'.fault = spent.fault + 1 /\ saved' = saved /\ past' = past
      /\ spent'.user = spent.user
  <2>1. spent' = [spent EXCEPT !.fault = @ + 1]
    BY DEF SaveFails, Fault, Spend
  <2> QED BY <1>2, <2>1, FaultGrows DEF SaveFails, Spents
<1>5. Mishaps = spent.fault + spent.user /\ spent.fault \in Nat /\ spent.user \in Nat
  BY <1>2, SpentIs DEF Mishaps
<1>6. Mishaps' >= 2 /\ Mishaps' >= 1
  BY <1>3, <1>4, <1>5
<1>7. TriedOK /\ ("add" \in op.tried /\ op.plan.replaced # {} => "delete" \in op.tried)
  BY <1>0, <1>1 DEF Forward
<1>8. Undoable(trae', op.tried, op.task, op.pick)
  BY <1>0, <1>1, <1>2, <1>7, UndoableIs DEF TriedOK
<1>9. Undoable(trae', op.tried, task, pick)
  <2>1. op.task = Was.task
    BY <1>3
  <2>2. \A t \in Tasks : t \in {task, Was.task} \/ trae'.picks[t] = Was.picks[t]
    BY <1>8, <2>1 DEF Undoable
  <2> HIDE DEF task
  <2> QED BY <1>3, <1>8, <2>2 DEF Undoable
<1>10. /\ s \in Seq(UndoesOf(op.plan, task, pick)) /\ Ordered(s) /\ Covered(s)
       /\ Becomes(Cells, trae', s, Was)
  BY <1>9, CompensationIs
<1>11. s \in Seq(Commands)
  BY <1>10 DEF UndoesOf
<1>12. op' = [op EXCEPT !.phase = "undo", !.cp = cp, !.task = task, !.pick = pick, !.todo = s]
  BY DEF pick
<1> HIDE DEF s
<1>13. op' \in SwitchOps
  BY <1>1, <1>3, <1>11, <1>12 DEF SwitchOps, SwitchPhases
<1>14. /\ op'.phase = "undo" /\ op'.todo = s /\ op'.call = "switch" /\ op'.cp = cp /\ op'.old = op.old
       /\ op'.plan = op.plan /\ op'.base = op.base /\ op'.task = task /\ op'.pick = pick /\ op'.bad = op.bad
  BY <1>1, <1>12 DEF SwitchOps
<1>15. Name' = Name /\ Was' = Was
  BY <1>14 DEF Name, Was
<1>16. PlanOK'
  BY <1>4, <1>14, TaskPlanned DEF pick
<1>17. saved = op.cp /\ saved # None /\ Fits(op.cp) /\ op.cp.pending
  BY <1>0, <1>1, OpIs DEF Held, Forward, Working
<1>18. Held'
  <2>1. op' # Idle
    BY <1>14 DEF Idle
  <2>2. Fits(op.cp)' /\ Fits(op.old)' /\ Fits(saved)'
    BY <1>0, <1>1, <1>3, <1>4, <1>14, <1>17 DEF Held, Fits
  <2> QED BY <1>3, <1>4, <1>14, <1>17, <2>1, <2>2 DEF Held, Fits, InSwitch, InRestore
<1>19. WasActive'
  BY <1>0, <1>1, <1>4, <1>14, WasActiveKept
<1>20. Typed'
  BY <1>0, <1>4, <1>13 DEF Typed, SpentGrows
<1>21. Found'
  BY <1>0, <1>4, FoundSame DEF SpentGrows
<1>22. Accounted'
  BY <1>0, <1>4, <1>17, AccountedKept
<1>23. Forward' /\ Undone' /\ Returning' /\ Healthy' /\ Active'
  BY <1>4, <1>14, <1>17 DEF Forward, Undone, Returning, Working, InRestore, Healthy, Active
<1>24. Backward'
  <2>1. op.bad = {} /\ op.cp.active = op.old.active
    BY <1>0, <1>1, <1>17 DEF Forward, Working
  <2>2. Becomes(RowCells, trae', s, Was) /\ Becomes(LabelCells \cup RowCells, trae', s, Was)
    BY <1>10, BecomesPart DEF Cells
  <2>3. /\ op'.todo \in Seq(UndoesOf(op'.plan, op'.task, op'.pick)) /\ Ordered(op'.todo) /\ Covered(op'.todo)
        /\ Becomes(Cells, trae', op'.todo, Was') /\ Becomes(RowCells, trae', op'.todo, Was')
        /\ op'.bad = {}
    BY <1>10, <1>14, <1>15, <2>1, <2>2
  <2>6. cp.pending /\ cp.active = op.old.active
    BY <1>3, <1>17, <2>1
  <2>4. op'.cp.pending /\ op'.cp.active = op'.old.active
    BY <1>14, <2>6, Zenon
  <2>5. op'.call = "switch" /\ op'.phase = "undo"
    BY <1>14
  <2> HIDE DEF task
  <2> QED BY <1>6, <2>3, <2>4, <2>5 DEF Backward, InSwitch
<1> QED BY <1>16, <1>18, <1>19, <1>20, <1>21, <1>22, <1>23, <1>24 DEF IInv, Core

LEMMA ReviewedKeeps ==
  ASSUME Assumptions, IInv, Reviewed
  PROVE  Core'
<1>0. Typed /\ Held /\ Found /\ PlanOK /\ Forward /\ Backward /\ Undone /\ Returning /\ Accounted /\ Healthy /\ Active /\ WasActive
  BY DEF IInv, Core
<1>1. op.phase \in {"apply", "review"} /\ op.todo = <<>> /\ UNCHANGED <<trae, binding, key, native>>
  BY DEF Reviewed
<1>2. InSwitch /\ op.phase \in Working /\ op \in SwitchOps
  BY <1>0, <1>1, OpIs DEF Working
<1>3. trae \in States /\ spent \in Spents
  BY <1>0 DEF Typed
<1>4. /\ saved = op.cp /\ saved # None /\ op.cp.pending
      /\ trae.task # op.task => spent.user >= 1
      /\ trae.task # op.task /\ op.task # Was.task => spent.user >= 2
      /\ op.task # Was.task => spent.user >= 1
  BY <1>0, <1>1, <1>2, OpIs DEF Held, Forward, PlanOK
<1>5. Mishaps = spent.fault + spent.user /\ spent.fault \in Nat /\ spent.user \in Nat
  BY <1>3, SpentIs DEF Mishaps
<1>6. CASE op' = [op EXCEPT !.phase = "verify"] /\ UNCHANGED <<saved, past, spent>>
  <2>1. op' \in SwitchOps
    BY <1>2, <1>6 DEF SwitchOps, SwitchPhases, Working
  <2>2. /\ op'.phase = "verify" /\ op'.todo = op.todo /\ op'.call = "switch" /\ op'.cp = op.cp /\ op'.old = op.old
        /\ op'.plan = op.plan /\ op'.base = op.base /\ op'.task = op.task /\ op'.pick = op.pick /\ op'.bad = op.bad
        /\ op'.tried = op.tried
    BY <1>2, <1>6 DEF SwitchOps
  <2>3. SpentGrows
    BY <1>3, <1>6, UnspentGrows
  <2>4. Typed'
    BY <1>0, <1>1, <1>6, <2>1 DEF Typed
  <2>5. Held'
    <3>1. op # Idle /\ op.call = "switch" /\ op.phase \notin {"failed", "restored"}
      BY <1>0, <1>1, <1>2, OpIs DEF InSwitch
    <3> QED BY <1>0, <1>1, <1>6, <2>2, <3>1, HeldSame
  <2>6. Found'
    BY <1>0, <1>1, <1>6, FoundSame
  <2>7. PlanOK'
    BY <1>0, <1>1, <1>2, <1>6, <2>2, <2>3, PlanKept
  <2>8. WasActive'
    BY <1>0, <1>2, <2>2, <2>3, WasActiveKept
  <2>9. Accounted'
    BY <1>0, <1>1, <1>4, <1>6, <2>3, AccountedKept
  <2>10. Healthy' /\ Active' /\ Backward' /\ Undone' /\ Returning'
    BY <1>4, <1>6, <2>2 DEF Healthy, Active, Backward, Undone, Returning, InRestore
  <2>11. Forward'
    <3>1. Name' = Name /\ Was' = Was
      BY <2>2 DEF Name, Was
    <3>2. TriedOK'
      BY <1>0, <1>1, <1>2, <2>2, <3>1 DEF Forward, TriedOK
    <3>3. /\ op.todo \in Seq(AppliesOf(op.plan, op.task)) /\ Ordered(op.todo)
          /\ Becomes(AimsOf(Name, op.task), trae, op.todo, Switched(Name))
          /\ "add" \in op.tried /\ op.plan.replaced # {} => "delete" \in op.tried
          /\ op.plan.replaced # {} => "delete" \in op.tried \/ \E i \in DOMAIN op.todo : op.todo[i].do = "delete"
          /\ (\E i \in DOMAIN op.todo : op.todo[i].do = "add") /\ (\A i \in DOMAIN op.todo : op.todo[i].do # "delete") =>
               Name \notin DOMAIN trae.rows
          /\ op.cp.active = op.old.active /\ op.bad = {}
      BY <1>0, <1>1, <1>2 DEF Forward
    <3> QED BY <1>1, <1>4, <1>6, <2>2, <3>1, <3>2, <3>3 DEF Forward
  <2> QED BY <2>4, <2>5, <2>6, <2>7, <2>8, <2>9, <2>10, <2>11 DEF IInv, Core
<1>7. CASE /\ trae.task # NoTask /\ op.task = NoTask /\ Effective(trae, trae.task) # Name
           /\ LET cp == [op.cp EXCEPT !.tasks = WithTask(@, trae.task, Effective(trae, trae.task))] IN
              /\ op' = [op EXCEPT !.phase = "review", !.cp = cp, !.task = trae.task,
                                  !.pick = Effective(trae, trae.task), !.todo = <<Select(Primary, Name, trae.task)>>]
              /\ Saves(cp)
  BY <1>1, <1>7, TaskJoins
<1>11. CASE /\ trae.task # NoTask /\ op.task = NoTask /\ Effective(trae, trae.task) # Name
            /\ LET pick == Effective(trae, trae.task)
                   cp == [op.cp EXCEPT !.tasks = WithTask(@, trae.task, pick)] IN
               /\ op' = [op EXCEPT !.phase = "undo", !.cp = cp, !.task = trae.task, !.pick = pick,
                                   !.todo = Compensation(op.tried, trae.task, pick)]
               /\ SaveFails
  BY <1>1, <1>11, TaskPutBack
<1>8. CASE trae.task # NoTask /\ op.task \notin {NoTask, trae.task} /\ RollsBack(op.tried) /\ UNCHANGED <<saved, past, spent>>
  <2>1. SpentGrows /\ Mishaps' = Mishaps
    BY <1>3, <1>8, UnspentGrows
  <2>2. Mishaps' >= 1 /\ (op.task # Was.task => Mishaps' >= 2)
    BY <1>4, <1>5, <1>8, <2>1
  <2> QED BY <1>1, <1>2, <1>4, <1>8, <2>1, <2>2, RollbackHere
<1>9. CASE RollsBack(op.tried) /\ SaveFails
  <2>1. /\ SpentGrows /\ Mishaps' = Mishaps + 1 /\ UNCHANGED <<saved, past>>
    BY <1>3, <1>9, FaultGrows DEF SaveFails
  <2>2. Mishaps' >= 1 /\ (op.task # Was.task => Mishaps' >= 2)
    BY <1>4, <1>5, <2>1
  <2> QED BY <1>1, <1>2, <1>4, <1>9, <2>1, <2>2, RollbackHere
<1>10. \/ op' = [op EXCEPT !.phase = "verify"] /\ UNCHANGED <<saved, past, spent>>
       \/ /\ trae.task # NoTask /\ op.task = NoTask /\ Effective(trae, trae.task) # Name
          /\ LET cp == [op.cp EXCEPT !.tasks = WithTask(@, trae.task, Effective(trae, trae.task))] IN
             /\ op' = [op EXCEPT !.phase = "review", !.cp = cp, !.task = trae.task,
                                 !.pick = Effective(trae, trae.task), !.todo = <<Select(Primary, Name, trae.task)>>]
             /\ Saves(cp)
       \/ /\ trae.task # NoTask /\ op.task = NoTask /\ Effective(trae, trae.task) # Name
          /\ LET pick == Effective(trae, trae.task)
                 cp == [op.cp EXCEPT !.tasks = WithTask(@, trae.task, pick)] IN
             /\ op' = [op EXCEPT !.phase = "undo", !.cp = cp, !.task = trae.task, !.pick = pick,
                                 !.todo = Compensation(op.tried, trae.task, pick)]
             /\ SaveFails
       \/ trae.task # NoTask /\ op.task \notin {NoTask, trae.task} /\ RollsBack(op.tried) /\ UNCHANGED <<saved, past, spent>>
       \/ RollsBack(op.tried) /\ SaveFails
  BY DEF Reviewed, Name
<1> QED BY <1>6, <1>7, <1>8, <1>9, <1>10, <1>11

LEMMA ActivatedKeeps ==
  ASSUME Assumptions, IInv, Activated
  PROVE  Core'
<1>0. Typed /\ Held /\ Found /\ PlanOK /\ Forward /\ Backward /\ Undone /\ Returning /\ Accounted /\ Healthy /\ Active /\ WasActive
  BY DEF IInv, Core
<1>1. op.phase = "verify" /\ UNCHANGED <<trae, binding, key, native>>
  BY DEF Activated, Reached
<1>2. InSwitch /\ op.phase \in Working /\ op \in SwitchOps
  BY <1>0, <1>1, OpIs DEF Working
<1>3. trae \in States /\ spent \in Spents
  BY <1>0 DEF Typed
<1>4. /\ saved = op.cp /\ saved # None /\ op.cp.pending /\ op.todo = <<>> /\ Fits(op.cp)
      /\ op.task # Was.task => spent.user >= 1
  BY <1>0, <1>1, <1>2, OpIs DEF Held, Forward, PlanOK
<1>5. Mishaps = spent.fault + spent.user /\ spent.fault \in Nat /\ spent.user \in Nat
  BY <1>3, SpentIs DEF Mishaps
<1>6. /\ \A l \in Labels : trae.chosen[l] = Name
      /\ op.task \in Tasks => trae.picks[op.task] = Name
      /\ Name \in DOMAIN trae.rows
      /\ \A cell \in AimsOf(Name, op.task) : Shown(trae, cell) = Shown(Switched(Name), cell)
  BY <1>0, <1>2, <1>4, AimsMet
<1>7. Persisted
  BY <1>2, <1>6, SwitchFields DEF Persisted, Name
<1>8. CASE op' = [op EXCEPT !.phase = "commit", !.cp = Finished(op.cp)] /\ Saves(Finished(op.cp))
  <2> DEFINE cp == Finished(op.cp)
  <2>1. op.cp \in Cps /\ Name \in Names /\ Name # None /\ cp = [op.cp EXCEPT !.active = Name, !.pending = FALSE]
    BY <1>2, SwitchFields DEF Finished, Name, Assumptions
  <2> HIDE DEF cp
  <2>2. /\ cp \in Cps /\ cp.owned = op.cp.owned /\ cp.base = op.cp.base /\ cp.task = op.cp.task /\ cp.pick = op.cp.pick
        /\ cp.active = Name /\ cp.pending = FALSE
    BY <2>1 DEF Cps
  <2>3. op' = [op EXCEPT !.phase = "commit", !.cp = cp]
    BY <1>8 DEF cp
  <2>4. op' \in SwitchOps
    BY <1>2, <2>2, <2>3 DEF SwitchOps, SwitchPhases, Working
  <2>5. /\ op'.phase = "commit" /\ op'.todo = op.todo /\ op'.call = "switch" /\ op'.cp = cp /\ op'.old = op.old
        /\ op'.plan = op.plan /\ op'.base = op.base /\ op'.task = op.task /\ op'.pick = op.pick /\ op'.bad = op.bad
        /\ op'.tried = op.tried
    BY <1>2, <2>3 DEF SwitchOps
  <2>6. saved' = cp /\ past' = past /\ spent' = spent /\ cp # None
    <3>1. cp # None
      BY <2>2 DEF Assumptions
    <3>2. cp.owned \subseteq past
      BY <1>4, <2>2 DEF Fits
    <3> QED BY <1>8, <3>1, <3>2 DEF Saves, Stored, cp
  <2>7. SpentGrows
    BY <1>3, <2>6, UnspentGrows
  <2>8. Typed'
    BY <1>0, <1>1, <2>2, <2>4, <2>6 DEF Typed
  <2>9. Held'
    <3>1. op' # Idle
      BY <2>5 DEF Idle
    <3> QED BY <1>0, <1>1, <1>2, <1>4, <2>2, <2>5, <2>6, <3>1, HeldSaved DEF Fits, InSwitch
  <2>10. Found'
    BY <1>0, <1>1, <2>6, FoundSame
  <2>11. PlanOK'
    BY <1>0, <1>1, <1>2, <2>2, <2>5, <2>6, <2>7, PlanKept
  <2>12. WasActive'
    BY <1>0, <1>2, <2>5, <2>7, WasActiveKept
  <2>13. Accounted'
    BY <1>0, <1>1, <1>4, <2>2, <2>6, <2>7, AccountedKept
  <2>14. Healthy'
    BY <1>1, <1>6, <2>6 DEF Healthy, Exists
  <2>15. Active'
    <3>1. AloneIn(trae.rows, Name)
      BY <1>0, <1>6 DEF AloneIn, Found, OneRowAModel
    <3> QED BY <1>1, <1>6, <2>2, <2>6, <3>1 DEF Active
  <2>16. Backward' /\ Undone' /\ Returning'
    BY <2>5 DEF Backward, Undone, Returning, InRestore
  <2>17. Forward'
    <3>1. Name' = Name /\ Was' = Was
      BY <2>5 DEF Name, Was
    <3>2. TriedOK'
      BY <1>0, <1>1, <1>2, <2>5, <3>1 DEF Forward, TriedOK
    <3>3. /\ op.todo \in Seq(AppliesOf(op.plan, op.task)) /\ Ordered(op.todo)
          /\ Becomes(AimsOf(Name, op.task), trae, op.todo, Switched(Name))
          /\ "add" \in op.tried /\ op.plan.replaced # {} => "delete" \in op.tried
          /\ op.plan.replaced # {} => "delete" \in op.tried \/ \E i \in DOMAIN op.todo : op.todo[i].do = "delete"
          /\ (\E i \in DOMAIN op.todo : op.todo[i].do = "add") /\ (\A i \in DOMAIN op.todo : op.todo[i].do # "delete") =>
               Name \notin DOMAIN trae.rows
          /\ op.bad = {}
          /\ trae.task # op.task => spent.user >= 1
          /\ trae.task # op.task /\ op.task # Was.task => spent.user >= 2
      BY <1>0, <1>1, <1>2 DEF Forward
    <3> QED BY <1>1, <1>4, <2>2, <2>5, <2>6, <3>1, <3>2, <3>3 DEF Forward
  <2> QED BY <2>8, <2>9, <2>10, <2>11, <2>12, <2>13, <2>14, <2>15, <2>16, <2>17 DEF IInv, Core
<1>9. CASE RollsBack(op.tried) /\ SaveFails
  <2>1. /\ SpentGrows /\ Mishaps' = Mishaps + 1 /\ UNCHANGED <<saved, past>>
    BY <1>3, <1>9, FaultGrows DEF SaveFails
  <2>2. Mishaps' >= 1 /\ (op.task # Was.task => Mishaps' >= 2)
    BY <1>4, <1>5, <2>1
  <2> QED BY <1>1, <1>2, <1>4, <1>9, <2>1, <2>2, RollbackHere
<1> QED BY <1>7, <1>8, <1>9 DEF Activated

LEMMA CommittedKeeps ==
  ASSUME Assumptions, IInv, Committed
  PROVE  Core'
<1>0. Typed /\ Held /\ Found /\ PlanOK /\ Forward /\ Backward /\ Undone /\ Returning /\ Accounted /\ Healthy /\ Active /\ WasActive
  BY DEF IInv, Core
<1>1. op.phase = "commit" /\ UNCHANGED <<trae, saved, past, key, native>>
  BY DEF Committed, Reached
<1>2. InSwitch /\ op.phase \in Working /\ op \in SwitchOps
  BY <1>0, <1>1, OpIs DEF Working
<1>3. trae \in States /\ spent \in Spents
  BY <1>0 DEF Typed
<1>4. saved = op.cp /\ saved # None /\ (op.task # Was.task => spent.user >= 1)
  BY <1>0, <1>1, <1>2, OpIs DEF Held, PlanOK
<1>5. Mishaps = spent.fault + spent.user /\ spent.fault \in Nat /\ spent.user \in Nat
  BY <1>3, SpentIs DEF Mishaps
<1>6. CASE binding' = op.base /\ op' = [op EXCEPT !.phase = "handover"] /\ UNCHANGED spent
  <2>1. op' \in SwitchOps
    BY <1>2, <1>6 DEF SwitchOps, SwitchPhases, Working
  <2>2. /\ op'.phase = "handover" /\ op'.call = op.call /\ op'.call = "switch" /\ op'.cp = op.cp /\ op'.old = op.old
    BY <1>2, <1>6, SwitchFields DEF SwitchOps
  <2>3. SpentGrows
    BY <1>3, <1>6, UnspentGrows
  <2>4. Typed'
    BY <1>0, <1>1, <1>2, <1>6, <2>1, SwitchFields DEF Typed
  <2>5. Held'
    <3>1. op # Idle /\ op.phase \notin {"failed", "restored"}
      BY <1>0, <1>1, <1>2, OpIs
    <3> QED BY <1>0, <1>1, <2>2, <3>1, HeldSame
  <2>6. Found'
    BY <1>0, <1>1, <1>6, FoundSame
  <2>7. PlanOK' /\ Forward' /\ Backward' /\ Undone' /\ WasActive'
    BY <2>2, Over
  <2>8. Returning'
    BY <2>2 DEF Returning, InRestore
  <2>9. Accounted'
    BY <1>0, <1>1, <1>4, <2>3, AccountedKept
  <2>10. Healthy'
    BY <1>0, <1>1, <2>3, HealthySame
  <2>11. Active'
    BY <1>0, <1>1, <1>4, <2>3, ActiveSame
  <2> QED BY <2>4, <2>5, <2>6, <2>7, <2>8, <2>9, <2>10, <2>11 DEF IInv, Core
<1>7. CASE RollsBack(op.tried) /\ Fault /\ UNCHANGED binding
  <2>1. SpentGrows /\ Mishaps' = Mishaps + 1 /\ spent'.fault = spent.fault + 1
    BY <1>3, <1>7, FaultGrows
  <2>2. Mishaps' >= 1 /\ (op.task # Was.task => Mishaps' >= 2) /\ spent'.fault >= 1
    BY <1>4, <1>5, <2>1
  <2> QED BY <1>1, <1>2, <1>7, <2>1, <2>2, RollbackHere
<1> QED BY <1>6, <1>7 DEF Committed

LEMMA HandedOverKeeps ==
  ASSUME Assumptions, IInv, HandedOver
  PROVE  Core'
<1>0. Typed /\ Held /\ Found /\ PlanOK /\ Forward /\ Backward /\ Undone /\ Returning /\ Accounted /\ Healthy /\ Active /\ WasActive
  BY DEF IInv, Core
<1>1. op.phase = "handover" /\ UNCHANGED <<trae, saved, past, key, native>>
  BY DEF HandedOver, Reached
<1>2. InSwitch /\ op \in SwitchOps
  BY <1>0, <1>1, OpIs
<1>3. trae \in States /\ spent \in Spents
  BY <1>0 DEF Typed
<1>4. saved = op.cp /\ saved # None
  BY <1>0, <1>1, <1>2, OpIs DEF Held
<1>5. PICK phase \in {"done", "unfinished"} : op' = [op EXCEPT !.phase = phase]
  BY DEF HandedOver
<1>6. SpentGrows /\ binding' \in Bases \cup {None} /\ spent' \in Spents
  <2>1. CASE UNCHANGED <<binding, spent>>
    BY <1>0, <1>3, <2>1, UnspentGrows DEF Typed
  <2>2. CASE binding' = op.bound /\ Fault
    BY <1>2, <1>3, <2>2, FaultGrows, SwitchFields DEF SpentGrows
  <2> QED BY <2>1, <2>2 DEF HandedOver
<1>7. op' \in SwitchOps
  BY <1>2, <1>5 DEF SwitchOps, SwitchPhases
<1>8. /\ op'.phase \in {"done", "unfinished"} /\ op'.call = op.call /\ op'.call = "switch" /\ op'.cp = op.cp /\ op'.old = op.old
  BY <1>2, <1>5, SwitchFields DEF SwitchOps
<1>9. Typed'
  BY <1>0, <1>1, <1>6, <1>7 DEF Typed
<1>10. Held'
  <2>1. op # Idle /\ op.phase \notin {"failed", "restored"}
    BY <1>0, <1>1, <1>2, OpIs
  <2> QED BY <1>0, <1>1, <1>8, <2>1, HeldSame
<1>11. Found'
  BY <1>0, <1>1, <1>6, FoundSame DEF SpentGrows
<1>12. PlanOK' /\ Forward' /\ Backward' /\ Undone' /\ WasActive'
  BY <1>8, Over
<1>13. Returning'
  BY <1>8 DEF Returning, InRestore
<1>14. Accounted'
  BY <1>0, <1>1, <1>4, <1>6, AccountedKept
<1>15. Healthy'
  BY <1>0, <1>1, <1>6, HealthySame
<1>16. Active'
  BY <1>0, <1>1, <1>4, <1>6, ActiveSame
<1> QED BY <1>9, <1>10, <1>11, <1>12, <1>13, <1>14, <1>15, <1>16 DEF IInv, Core

-----------------------------------------------------------------------------
(* A rollback *)

LEMMA UndoingIs ==
  ASSUME Undoing
  PROVE  LET c == Head(op.todo) IN
         /\ op.phase = "undo" /\ op.todo # <<>> /\ UNCHANGED <<saved, past, binding, key, native>>
         /\ \/ /\ op' = [op EXCEPT !.todo = Tail(op.todo)]
               /\ \/ c.do = "add" /\ c.row.name \in DOMAIN trae.rows /\ UNCHANGED <<trae, spent>>
                  \/ Answered(c, TRUE)
                  \/ c.do = "add" /\ Accepts(c) /\ Fault /\ trae' = After(c)
            \/ /\ op' = [op EXCEPT !.todo = Tail(op.todo), !.bad = op.bad \cup {Part(c)}]
               /\ Answered(c, FALSE) /\ ~(c.do = "add" /\ c.row.name \in DOMAIN trae.rows)
<1> DEFINE c == Head(op.todo)
<1>1. PICK ok \in BOOLEAN :
        /\ IF c.do = "add" /\ c.row.name \in DOMAIN trae.rows
             THEN ok /\ UNCHANGED <<trae, spent>>
             ELSE \/ Answered(c, ok)
                  \/ c.do = "add" /\ ok /\ Accepts(c) /\ Fault /\ trae' = After(c)
        /\ op' = [op EXCEPT !.todo = Tail(@), !.bad = IF ok THEN @ ELSE @ \cup {Part(c)}]
  BY DEF Undoing
<1>2. CASE ok = TRUE
  <2>1. op' = [op EXCEPT !.todo = Tail(op.todo), !.bad = op.bad]
    BY <1>1, <1>2
  <2>2. op' = [op EXCEPT !.todo = Tail(op.todo)]
    BY <2>1
  <2> QED BY <1>1, <1>2, <2>2 DEF Undoing, Reached
<1>3. CASE ok = FALSE
  <2>1. op' = [op EXCEPT !.todo = Tail(op.todo), !.bad = op.bad \cup {Part(c)}]
    BY <1>1, <1>3
  <2> QED BY <1>1, <1>3, <2>1 DEF Undoing, Reached
<1> QED BY <1>2, <1>3

LEMMA UndoFacts ==
  ASSUME Typed, PlanOK, Held, Found, InSwitch, op.phase = "undo", NEW c \in UndoesOf(op.plan, op.task, op.pick)
  PROVE  /\ c \in Commands
         /\ c.do = "delete" => c.name = Name /\ Name[2] # 0 /\ op.plan.created
         /\ c.do = "add" => c.row.name = Name /\ op.plan.created /\ c.row \in past
         /\ op.plan.created => Named(op.cp.owned, Name) # {}
         /\ Selecting(c) => c.task \in {NoTask, op.task, Was.task}
<1>1. c.do = "delete" => c.name = Name /\ op.plan.created
  BY DEF UndoesOf, Name
<1>2. c.do = "add" => c.row.name = Name /\ c.row = op.plan.row /\ op.plan.created
  BY DEF UndoesOf, Name
<1>3. op.plan.created => op.plan.row \in op.cp.owned /\ op.plan.row.name = Name
  BY DEF PlanOK, Name
<1>4. op.cp.owned \subseteq past
  BY DEF Held, Fits
<1>5. op.plan.created => Name[2] # 0
  BY <1>3, <1>4, HistoryNumbered
<1>6. op.plan.created => Named(op.cp.owned, Name) # {}
  BY <1>3 DEF Named
<1>7. Selecting(c) => c.task \in {NoTask, op.task, Was.task}
  BY DEF UndoesOf, Selecting, Was
<1> QED BY <1>1, <1>2, <1>3, <1>4, <1>5, <1>6, <1>7 DEF UndoesOf

\* A call of a rollback, whatever became of it.
LEMMA UndoCalled ==
  ASSUME Assumptions, Typed, Held, Found, PlanOK, Accounted, InSwitch, op.phase = "undo",
         NEW c \in UndoesOf(op.plan, op.task, op.pick), trae' \in States,
         trae' = trae \/ (Did(trae', trae, c) /\ DOMAIN trae'.rows = DOMAIN After(c).rows /\ Accepts(c)),
         SpentGrows, saved' = saved, past' = past, native' = native
  PROVE  /\ Found' /\ Accounted'
         /\ \A n \in Names : (n = Name /\ op.plan.created) \/ (n \in DOMAIN trae'.rows <=> n \in DOMAIN trae.rows)
         /\ \A t \in Tasks : t \in {op.task, Was.task} \/ trae'.picks[t] = trae.picks[t]
<1>1. /\ c \in Commands
      /\ c.do = "delete" => c.name = Name /\ Name[2] # 0 /\ op.plan.created
      /\ c.do = "add" => c.row.name = Name /\ op.plan.created /\ c.row \in past
      /\ op.plan.created => Named(op.cp.owned, Name) # {}
      /\ Selecting(c) => c.task \in {NoTask, op.task, Was.task}
  BY UndoFacts
<1>2. Found'
  <2>1. spent'.call = spent.call
    BY DEF SpentGrows
  <2> QED BY <1>1, <2>1, FoundKept
<1>4. trae \in States /\ NoTask \notin Tasks
  BY DEF Typed, Assumptions
<1>5. /\ \A n : n = Name \/ (n \in DOMAIN trae'.rows <=> n \in DOMAIN trae.rows)
      /\ Selecting(c) => DOMAIN trae'.rows = DOMAIN trae.rows
      /\ \A t \in Tasks : t \in {NoTask, op.task, Was.task} \/ trae'.picks[t] = trae.picks[t]
  <2> DEFINE T == {NoTask, op.task, Was.task}
  <2>1. Selecting(c) => c.task \in T
    BY <1>1
  <2> HIDE DEF T
  <2>2. /\ \A n : n = Name \/ (n \in DOMAIN trae'.rows <=> n \in DOMAIN trae.rows)
        /\ Selecting(c) => DOMAIN trae'.rows = DOMAIN trae.rows
        /\ \A t \in Tasks : t \in T \/ trae'.picks[t] = trae.picks[t]
    BY <1>1, <1>4, <2>1, EffectIs
  <2> QED BY <2>2 DEF T
<1>6. Selecting(c) \/ op.plan.created
  BY <1>1, CommandIs
<1>7. \A n \in Names : (n = Name /\ op.plan.created) \/ (n \in DOMAIN trae'.rows <=> n \in DOMAIN trae.rows)
  BY <1>5, <1>6
<1>8. saved.owned = op.cp.owned /\ saved # None
  BY OpIs DEF Held
<1>9. \A n \in DOMAIN trae'.rows : n \in DOMAIN trae.rows \/ Named(saved.owned, n) # {}
  <2>1. \A n \in DOMAIN trae'.rows : n \in Names
    BY StateFields
  <2> QED BY <1>1, <1>7, <1>8, <2>1
<1>10. Accounted'
  BY <1>8, <1>9, AccountedKept
<1>11. \A t \in Tasks : t \in {op.task, Was.task} \/ trae'.picks[t] = trae.picks[t]
  BY <1>4, <1>5
<1> QED BY <1>2, <1>7, <1>10, <1>11

\* A rollback goes on, and so does what is left of the invariant.
LEMMA UndoGoesOn ==
  ASSUME Assumptions, IInv, InSwitch, op.phase = "undo", op.todo # <<>>, NEW c, c = Head(op.todo), NEW bad,
         bad \in SUBSET {"removal", "replaced", "selection"},
         op' = [op EXCEPT !.todo = Tail(op.todo), !.bad = bad], trae' \in States,
         trae' = trae \/ (Did(trae', trae, c) /\ DOMAIN trae'.rows = DOMAIN After(c).rows /\ Accepts(c)),
         SpentGrows, UNCHANGED <<saved, past, binding, key, native>>,
         bad = {} => Becomes(Cells, trae', Tail(op.todo), Was),
         Mishaps' <= 1 => bad = {},
         ~op.cp.pending /\ spent'.fault <= 1 => Becomes(LabelCells \cup RowCells, trae', Tail(op.todo), Was),
         Accidents' = 0 => Becomes(RowCells, trae', Tail(op.todo), Was),
         Few' => Becomes(RowCells, trae', Tail(op.todo), Was) \/ ActiveAlone
  PROVE  Core'
<1> DEFINE S == UndoesOf(op.plan, op.task, op.pick)
<1>0. Typed /\ Held /\ Found /\ PlanOK /\ Backward /\ Accounted /\ WasActive
  BY DEF IInv, Core
<1>1. op \in SwitchOps /\ op.todo \in Seq(S) /\ Ordered(op.todo) /\ Covered(op.todo)
  BY <1>0, OpIs DEF Backward
<1>2. c \in S /\ Tail(op.todo) \in Seq(S)
  BY <1>1, SeqHead
<1>3. /\ Found' /\ Accounted'
      /\ \A n \in Names : (n = Name /\ op.plan.created) \/ (n \in DOMAIN trae'.rows <=> n \in DOMAIN trae.rows)
      /\ \A t \in Tasks : t \in {op.task, Was.task} \/ trae'.picks[t] = trae.picks[t]
  BY <1>0, <1>2, UndoCalled
<1>4. Tail(op.todo) \in Seq(Commands)
  BY <1>2 DEF UndoesOf
<1>5. op' \in SwitchOps
  BY <1>1, <1>4 DEF SwitchOps
<1>6. /\ op'.phase = "undo" /\ op'.todo = Tail(op.todo) /\ op'.call = "switch" /\ op'.cp = op.cp /\ op'.old = op.old
      /\ op'.plan = op.plan /\ op'.base = op.base /\ op'.task = op.task /\ op'.pick = op.pick /\ op'.bad = bad
  BY <1>1 DEF SwitchOps
<1>7. Name' = Name /\ Was' = Was
  BY <1>6 DEF Name, Was
<1>8. ActiveAlone' = ActiveAlone
  BY <1>6, <1>7 DEF ActiveAlone
<1>9. Typed'
  BY <1>0, <1>5 DEF Typed, SpentGrows
<1>10. PlanOK'
  BY <1>0, <1>3, <1>6, PlanKept
<1>11. WasActive'
  BY <1>0, <1>6, WasActiveKept
<1>12. Held'
  <2>1. op # Idle /\ op.call = "switch" /\ op.phase \notin {"failed", "restored"}
    BY <1>0, OpIs DEF InSwitch
  <2> QED BY <1>0, <1>6, <2>1, HeldSame
<1>13. saved # None
  BY <1>0, OpIs DEF Held
<1>14. Healthy' /\ Active' /\ Forward' /\ Undone' /\ Returning'
  BY <1>6, <1>13 DEF Healthy, Active, Forward, Undone, Returning, InRestore, Working
<1>15. Ordered(Tail(op.todo)) /\ Covered(Tail(op.todo))
  BY <1>1, OrderedTail, CoveredTail
<1>16. /\ Mishaps' >= 1 /\ (op.task # Was.task => Mishaps' >= 2)
       /\ ~op.cp.pending => spent'.fault >= 1 /\ op.cp.active = Name
       /\ op.cp.pending => op.cp.active = op.old.active
  <2>1. Mishaps \in Nat /\ Mishaps' \in Nat /\ Mishaps' >= Mishaps /\ spent.fault \in Nat /\ spent'.fault \in Nat
        /\ spent'.fault >= spent.fault
    BY <1>0, Grown, SpentIs DEF Typed, SpentGrows, Spents
  <2>2. /\ Mishaps >= 1 /\ (op.task # Was.task => Mishaps >= 2)
        /\ ~op.cp.pending => spent.fault >= 1 /\ op.cp.active = Name
        /\ op.cp.pending => op.cp.active = op.old.active
    BY <1>0 DEF Backward
  <2> QED BY <2>1, <2>2
<1>17. Backward'
  BY <1>2, <1>6, <1>7, <1>8, <1>15, <1>16 DEF Backward
<1> QED BY <1>3, <1>9, <1>10, <1>11, <1>12, <1>14, <1>17 DEF IInv, Core

\* A compensating call that is refused is the selection of a model that is not
\* there, and then there was more than one mishap.
LEMMA UndoRefused ==
  ASSUME Typed, PlanOK, Backward, InSwitch, op.phase = "undo", op.todo # <<>>, NEW c, c = Head(op.todo),
         ~Accepts(c), ~(c.do = "add" /\ c.row.name \in DOMAIN trae.rows)
  PROVE  c.do = "select" /\ Mishaps >= 2
<1> DEFINE S == UndoesOf(op.plan, op.task, op.pick)
<1>1. op \in SwitchOps /\ op.todo \in Seq(S) /\ Ordered(op.todo)
  BY OpIs DEF Backward
<1>2. c \in S /\ c \in Commands /\ op.todo \in Seq(Commands) /\ Name \in Names /\ Was \in States
  BY <1>1, SeqHead, SwitchFields DEF UndoesOf
<1>3. c.do = "select" \/ c.do = "add"
  BY DEF Accepts
<1>4. CASE c.do = "add"
  <2>1. c.row.name = Name /\ op.plan.created /\ Name \notin DOMAIN trae.rows
    BY <1>2, <1>4 DEF UndoesOf, Name
  <2>2. \A n \in DOMAIN trae.rows : n \in Names
    BY StateFields DEF Typed
  <2>3. \A n \in DOMAIN trae.rows : n \in DOMAIN Was.rows /\ n # Name
    BY <2>1, <2>2 DEF PlanOK
  <2>4. \A n \in DOMAIN trae.rows : n[1] # Name[1]
    BY <2>1, <2>3 DEF PlanOK, OneRowAModel
  <2> QED BY <1>4, <2>1, <2>4 DEF Accepts
<1>5. CASE c.do = "select"
  <2>1. c.to = op.pick /\ op.task # NoTask
    BY <1>2, <1>5 DEF UndoesOf
  <2>2. op.pick \notin DOMAIN trae.rows /\ op.pick # Automatic
    BY <1>5, <2>1 DEF Accepts, Exists
  <2> SUFFICES ASSUME ~(Mishaps >= 2) PROVE FALSE
    BY <1>5
  <2>3. Mishaps <= 1
    BY SpentIs DEF Mishaps, Typed
  <2>4. op.bad = {} /\ op.task = Was.task
    BY <2>3 DEF Backward
  <2>5. op.pick \in DOMAIN Was.rows
    BY <2>1, <2>2, <2>4 DEF PlanOK, Exists
  <2>6. op.pick \in Names
    BY <1>2, <2>5, StateFields
  <2>7. <<"row", op.pick>> \in Cells /\ Shown(Was, <<"row", op.pick>>) = "there"
    BY <2>5, <2>6 DEF Cells, RowCells, Shown
  <2>8. WillBe(trae, op.todo, <<"row", op.pick>>, "there")
    BY <2>4, <2>7 DEF Backward, Becomes
  <2>9. op.pick \in DOMAIN trae.rows
    BY <1>1, <1>2, <1>5, <2>6, <2>8, ThereNow
  <2> QED BY <2>2, <2>9
<1> QED BY <1>3, <1>4, <1>5

LEMMA UndoingKeeps ==
  ASSUME Assumptions, IInv, Undoing
  PROVE  Core'
<1> DEFINE c == Head(op.todo)
           S == UndoesOf(op.plan, op.task, op.pick)
           todo == Tail(op.todo)
<1>0. Typed /\ Held /\ Found /\ PlanOK /\ Backward /\ Accounted /\ WasActive /\ Lasting
  BY DEF IInv, Core
<1>1. op.phase = "undo" /\ op.todo # <<>> /\ UNCHANGED <<saved, past, binding, key, native>>
  BY UndoingIs
<1>2. InSwitch /\ op \in SwitchOps
  BY <1>0, <1>1, OpIs
<1>3. op.todo \in Seq(S) /\ op.todo \in Seq(Commands) /\ Ordered(op.todo) /\ Covered(op.todo)
  BY <1>0, <1>1, <1>2, SwitchFields DEF Backward
<1>4. c \in S /\ c \in Commands
  BY <1>1, <1>3, SeqHead DEF UndoesOf
<1>5. trae \in States /\ spent \in Spents /\ op.bad \in SUBSET {"removal", "replaced", "selection"}
  BY <1>0, <1>2, SwitchFields DEF Typed
<1>6. /\ op.bad = {} => Becomes(Cells, trae, op.todo, Was)
      /\ Mishaps <= 1 => op.bad = {}
      /\ Mishaps >= 1
      /\ ~op.cp.pending => spent.fault >= 1
      /\ ~op.cp.pending /\ spent.fault <= 1 => Becomes(LabelCells \cup RowCells, trae, op.todo, Was)
      /\ Accidents = 0 => Becomes(RowCells, trae, op.todo, Was)
      /\ Few => Becomes(RowCells, trae, op.todo, Was) \/ ActiveAlone
  BY <1>0, <1>1, <1>2 DEF Backward
<1>7. /\ Mishaps \in Nat /\ Accidents \in Nat /\ spent.fault \in Nat
  BY <1>5, SpentIs DEF Mishaps, Accidents
<1>8. RowCells \in SUBSET Cells /\ LabelCells \cup RowCells \in SUBSET Cells /\ Cells \in SUBSET Cells
  BY DEF Cells
<1> HIDE DEF c
<1>9. CASE /\ op' = [op EXCEPT !.todo = todo]
           /\ \/ c.do = "add" /\ c.row.name \in DOMAIN trae.rows /\ UNCHANGED <<trae, spent>>
              \/ Answered(c, TRUE)
              \/ c.do = "add" /\ Accepts(c) /\ Fault /\ trae' = After(c)
  <2>1. /\ trae' \in States /\ Did(trae', trae, c) /\ SpentGrows
        /\ trae' = trae \/ (Did(trae', trae, c) /\ DOMAIN trae'.rows = DOMAIN After(c).rows /\ Accepts(c))
    <3>1. CASE c.do = "add" /\ c.row.name \in DOMAIN trae.rows /\ UNCHANGED <<trae, spent>>
      <4>1. Did(trae', trae, c)
        <5> SUFFICES ASSUME NEW cell \in Cells
                     PROVE  Shown(trae, cell) = IF Writes(c, cell) THEN Written(c, cell) ELSE Shown(trae, cell)
          BY <3>1 DEF Did
        <5>1. Writes(c, cell) => cell[1] = "row" /\ cell[2] = c.row.name /\ Written(c, cell) = "there"
          BY <1>4, <3>1, SelectWrites
        <5> QED BY <3>1, <5>1 DEF Shown
      <4> QED BY <1>5, <3>1, <4>1, UnspentGrows
    <3>2. CASE Answered(c, TRUE)
      BY <1>4, <1>5, <3>2, AnsweredTrue, UnspentGrows
    <3>3. CASE c.do = "add" /\ Accepts(c) /\ Fault /\ trae' = After(c)
      BY <1>4, <1>5, <3>3, AfterTyped, AfterDid, FaultGrows
    <3> QED BY <1>9, <3>1, <3>2, <3>3
  <2>2. /\ Mishaps' \in Nat /\ Accidents' \in Nat /\ Mishaps' >= Mishaps /\ Accidents' >= Accidents
        /\ spent'.fault >= spent.fault /\ spent'.fault \in Nat
    BY <1>5, <2>1, Grown DEF SpentGrows, Spents
  <2>3. \A C \in SUBSET Cells : Becomes(C, trae, op.todo, Was) => Becomes(C, trae', todo, Was)
    BY <1>1, <1>3, <2>1, BecomesStep DEF c
  <2>4. /\ Mishaps' <= 1 => Mishaps <= 1
        /\ spent'.fault <= 1 => spent.fault <= 1
        /\ Accidents' = 0 => Accidents = 0
        /\ Few' => Few
    BY <1>5, <1>7, <2>1, <2>2, FewShrinks
  <2>5. /\ op.bad = {} => Becomes(Cells, trae', todo, Was)
        /\ Mishaps' <= 1 => op.bad = {}
        /\ ~op.cp.pending /\ spent'.fault <= 1 => Becomes(LabelCells \cup RowCells, trae', todo, Was)
        /\ Accidents' = 0 => Becomes(RowCells, trae', todo, Was)
        /\ Few' => Becomes(RowCells, trae', todo, Was) \/ ActiveAlone
    BY <1>6, <1>8, <2>3, <2>4
  <2>6. op' = [op EXCEPT !.todo = todo, !.bad = op.bad]
    BY <1>2, <1>9 DEF SwitchOps
  <2> QED BY <1>1, <1>2, <1>5, <2>1, <2>5, <2>6, UndoGoesOn DEF c
<1>10. CASE /\ op' = [op EXCEPT !.todo = todo, !.bad = op.bad \cup {Part(c)}]
            /\ Answered(c, FALSE) /\ ~(c.do = "add" /\ c.row.name \in DOMAIN trae.rows)
  <2> DEFINE bad == op.bad \cup {Part(c)}
  <2>1. /\ trae' \in States
        /\ trae' = trae \/ (Did(trae', trae, c) /\ DOMAIN trae'.rows = DOMAIN After(c).rows /\ Accepts(c))
        /\ Fault \/ (~Accepts(c) /\ spent' = spent /\ trae' = trae)
    BY <1>4, <1>5, <1>10, AnsweredFalse
  <2>2. bad \in SUBSET {"removal", "replaced", "selection"} /\ bad # {}
    BY <1>5 DEF Part
  <2>3. CASE Fault
    <3>1. SpentGrows /\ spent'.fault = spent.fault + 1 /\ Mishaps' = Mishaps + 1 /\ Accidents' = Accidents + 1
      BY <1>5, <2>3, FaultGrows
    <3>2. /\ ~(Mishaps' <= 1) /\ ~(Accidents' = 0)
          /\ ~(~op.cp.pending /\ spent'.fault <= 1)
          /\ Few' => OneFault
      BY <1>5, <1>6, <1>7, <2>3, <3>1, FewFault
    <3>3. Few' => ActiveAlone
      BY <1>0, <1>1, <1>2, <3>2, ActiveStaysAlone
    <3> HIDE DEF bad
    <3> QED BY <1>1, <1>2, <1>10, <2>1, <2>2, <3>1, <3>2, <3>3, UndoGoesOn DEF c, bad
  <2>4. CASE ~Fault
    <3>1. ~Accepts(c) /\ spent' = spent /\ trae' = trae
      BY <2>1, <2>4
    <3>2. c.do = "select" /\ Mishaps >= 2
      BY <1>0, <1>1, <1>2, <1>10, <3>1, UndoRefused DEF c
    <3>3. SpentGrows /\ Mishaps' = Mishaps /\ Accidents' = Accidents /\ spent'.fault = spent.fault /\ (Few' => Few)
      BY <1>5, <3>1, UnspentGrows, FewShrinks
    <3>4. ~(Mishaps' <= 1)
      BY <1>7, <3>2, <3>3
    <3>5. Becomes(RowCells, trae, op.todo, Was) => Becomes(RowCells, trae', todo, Was)
      <4> SUFFICES ASSUME Becomes(RowCells, trae, op.todo, Was) PROVE Becomes(RowCells, trae', todo, Was)
        OBVIOUS
      <4>1. \A cell \in RowCells : ~Writes(c, cell)
        BY <1>4, <1>8, <3>2, SelectWrites DEF RowCells, Selecting
      <4> QED BY <1>1, <1>3, <3>1, <4>1, BecomesShown DEF c
    <3>6. Becomes(LabelCells \cup RowCells, trae, op.todo, Was) => Becomes(LabelCells \cup RowCells, trae', todo, Was)
      <4> SUFFICES ASSUME Becomes(LabelCells \cup RowCells, trae, op.todo, Was), NEW cell \in LabelCells \cup RowCells
                   PROVE  WillBe(trae', todo, cell, Shown(Was, cell))
        BY DEF Becomes
      <4>1. WillBe(trae, op.todo, cell, Shown(Was, cell)) /\ cell \in Cells
        BY <1>8 DEF Becomes
      <4>2. CASE ~Writes(c, cell)
        BY <1>1, <1>3, <3>1, <4>1, <4>2, WillBeStep DEF c
      <4>3. CASE Writes(c, cell)
        <5>1. cell[1] = "label" /\ cell[2] = c.label
          BY <1>4, <3>2, <4>1, <4>3, SelectWrites DEF RowCells, LabelCells, Selecting
        <5>2. c = op.todo[1] /\ 1 \in DOMAIN op.todo
          BY <1>1, <1>3, SeqHead DEF c
        <5>3. PICK j \in DOMAIN op.todo : 1 < j /\ op.todo[j].do = "put" /\ op.todo[j].label = c.label
          BY <1>3, <3>2, <5>2 DEF Covered
        <5>4. j \in 2 .. Len(op.todo)
          BY <1>3, <5>3
        <5>5. Writes(op.todo[j], cell)
          BY <5>1, <5>3 DEF Writes, Selecting
        <5> HIDE DEF WillBe, Writes, Shown
        <5> QED BY <1>1, <1>3, <4>1, <5>4, <5>5, WillBeLater
      <4> QED BY <4>2, <4>3
    <3>7. /\ ~op.cp.pending /\ spent'.fault <= 1 => Becomes(LabelCells \cup RowCells, trae', todo, Was)
          /\ Accidents' = 0 => Becomes(RowCells, trae', todo, Was)
          /\ Few' => Becomes(RowCells, trae', todo, Was) \/ ActiveAlone
      BY <1>6, <3>3, <3>5, <3>6
    <3> HIDE DEF bad
    <3> QED BY <1>1, <1>2, <1>10, <2>1, <2>2, <3>3, <3>4, <3>7, UndoGoesOn DEF c, bad
  <2> QED BY <2>3, <2>4
<1> QED BY <1>9, <1>10, UndoingIs DEF c

\* record_rollback_checkpoint
Kept ==
  IF op.plan.created /\ "removal" \notin op.bad THEN {r \in op.cp.owned : r.name # op.plan.row.name} ELSE op.cp.owned
Recovered ==
  [op.cp EXCEPT !.active = op.old.active,
                !.owned = IF op.bad = {} THEN {r \in Kept : Named(op.plan.replaced, r.name) = {}} \cup op.plan.replaced ELSE Kept,
                !.borrowed = IF op.bad = {} THEN op.old.borrowed ELSE op.cp.borrowed,
                !.pending = op.bad # {}]

LEMMA RolledBackIs ==
  ASSUME RolledBack
  PROVE  /\ op.phase = "undo" /\ op.todo = <<>> /\ op' = [op EXCEPT !.phase = "failed"] /\ binding' = op.bound
         /\ UNCHANGED <<trae, key, native>>
         /\ Saves(Recovered) \/ SaveFails
BY DEF RolledBack, Recovered, Kept, Reached

LEMMA RecoveredIs ==
  ASSUME op \in SwitchOps, PlanOK, Fits(op.cp), InSwitch, op.phase = "undo"
  PROVE  /\ Recovered \in Cps /\ Recovered.base = op.cp.base /\ Recovered.task = op.cp.task /\ Recovered.pick = op.cp.pick
         /\ Recovered.active = op.old.active /\ Recovered.pending = (op.bad # {})
         /\ Recovered.owned \subseteq past /\ OneRowAName(Recovered.owned)
         /\ op.bad = {} => \A n : /\ Named(op.cp.owned, n) # {}
                                  /\ n # Name \/ ~op.plan.created \/ op.plan.replaced # {}
                                  => Named(Recovered.owned, n) # {}
<1> DEFINE owned == IF op.bad = {} THEN {r \in Kept : Named(op.plan.replaced, r.name) = {}} \cup op.plan.replaced ELSE Kept
           borrowed == IF op.bad = {} THEN op.old.borrowed ELSE op.cp.borrowed
           pending == op.bad # {}
<1>1. /\ op.cp \in Cps /\ op.old \in Cps /\ op.plan.replaced \in SUBSET Rows /\ Name = op.plan.row.name
      /\ op.cp.owned \in SUBSET Rows /\ op.cp.borrowed \in SUBSET Rows /\ op.old.borrowed \in SUBSET Rows
      /\ op.old.active \in Names \cup {None}
  BY SwitchFields, CpFields DEF Name
<1>2. op.cp.owned \subseteq past /\ OneRowAName(op.cp.owned)
  BY DEF Fits
<1>3. op.plan.replaced \subseteq past /\ (op.plan.replaced = {} \/ \E r \in Rows : op.plan.replaced = {r} /\ r.name = Name)
  BY DEF PlanOK
<1>4. Kept \subseteq op.cp.owned
  BY DEF Kept
<1>5. owned \in SUBSET Rows /\ owned \subseteq past
  BY <1>1, <1>2, <1>3, <1>4
<1>6. OneRowAName(owned)
  <2>1. CASE op.bad = {}
    <3>1. owned = {r \in Kept : Named(op.plan.replaced, r.name) = {}} \cup op.plan.replaced
      BY <2>1
    <3>2. \A r, q \in op.plan.replaced : r = q
      BY <1>3
    <3> HIDE DEF owned
    <3> SUFFICES ASSUME NEW r \in owned, NEW q \in owned, r.name = q.name PROVE r = q
      BY DEF OneRowAName
    <3>3. CASE r \in op.plan.replaced /\ q \in op.plan.replaced
      BY <3>2, <3>3
    <3>4. CASE r \notin op.plan.replaced /\ q \notin op.plan.replaced
      BY <1>2, <1>4, <3>1, <3>4 DEF OneRowAName
    <3>5. CASE r \in op.plan.replaced /\ q \notin op.plan.replaced
      BY <3>1, <3>5 DEF Named
    <3>6. CASE r \notin op.plan.replaced /\ q \in op.plan.replaced
      BY <3>1, <3>6 DEF Named
    <3> QED BY <3>3, <3>4, <3>5, <3>6
  <2>2. CASE op.bad # {}
    <3>1. owned = Kept
      BY <2>2
    <3> HIDE DEF owned
    <3> QED BY <1>2, <1>4, <3>1 DEF OneRowAName
  <2> QED BY <2>1, <2>2
<1>7. op.bad = {} => \A n : /\ Named(op.cp.owned, n) # {}
                            /\ n # Name \/ ~op.plan.created \/ op.plan.replaced # {}
                            => Named(owned, n) # {}
  <2> SUFFICES ASSUME op.bad = {}, NEW n, NEW r \in op.cp.owned, r.name = n,
                      n # Name \/ ~op.plan.created \/ op.plan.replaced # {}
               PROVE  \E q \in owned : q.name = n
    BY DEF Named
  <2>1. owned = {q \in Kept : Named(op.plan.replaced, q.name) = {}} \cup op.plan.replaced
    OBVIOUS
  <2> HIDE DEF owned
  <2>2. CASE Named(op.plan.replaced, n) # {}
    BY <2>1, <2>2 DEF Named
  <2>3. CASE Named(op.plan.replaced, n) = {}
    <3>1. n # Name \/ ~op.plan.created
      BY <1>3, <2>3 DEF Named
    <3>2. r \in Kept
      BY <1>1, <3>1 DEF Kept
    <3> QED BY <2>1, <2>3, <3>2
  <2> QED BY <2>2, <2>3
<1>8. borrowed \in SUBSET Rows
  BY <1>1
<1>9. pending \in BOOLEAN
  OBVIOUS
<1>10. Recovered = [op.cp EXCEPT !.active = op.old.active, !.owned = owned, !.borrowed = borrowed, !.pending = pending]
  BY DEF Recovered
<1> HIDE DEF owned, borrowed, pending
<1>11. /\ Recovered \in Cps /\ Recovered.base = op.cp.base /\ Recovered.task = op.cp.task /\ Recovered.pick = op.cp.pick
       /\ Recovered.active = op.old.active /\ Recovered.pending = pending /\ Recovered.owned = owned
  BY <1>1, <1>5, <1>8, <1>9, <1>10 DEF Cps
<1> QED BY <1>5, <1>6, <1>7, <1>11 DEF pending

\* When every compensating call succeeded TRAE is as it was.
LEMMA AllUndone ==
  ASSUME trae \in States, NEW was \in States, Becomes(Cells, trae, <<>>, was)
  PROVE  Same(trae, was) /\ DOMAIN trae.rows = DOMAIN was.rows /\ trae.chosen = was.chosen
<1>1. \A cell \in Cells : Shown(trae, cell) = Shown(was, cell)
  BY BecomesDone
<1>2. Becomes(RowCells, trae, <<>>, was) /\ Becomes(LabelCells, trae, <<>>, was)
  BY BecomesPart DEF Cells
<1>3. DOMAIN trae.rows = DOMAIN was.rows
  BY <1>2, RowsAlike
<1>4. \A l \in Labels : trae.chosen[l] = was.chosen[l]
  BY <1>2, LabelsAlike
<1>5. trae.chosen \in [Labels -> Selections] /\ was.chosen \in [Labels -> Selections]
  BY StateFields
<1>6. trae.chosen = was.chosen
  BY <1>4, <1>5
<1>7. ASSUME NEW t \in Tasks PROVE Effective(trae, t) = Effective(was, t)
  <2>1. <<"task", t>> \in Cells
    BY DEF Cells, TaskCells
  <2>2. Shown(trae, <<"task", t>>) = Shown(was, <<"task", t>>)
    BY <1>1, <2>1
  <2>3. trae.picks[t] = was.picks[t]
    BY <2>2 DEF Shown
  <2> QED BY <1>6, <2>3 DEF Effective
<1> QED BY <1>3, <1>6, <1>7 DEF Same

LEMMA RolledBackKeeps ==
  ASSUME Assumptions, IInv, RolledBack
  PROVE  Core'
<1>0. Typed /\ Held /\ Found /\ PlanOK /\ Backward /\ Accounted /\ Healthy /\ Active /\ WasActive /\ Lasting
  BY DEF IInv, Core
<1>1. /\ op.phase = "undo" /\ op.todo = <<>> /\ op' = [op EXCEPT !.phase = "failed"] /\ binding' = op.bound
      /\ UNCHANGED <<trae, key, native>>
      /\ Saves(Recovered) \/ SaveFails
  BY RolledBackIs
<1>2. InSwitch /\ op \in SwitchOps
  BY <1>0, <1>1, OpIs
<1>3. trae \in States /\ spent \in Spents /\ Was \in States /\ op.bound \in Bases \cup {None} /\ op.cp \in Cps /\ Name \in Names
  BY <1>0, <1>2, SwitchFields DEF Typed
<1>4. /\ saved.owned = op.cp.owned /\ saved.active = op.cp.active /\ saved.pending = op.cp.pending
      /\ op.cp.pending \/ saved = op.cp
      /\ saved \in Cps /\ saved # None /\ Fits(saved) /\ Fits(op.cp) /\ Fits(op.old)
  BY <1>0, <1>1, <1>2, OpIs DEF Held, Typed
<1>5. /\ op.bad = {} => Becomes(Cells, trae, <<>>, Was)
      /\ Mishaps <= 1 => op.bad = {}
      /\ Mishaps >= 1
      /\ ~op.cp.pending => spent.fault >= 1
      /\ op.cp.pending => op.cp.active = op.old.active
      /\ ~op.cp.pending => op.cp.active = Name
      /\ ~op.cp.pending /\ spent.fault <= 1 => Becomes(LabelCells \cup RowCells, trae, <<>>, Was)
      /\ Accidents = 0 => Becomes(RowCells, trae, <<>>, Was)
      /\ Few => Becomes(RowCells, trae, <<>>, Was) \/ ActiveAlone
  BY <1>0, <1>1, <1>2 DEF Backward
<1>6. op' \in SwitchOps
  BY <1>1, <1>2 DEF SwitchOps, SwitchPhases
<1>7. /\ op'.phase = "failed" /\ op'.call = "switch" /\ op'.cp = op.cp /\ op'.old = op.old /\ op'.plan = op.plan /\ op'.bad = op.bad
  BY <1>1, <1>2, SwitchFields DEF SwitchOps
<1>8. Was' = Was
  BY <1>7 DEF Was
<1>9. /\ Recovered \in Cps /\ Recovered.base = op.cp.base /\ Recovered.task = op.cp.task /\ Recovered.pick = op.cp.pick
      /\ Recovered.active = op.old.active /\ Recovered.pending = (op.bad # {})
      /\ Recovered.owned \subseteq past /\ OneRowAName(Recovered.owned)
      /\ op.bad = {} => \A n : /\ Named(op.cp.owned, n) # {}
                               /\ n # Name \/ ~op.plan.created \/ op.plan.replaced # {}
                               => Named(Recovered.owned, n) # {}
  BY <1>0, <1>1, <1>2, <1>4, RecoveredIs
<1>11. /\ saved' \in Cps /\ saved' # None /\ past' = past /\ SpentGrows
       /\ \/ saved' = Recovered /\ spent' = spent
          \/ saved' = saved /\ Fault /\ spent'.fault = spent.fault + 1 /\ Mishaps' = Mishaps + 1 /\ Accidents' = Accidents + 1
  <2>1. CASE Saves(Recovered)
    <3>1. saved' = Recovered /\ past' = past /\ spent' = spent
      BY <1>9, <2>1 DEF Saves, Stored
    <3>2. Recovered # None
      BY <1>9 DEF Assumptions
    <3> QED BY <1>3, <1>9, <3>1, <3>2, UnspentGrows
  <2>2. CASE SaveFails
    BY <1>3, <1>4, <2>2, FaultGrows DEF SaveFails
  <2> QED BY <1>1, <2>1, <2>2
<1>12. Typed'
  BY <1>0, <1>1, <1>3, <1>6, <1>11 DEF Typed, SpentGrows
<1>13. Found'
  BY <1>0, <1>1, <1>11, FoundSame DEF SpentGrows
<1>14. Held'
  <2>1. op' # Idle
    BY <1>7 DEF Idle
  <2>2. Fits(saved')
    BY <1>4, <1>9, <1>11 DEF Fits
  <2> QED BY <1>0, <1>1, <1>4, <1>7, <1>11, <2>1, <2>2 DEF Held, Fits, InSwitch, InRestore
<1>15. PlanOK' /\ Forward' /\ Backward' /\ WasActive' /\ Returning'
  BY <1>7 DEF PlanOK, Forward, Backward, WasActive, Returning, InRestore, Working
<1>16. op.bad = {} => Same(trae, Was) /\ DOMAIN trae.rows = DOMAIN Was.rows /\ trae.chosen = Was.chosen
  BY <1>3, <1>5, AllUndone
<1>17. Undone'
  <2>1. Same(trae', Was') = Same(trae, Was)
    BY <1>1, <1>8
  <2>2. saved'.pending \/ Same(trae, Was) \/ (op.bad # {} /\ saved' = op.cp /\ ~op.cp.pending)
    <3>1. CASE saved' = Recovered
      BY <1>9, <1>16, <3>1
    <3>2. CASE saved' = saved
      BY <1>4, <1>16, <3>2
    <3> QED BY <1>11, <3>1, <3>2
  <2> QED BY <1>7, <2>1, <2>2 DEF Undone
<1>18. /\ Mishaps \in Nat /\ Accidents \in Nat /\ spent.fault \in Nat
  BY <1>3, SpentIs DEF Mishaps, Accidents
<1>19. Accounted'
  <2> SUFFICES ASSUME Mishaps' <= 1, NEW n \in DOMAIN trae.rows, n[2] # 0 PROVE Named(saved'.owned, n) # {}
    BY <1>1 DEF Accounted
  <2>1. saved' = Recovered /\ spent' = spent
    BY <1>5, <1>11, <1>18
  <2>2. Mishaps <= 1
    BY <1>3, <2>1, UnspentGrows
  <2>3. op.bad = {} /\ Named(op.cp.owned, n) # {}
    BY <1>0, <1>4, <1>5, <2>2 DEF Accounted
  <2>4. n # Name \/ ~op.plan.created \/ op.plan.replaced # {}
    <3> SUFFICES ASSUME n = Name, op.plan.created, op.plan.replaced = {} PROVE FALSE
      OBVIOUS
    <3>1. Name \notin DOMAIN Was.rows
      BY <1>0, <1>1, <1>2 DEF PlanOK
    <3> QED BY <1>16, <2>3, <3>1
  <2> QED BY <1>9, <2>1, <2>3, <2>4
<1>20. Healthy'
  <2>1. \A l \in Labels : Was.chosen[l] \in Exists(Was.rows)
    BY <1>0, <1>1, <1>2 DEF PlanOK
  <2> SUFFICES ASSUME ~saved'.pending, spent'.fault = 0 \/ (spent'.crash = 0 /\ spent'.fault <= 2)
               PROVE  \A l \in Labels : trae.chosen[l] \in Exists(trae.rows)
    BY <1>1, <1>11 DEF Healthy
  <2>2. CASE saved' = Recovered
    BY <1>9, <1>16, <2>1, <2>2 DEF Exists
  <2>3. CASE saved' = saved /\ spent'.fault = spent.fault + 1
    <3>1. ~op.cp.pending /\ spent.fault <= 1
      BY <1>4, <1>18, <2>3
    <3>2. Becomes(LabelCells \cup RowCells, trae, <<>>, Was)
      BY <1>5, <3>1
    <3>3. Becomes(RowCells, trae, <<>>, Was) /\ Becomes(LabelCells, trae, <<>>, Was)
      BY <3>2, BecomesPart
    <3>4. DOMAIN trae.rows = DOMAIN Was.rows /\ \A l \in Labels : trae.chosen[l] = Was.chosen[l]
      BY <1>3, <3>3, RowsAlike, LabelsAlike
    <3> QED BY <2>1, <3>4 DEF Exists
  <2> QED BY <1>11, <2>2, <2>3
<1>21. /\ Accidents = 0 => op.old.active \in DOMAIN trae.rows \cup {None}
       /\ Few => AloneIn(trae.rows, op.old.active)
  <2>1. /\ Accidents = 0 => op.old.active \in DOMAIN Was.rows \cup {None}
        /\ Few => AloneIn(Was.rows, op.old.active)
    BY <1>0, <1>1, <1>2 DEF WasActive
  <2>2. CASE Becomes(RowCells, trae, <<>>, Was)
    <3>1. DOMAIN trae.rows = DOMAIN Was.rows
      BY <1>3, <2>2, RowsAlike
    <3> QED BY <2>1, <3>1 DEF AloneIn
  <2>3. CASE ~Becomes(RowCells, trae, <<>>, Was)
    <3>1. ~(Accidents = 0)
      BY <1>5, <2>3
    <3>2. Few => ActiveAlone
      BY <1>5, <2>3
    <3>3. \A n \in DOMAIN trae.rows : n \in DOMAIN Was.rows \cup {Name}
      <4>1. \A n \in DOMAIN trae.rows : n \in Names
        BY <1>3, StateFields
      <4> QED BY <1>0, <1>1, <1>2, <4>1 DEF PlanOK
    <3>4. ActiveAlone => AloneIn(trae.rows, op.old.active)
      BY <3>3 DEF ActiveAlone, AloneIn
    <3> QED BY <3>1, <3>2, <3>4
  <2> QED BY <2>2, <2>3
<1>22. Active'
  <2>1. CASE saved' = Recovered /\ spent' = spent
    <3>1. Accidents' = Accidents /\ (Few' => Few)
      BY <1>3, <1>11, <2>1, UnspentGrows, FewShrinks
    <3> QED BY <1>1, <1>9, <1>21, <2>1, <3>1 DEF Active
  <2>2. CASE saved' = saved /\ Fault /\ Accidents' = Accidents + 1
    <3>1. ~(Accidents' = 0) /\ (Few' => OneFault)
      BY <1>3, <1>18, <2>2, FewFault
    <3>2. OneFault => Few /\ spent.fault <= 1
      BY <1>3, SpentIs DEF Accidents, OneFault, Few
    <3>3. ASSUME OneFault PROVE AloneIn(trae.rows, op.cp.active)
      <4>1. CASE op.cp.pending
        BY <1>5, <1>21, <3>2, <3>3, <4>1
      <4>2. CASE ~op.cp.pending
        <5>1. op.cp.active = Name /\ Becomes(LabelCells \cup RowCells, trae, <<>>, Was)
          BY <1>5, <3>2, <3>3, <4>2
        <5>2. DOMAIN trae.rows = DOMAIN Was.rows
          BY <1>3, <5>1, BecomesPart, RowsAlike
        <5>3. op.plan.created \in BOOLEAN
          BY <1>2, SwitchFields
        <5>4. Name \in DOMAIN Was.rows \/ \A n \in DOMAIN Was.rows : n[1] # Name[1]
          BY <1>0, <1>1, <1>2, <5>3 DEF PlanOK
        <5>5. OneRowAModel(Was.rows)
          BY <1>0, <1>1, <1>2 DEF PlanOK
        <5> QED BY <5>1, <5>2, <5>4, <5>5 DEF AloneIn, OneRowAModel
      <4> QED BY <4>1, <4>2
    <3> QED BY <1>1, <1>4, <2>2, <3>1, <3>3 DEF Active
  <2> QED BY <1>11, <2>1, <2>2
<1> QED BY <1>12, <1>13, <1>14, <1>15, <1>17, <1>19, <1>20, <1>22 DEF IInv, Core

-----------------------------------------------------------------------------
(* The beginning, and a switch that is planned *)

LEMMA InitHolds ==
  ASSUME Assumptions, Init
  PROVE  Core
<1>1. PICK rows \in {NoRows} \cup [{<<CHOOSE b \in Bases : TRUE, 0>>} -> {Unset}], task \in {FirstTask, NoTask} :
        \E default \in Exists(rows), pick \in Exists(rows) \cup {Unset} :
          trae = [rows |-> rows, chosen |-> [l \in Labels |-> default], task |-> task,
                  picks |-> [t \in Tasks |-> IF t = FirstTask THEN pick ELSE Unset]]
  BY DEF Init
<1>17. PICK default \in Exists(rows), pick \in Exists(rows) \cup {Unset} :
         trae = [rows |-> rows, chosen |-> [l \in Labels |-> default], task |-> task,
                 picks |-> [t \in Tasks |-> IF t = FirstTask THEN pick ELSE Unset]]
  BY <1>1
<1>2. /\ saved = None /\ past = {} /\ binding = None /\ key = 1 /\ op = Idle /\ native = None
      /\ spent = [call |-> 0, fault |-> 0, crash |-> 0, user |-> 0]
  BY DEF Init
<1>3. FirstTask \in Tasks /\ (CHOOSE b \in Bases : TRUE) \in Bases
  BY DEF FirstTask, Assumptions
<1>4. /\ DOMAIN rows \in SUBSET Names /\ rows \in [DOMAIN rows -> Keys \cup {Unset}]
      /\ \A n \in DOMAIN rows : n[2] = 0
      /\ \A n, m \in DOMAIN rows : n = m
  <2>1. CASE rows = NoRows
    BY <2>1 DEF NoRows
  <2>2. CASE rows \in [{<<CHOOSE b \in Bases : TRUE, 0>>} -> {Unset}]
    <3>1. <<CHOOSE b \in Bases : TRUE, 0>> \in Names
      BY <1>3 DEF Names, Assumptions
    <3>2. PICK x \in Names : rows \in [{x} -> {Unset}] /\ x[2] = 0
      BY <2>2, <3>1
    <3>3. DOMAIN rows = {x}
      BY <3>2
    <3> QED BY <3>2, <3>3
  <2> QED BY <2>1, <2>2
<1>5. default \in Selections /\ pick \in Selections \cup {Unset}
  BY <1>4 DEF Exists, Selections
<1>6. trae \in States
  <2>1. rows \in UNION {[S -> Keys \cup {Unset}] : S \in SUBSET Names}
    BY <1>4
  <2>2. [l \in Labels |-> default] \in [Labels -> Selections]
    BY <1>5
  <2>3. [t \in Tasks |-> IF t = FirstTask THEN pick ELSE Unset] \in [Tasks -> Selections \cup {Unset}]
    BY <1>5
  <2> QED BY <1>17, <1>3, <2>1, <2>2, <2>3 DEF States
<1>7. trae.rows = rows /\ \A l \in Labels : trae.chosen[l] = default
  BY <1>17
<1>8. op.phase = "idle" /\ ~InSwitch /\ ~InRestore
  BY <1>2 DEF Idle, InSwitch, InRestore
<1>9. spent \in Spents
  BY <1>2 DEF Spents
<1>10. key \in Keys
  BY <1>2 DEF Keys, Assumptions
<1>11. Typed
  BY <1>2, <1>6, <1>9, <1>10 DEF Typed
<1>12. Held
  BY <1>2, <1>8 DEF Held
<1>13. Found
  <2>1. OnRecord
    BY <1>4, <1>7 DEF OnRecord
  <2>2. OneRowAModel(trae.rows)
    BY <1>4, <1>7 DEF OneRowAModel
  <2> QED BY <1>2, <2>1, <2>2 DEF Found, Assumptions
<1>14. Healthy
  BY <1>2, <1>7 DEF Healthy
<1>15. Accounted /\ Active
  BY <1>2 DEF Accounted, Active
<1>16. PlanOK /\ Forward /\ Backward /\ Undone /\ WasActive /\ Returning
  BY <1>8 DEF PlanOK, Forward, Backward, Undone, WasActive, Returning
<1> QED BY <1>11, <1>12, <1>13, <1>14, <1>15, <1>16 DEF IInv, Core

LEMMA SwitchPlannedKeeps ==
  ASSUME Assumptions, IInv, NEW b \in Bases, SwitchPlanned(b)
  PROVE  Core'
<1>0. Typed /\ Held /\ Found /\ Accounted /\ Active
  BY DEF IInv, Core
<1>1. op.phase = "idle" /\ op = Idle /\ UNCHANGED <<trae, binding, key>> /\ Calls /\ Readable
      /\ native' = IF native = None THEN trae ELSE native
  BY <1>0, OpIs DEF SwitchPlanned, CanCall, Reached
<1>2. trae \in States /\ spent \in Spents /\ past \in SUBSET Rows /\ saved \in Cps \cup {None} /\ key \in Keys
      /\ binding \in Bases \cup {None} /\ native \in States \cup {None} /\ None \notin States /\ None \notin Cps
  BY <1>0 DEF Typed, Assumptions
<1> DEFINE c == Checkpoint
<1>3. /\ c \in Cps /\ (saved # None => c = saved)
      /\ saved = None => /\ c.owned = {} /\ c.active = None /\ c.base = trae.chosen
                         /\ c.task = trae.task /\ c.pick = StoredPick(trae)
  BY <1>2, CheckpointTyped
<1>4. PICK plan \in Plans(c, [base |-> b, key |-> key]) :
        /\ op' = [call |-> "switch", phase |-> "apply", base |-> b, cp |-> Planned(c, plan), old |-> c,
                  bound |-> binding, plan |-> plan, task |-> plan.was.task, pick |-> OpenPick(plan.was),
                  todo |-> Steps(plan), tried |-> {}, bad |-> {}]
        /\ saved' = Planned(c, plan) /\ past' = past \cup Planned(c, plan).owned
  BY DEF SwitchPlanned
<1> HIDE DEF c
<1>5. /\ spent' \in Spents /\ spent'.fault = spent.fault /\ spent'.crash = spent.crash
      /\ spent'.user = spent.user /\ spent'.call = spent.call + 1 /\ spent.call < MaxCalls /\ spent.call \in Nat
  BY <1>1, <1>2, SpentIs
<1>6. Mishaps' = Mishaps /\ Accidents' = Accidents /\ Few' = Few
  BY <1>5 DEF Mishaps, Accidents, Few
<1>7. c.owned \subseteq past /\ OneRowAName(c.owned) /\ native' \in States /\ native' # None
      /\ c.base = native'.chosen /\ c.task = native'.task /\ c.pick = StoredPick(native')
  <2>1. CASE saved = None
    BY <1>0, <1>1, <1>2, <1>3, <2>1 DEF Held, OneRowAName
  <2>2. CASE saved # None
    BY <1>0, <1>1, <1>2, <1>3, <2>2 DEF Held, Fits
  <2> QED BY <2>1, <2>2
<1>8. PlanFacts(plan, b)
  BY <1>0, <1>2, <1>3, <1>4, <1>5, <1>7, PlansKeepFacts DEF Found
<1> DEFINE cp == Planned(c, plan)
<1>9. /\ cp \in Cps /\ OneRowAName(cp.owned)
      /\ cp.base = c.base /\ cp.task = c.task /\ cp.pick = c.pick /\ cp.active = c.active /\ cp.pending
      /\ plan.created => plan.row \in cp.owned
      /\ \A n : Named(c.owned, n) # {} => Named(cp.owned, n) # {}
      /\ \A r \in cp.owned : r \in past \/ (r = plan.row /\ ~plan.borrowed)
  BY <1>2, <1>3, <1>7, <1>8, PlannedIs
<1> DEFINE todo == Steps(plan)
<1>10. /\ todo \in Seq(AppliesOf(plan, plan.was.task)) /\ Ordered(todo)
       /\ Becomes(AimsOf(plan.row.name, plan.was.task), trae, todo, Switched(plan.row.name))
       /\ plan.replaced # {} => \E i \in DOMAIN todo : todo[i].do = "delete"
  BY <1>2, <1>8, StepsAre
<1>11. /\ plan \in PlanSet /\ plan.was = trae /\ plan.row \in Rows /\ plan.row.name \in Names /\ plan.row.name[1] = b
       /\ plan.replaced \in SUBSET Rows /\ plan.created \in BOOLEAN
  BY <1>8 DEF PlanFacts, PlanSet, Rows
<1>12. /\ op' = [call |-> "switch", phase |-> "apply", base |-> b, cp |-> cp, old |-> c,
                 bound |-> binding, plan |-> plan, task |-> trae.task, pick |-> OpenPick(trae),
                 todo |-> todo, tried |-> {}, bad |-> {}]
       /\ saved' = cp /\ past' = past \cup cp.owned
  BY <1>4, <1>11
<1> HIDE DEF cp, todo
<1>13. /\ op'.call = "switch" /\ op'.phase = "apply" /\ op'.base = b /\ op'.cp = cp /\ op'.old = c /\ op'.plan = plan
       /\ op'.task = trae.task /\ op'.pick = OpenPick(trae) /\ op'.todo = todo /\ op'.tried = {} /\ op'.bad = {}
  BY <1>12
<1>14. Name' = plan.row.name /\ Was' = trae
  BY <1>11, <1>13 DEF Name, Was
<1>15. /\ OpenPick(trae) \in Selections \cup {Unset} /\ (trae.task # NoTask => OpenPick(trae) \in Selections)
       /\ trae.task \in Tasks \cup {NoTask}
  BY <1>2, PickTyped, StateFields
<1>16. todo \in Seq(Commands)
  <2>1. AppliesOf(plan, plan.was.task) \subseteq Commands
    BY DEF AppliesOf
  <2> QED BY <1>10, <2>1
<1>17. op' \in SwitchOps
  BY <1>2, <1>3, <1>9, <1>11, <1>12, <1>15, <1>16 DEF SwitchOps, SwitchPhases, Working
<1>18. Typed'
  <2>1. past' \in SUBSET Rows
    BY <1>2, <1>9, <1>12, CpFields
  <2> QED BY <1>1, <1>2, <1>5, <1>7, <1>9, <1>12, <1>17, <2>1 DEF Typed
<1>19. cp # None /\ op' # Idle
  BY <1>2, <1>9, <1>13 DEF Idle
<1>20. Held'
  <2>1. Fits(saved)'
    BY <1>7, <1>9, <1>12, <1>19 DEF Fits
  <2>2. c.owned \subseteq past'
    BY <1>7, <1>12
  <2>3. Fits(op.cp)' /\ Fits(op.old)'
    BY <1>7, <1>12, <1>13, <2>1, <2>2 DEF Fits
  <2> QED BY <1>12, <1>13, <1>19, <2>1, <2>3 DEF Held, InSwitch, InRestore
<1>21. Found'
  <2>1. \A r \in past' : r.name[2] \in 1 .. spent'.call
    <3> SUFFICES ASSUME NEW r \in past' PROVE r.name[2] \in 1 .. spent'.call
      OBVIOUS
    <3>1. CASE r \in past
      BY <1>0, <1>5, <3>1 DEF Found
    <3>2. CASE r = plan.row /\ ~plan.borrowed
      BY <1>5, <1>8, <3>2 DEF PlanFacts
    <3> QED BY <1>9, <1>12, <3>1, <3>2
  <2>2. OnRecord'
    BY <1>0, <1>1, <1>12 DEF Found, OnRecord
  <2>3. ASSUME NEW n \in DOMAIN native'.rows PROVE n[2] = 0 /\ n \in DOMAIN trae.rows
    <3>1. CASE native = None
      <4>1. saved = None /\ past = {}
        BY <1>0, <3>1 DEF Held, Fits
      <4>2. n \in Names /\ n \in DOMAIN trae.rows
        BY <1>1, <1>2, <2>3, <3>1, StateFields
      <4>3. n[2] \in Nat /\ ~(n[2] > 0)
        BY <1>0, <4>1, <4>2 DEF Names, Found, OnRecord
      <4> QED BY <4>2, <4>3
    <3>2. CASE native # None
      BY <1>0, <1>1, <2>3, <3>2 DEF Found
    <3> QED BY <3>1, <3>2
  <2>4. spent'.call <= MaxCalls
    BY <1>5 DEF Assumptions
  <2>5. OneRowAModel(trae'.rows)
    BY <1>0, <1>1 DEF Found
  <2> QED BY <1>1, <2>1, <2>2, <2>3, <2>4, <2>5 DEF Found
<1>22. PlanOK'
  <2>1. OneRowAModel(trae.rows) /\ \A l \in Labels : trae.chosen[l] \in Exists(trae.rows)
    BY <1>0, <1>1 DEF Found, Readable
  <2>2. trae.task # NoTask => OpenPick(trae) \in Exists(trae.rows)
    BY <1>1 DEF Readable, OpenPick
  <2>3. /\ plan.replaced \subseteq past' /\ (plan.replaced = {} \/ \E r \in Rows : plan.replaced = {r} /\ r.name = Name')
        /\ plan.created =>
             /\ ~plan.borrowed /\ plan.row \in cp.owned
             /\ plan.replaced # {} => Name' \in DOMAIN trae.rows
             /\ plan.replaced = {} => \A n \in DOMAIN trae.rows : n[1] # Name'[1]
        /\ ~plan.created => Name' \in DOMAIN trae.rows /\ plan.replaced = {}
        /\ Name'[1] = b
    BY <1>8, <1>9, <1>11, <1>12, <1>14 DEF PlanFacts
  <2>4. native' # None => \A n \in DOMAIN native'.rows : n \in DOMAIN trae.rows
    BY <1>1, <1>21 DEF Found
  <2> QED BY <1>1, <1>13, <1>14, <1>15, <2>1, <2>2, <2>3, <2>4 DEF PlanOK
<1>23. Forward'
  <2>1. TriedOK'
    BY <1>1, <1>13, <1>14 DEF TriedOK
  <2>2. ASSUME \E i \in DOMAIN todo : todo[i].do = "add", \A i \in DOMAIN todo : todo[i].do # "delete"
        PROVE  Name' \notin DOMAIN trae'.rows
    <3>1. PICK i \in DOMAIN todo : todo[i].do = "add"
      BY <2>2
    <3>2. todo[i] \in AppliesOf(plan, plan.was.task)
      BY <1>10, SeqElement
    <3>3. plan.created /\ plan.replaced = {}
      BY <1>10, <2>2, <3>1, <3>2 DEF AppliesOf
    <3> QED BY <1>1, <1>8, <1>14, <3>3 DEF PlanFacts
  <2>3. /\ todo \in Seq(AppliesOf(plan, trae.task)) /\ Ordered(todo)
        /\ Becomes(AimsOf(Name', trae.task), trae, todo, Switched(Name'))
        /\ plan.replaced # {} => \E i \in DOMAIN todo : todo[i].do = "delete"
    BY <1>10, <1>11, <1>14
  <2>4. /\ op'.todo \in Seq(AppliesOf(op'.plan, op'.task)) /\ Ordered(op'.todo)
        /\ Becomes(AimsOf(Name', op'.task), trae', op'.todo, Switched(Name'))
        /\ op'.plan.replaced # {} => \E i \in DOMAIN op'.todo : op'.todo[i].do = "delete"
    BY <1>1, <1>13, <2>3
  <2>5. (\E i \in DOMAIN op'.todo : op'.todo[i].do = "add") /\ (\A i \in DOMAIN op'.todo : op'.todo[i].do # "delete")
           => Name' \notin DOMAIN trae'.rows
    BY <1>13, <2>2
  <2>6. op'.phase = "apply" /\ op'.cp.pending /\ op'.cp.active = op'.old.active /\ op'.bad = {} /\ op'.tried = {}
        /\ trae'.task = op'.task
    BY <1>1, <1>9, <1>13
  <2> QED BY <2>1, <2>4, <2>5, <2>6 DEF Forward
<1>24. Backward' /\ Undone' /\ Returning' /\ Active'
  BY <1>13 DEF Backward, Undone, Returning, InRestore, Active
<1>25. Healthy'
  BY <1>9, <1>12, <1>19 DEF Healthy
<1>26. Accounted'
  <2> SUFFICES ASSUME Mishaps' <= 1, NEW n \in DOMAIN trae'.rows PROVE n[2] = 0 \/ Named(saved'.owned, n) # {}
    BY DEF Accounted
  <2>1. CASE saved = None
    <3>1. n \in Names /\ n \in DOMAIN trae.rows /\ past = {}
      BY <1>0, <1>1, <1>2, <2>1, StateFields DEF Held
    <3> QED BY <1>0, <3>1 DEF Names, Found, OnRecord
  <2>2. CASE saved # None
    BY <1>0, <1>1, <1>3, <1>6, <1>9, <1>12, <2>2 DEF Accounted
  <2> QED BY <2>1, <2>2
<1>27. WasActive'
  <2>1. Accidents = 0 => c.active \in DOMAIN trae.rows \cup {None}
    BY <1>0, <1>1, <1>3 DEF Active
  <2>2. Few => AloneIn(trae.rows, c.active)
    BY <1>0, <1>1, <1>3 DEF Active, AloneIn
  <2> QED BY <1>6, <1>13, <1>14, <2>1, <2>2 DEF WasActive
<1> QED BY <1>18, <1>20, <1>21, <1>22, <1>23, <1>24, <1>25, <1>26, <1>27 DEF IInv, Core

-----------------------------------------------------------------------------
(* The user, and the end of an operation *)

\* An operation has ended, or was stopped.
LEMMA Stopped ==
  ASSUME Assumptions, IInv, op.phase # "idle", op' = Idle, UNCHANGED <<trae, saved, past, binding, key, native>>, SpentGrows,
         op.phase \in {"apply", "review", "verify", "undo"} => spent'.crash = spent.crash + 1
  PROVE  Core'
<1>0. Typed /\ Held /\ Found /\ PlanOK /\ Forward /\ Backward /\ Accounted /\ Healthy /\ Active /\ WasActive /\ Lasting
  BY DEF IInv, Core
<1>1. trae \in States /\ spent \in Spents
  BY <1>0 DEF Typed
<1>2. /\ spent' \in Spents /\ spent'.call = spent.call
      /\ spent'.fault >= spent.fault /\ spent'.crash >= spent.crash /\ spent'.user >= spent.user
      /\ spent.fault \in Nat /\ spent.crash \in Nat /\ spent'.fault \in Nat /\ spent'.crash \in Nat
  BY <1>1 DEF SpentGrows, Spents
<1>3. op # Idle /\ saved # None
  BY <1>0 DEF Idle, Held
<1>4. op'.phase = "idle" /\ ~InSwitch' /\ ~InRestore'
  BY DEF Idle, InSwitch, InRestore
<1>5. Typed'
  BY <1>0, <1>2 DEF Typed
<1>6. Held'
  BY <1>0, <1>3, <1>4 DEF Held, Fits
<1>7. Found'
  BY <1>0, <1>2, FoundSame
<1>8. PlanOK' /\ Forward' /\ Backward' /\ Undone' /\ WasActive'
  BY <1>4, Over
<1>9. Returning'
  BY <1>4 DEF Returning
<1>10. Accounted'
  BY <1>0, <1>3, AccountedKept
<1>11. op.phase = "undo" => /\ InSwitch /\ saved.active = op.cp.active /\ saved.pending = op.cp.pending
                            /\ (~op.cp.pending => spent.fault >= 1 /\ op.cp.active = Name)
                            /\ (op.cp.pending => op.cp.active = op.old.active)
  BY <1>0, OpIs DEF Held, Backward
<1>12. Healthy'
  <2>1. CASE op.phase = "undo"
    <3>1. ~saved.pending => spent'.fault >= 1 /\ spent'.crash >= 1
      BY <1>2, <1>11, <2>1
    <3> QED BY <1>2, <1>3, <1>4, <3>1 DEF Healthy
  <2>2. CASE op.phase # "undo"
    BY <1>0, <2>2, HealthySame
  <2> QED BY <2>1, <2>2
<1>13. Active'
  <2>1. CASE op.phase \in {"apply", "review", "verify", "undo"}
    <3>1. /\ Accidents' >= Accidents + 1 /\ Accidents \in Nat /\ Accidents' \in Nat
          /\ Few' => spent.fault = 0 /\ OneFault
      BY <1>2, <2>1 DEF Accidents, Few, OneFault
    <3>2. ASSUME Few' PROVE AloneIn(trae.rows, saved.active)
      <4>1. spent.fault = 0 /\ OneFault /\ InSwitch /\ op.phase \in Working \cup {"undo"} /\ op \in SwitchOps
        BY <1>0, <2>1, <3>1, <3>2, OpIs DEF Working
      <4>2. saved.active = op.old.active
        <5>1. CASE op.phase = "undo"
          BY <1>11, <4>1, <5>1
        <5>2. CASE op.phase \in {"apply", "review", "verify"}
          BY <1>0, <4>1, <5>2 DEF Held, Forward, Working
        <5> QED BY <2>1, <5>1, <5>2
      <4>3. ActiveAlone
        BY <1>0, <4>1, ActiveStaysAlone
      <4>4. \A n \in DOMAIN trae.rows : n \in DOMAIN Was.rows \cup {Name}
        BY <1>0, <1>1, <4>1, StateFields DEF PlanOK
      <4> QED BY <4>2, <4>3, <4>4 DEF ActiveAlone, AloneIn
    <3> QED BY <3>1, <3>2 DEF Active, AloneIn
  <2>2. CASE op.phase \notin {"apply", "review", "verify", "undo"}
    BY <1>0, <1>3, <2>2, ActiveSame
  <2> QED BY <2>1, <2>2
<1> QED BY <1>5, <1>6, <1>7, <1>8, <1>9, <1>10, <1>12, <1>13 DEF IInv, Core

\* Another task is open, or nothing that the invariant is about has changed.
LEMMA Unmoved ==
  ASSUME Assumptions, IInv, trae' \in States, trae'.rows = trae.rows, trae'.chosen = trae.chosen, trae'.picks = trae.picks,
         UNCHANGED <<saved, past, op, native>>, binding' \in Bases \cup {None}, key' \in Keys, spent' \in Spents,
         spent'.call = spent.call, spent'.fault = spent.fault, spent'.crash = spent.crash, spent'.user >= spent.user,
         trae'.task # trae.task => spent'.user >= spent.user + 1
  PROVE  Core'
<1>0. Typed /\ Held /\ Found /\ PlanOK /\ Forward /\ Backward /\ Undone /\ Returning /\ Accounted /\ Healthy /\ Active /\ WasActive
  BY DEF IInv, Core
<1>1. trae \in States /\ spent \in Spents /\ SpentGrows
  BY <1>0, SpentIs DEF Typed, SpentGrows
<1>2. /\ Mishaps \in Nat /\ Mishaps' \in Nat /\ Mishaps' >= Mishaps /\ Accidents' = Accidents /\ Few' = Few
      /\ spent.user \in Nat /\ spent'.user \in Nat /\ spent.fault \in Nat
  BY <1>1, Grown, SpentIs DEF Accidents, Few, Spents
<1>3. Name' = Name /\ Was' = Was
  BY DEF Name, Was
<1>4. \A cell : Shown(trae', cell) = Shown(trae, cell)
  BY DEF Shown
<1>5. \A C, todo, w : Becomes(C, trae, todo, w) => Becomes(C, trae', todo, w)
  BY <1>4, BecomesSame
<1>6. Typed'
  BY <1>0 DEF Typed
<1>7. Held'
  BY <1>0 DEF Held, Fits, InSwitch, InRestore
<1>8. Found'
  BY <1>0, FoundSame
<1>9. PlanOK'
  <2>1. CASE InSwitch /\ op.phase \in Working \cup {"undo"}
    BY <1>0, <1>1, <2>1, PlanKept
  <2>2. CASE ~(InSwitch /\ op.phase \in Working \cup {"undo"})
    BY <2>2 DEF PlanOK, InSwitch
  <2> QED BY <2>1, <2>2
<1>10. Forward'
  <2> SUFFICES ASSUME InSwitch, op.phase \in Working PROVE Forward'
    BY DEF Forward, InSwitch
  <2>1. TriedOK'
    BY <1>0, <1>3 DEF Forward, TriedOK
  <2>2. Becomes(AimsOf(Name, op.task), trae', op.todo, Switched(Name))
    BY <1>0, <1>5 DEF Forward
  <2>3. (trae'.task # op.task => spent'.user >= 1) /\ (trae'.task # op.task /\ op.task # Was.task => spent'.user >= 2)
    BY <1>0, <1>2 DEF Forward, PlanOK
  <2>4. /\ op.todo \in Seq(AppliesOf(op.plan, op.task)) /\ Ordered(op.todo)
        /\ "add" \in op.tried /\ op.plan.replaced # {} => "delete" \in op.tried
        /\ op.plan.replaced # {} => "delete" \in op.tried \/ \E i \in DOMAIN op.todo : op.todo[i].do = "delete"
        /\ (\E i \in DOMAIN op.todo : op.todo[i].do = "add") /\ (\A i \in DOMAIN op.todo : op.todo[i].do # "delete") =>
             Name \notin DOMAIN trae'.rows
        /\ op.phase \in {"verify", "commit"} => op.todo = <<>>
        /\ op.phase # "commit" => op.cp.pending
        /\ op.phase = "commit" => ~op.cp.pending /\ op.cp.active = Name
        /\ op.phase # "commit" => op.cp.active = op.old.active
        /\ op.bad = {}
    BY <1>0 DEF Forward
  <2> QED BY <1>3, <2>1, <2>2, <2>3, <2>4 DEF Forward
<1>11. Backward'
  <2> SUFFICES ASSUME InSwitch, op.phase = "undo" PROVE Backward'
    BY DEF Backward, InSwitch
  <2>1. /\ op.bad = {} => Becomes(Cells, trae', op.todo, Was)
        /\ ~op.cp.pending /\ spent.fault <= 1 => Becomes(LabelCells \cup RowCells, trae', op.todo, Was)
        /\ Accidents = 0 => Becomes(RowCells, trae', op.todo, Was)
        /\ Few => Becomes(RowCells, trae', op.todo, Was) \/ ActiveAlone
    BY <1>0, <1>5 DEF Backward
  <2>2. /\ Mishaps' <= 1 => op.bad = {}
        /\ Mishaps' >= 1
        /\ op.task # Was.task => Mishaps' >= 2
    BY <1>0, <1>2 DEF Backward
  <2>3. /\ op.todo \in Seq(UndoesOf(op.plan, op.task, op.pick)) /\ Ordered(op.todo) /\ Covered(op.todo)
        /\ ~op.cp.pending => spent.fault >= 1 /\ op.cp.active = Name
        /\ op.cp.pending => op.cp.active = op.old.active
    BY <1>0 DEF Backward
  <2>4. ActiveAlone' <=> ActiveAlone
    BY <1>3 DEF ActiveAlone
  <2> QED BY <1>2, <1>3, <2>1, <2>2, <2>3, <2>4 DEF Backward
<1>12. Undone'
  BY <1>0, <1>3 DEF Undone, Same, Effective, InSwitch
<1>13. Returning'
  <2> SUFFICES ASSUME InRestore PROVE Returning'
    BY DEF Returning, InRestore
  <2>1. /\ op.phase = "restore" => Becomes(Defaults(op.cp), trae', op.todo, Native(op.cp))
        /\ op.phase \in {"release", "clean", "restored"} => Becomes(Defaults(op.cp), trae', <<>>, Native(op.cp))
        /\ op.phase = "again" /\ op.cp.active # None => Becomes(LabelCells, trae', op.todo, Reselected(op.cp.active))
    BY <1>0, <1>5 DEF Returning
  <2>2. /\ op.phase = "restore" => op.todo \in Seq(Selectings) /\ op.cp.pending
        /\ op.phase \in {"again", "release"} => op.cp.pending
        /\ op.phase = "again" =>
             /\ op.todo \in Seq(ReselectsOf(op.cp))
             /\ op.cp.active # None /\ op.todo = <<>> => op.cp.active \in DOMAIN trae'.rows
             /\ op.cp.active = None => op.todo = <<>>
        /\ op.phase = "clean" =>
             /\ op.todo \in Seq(RemovesOf(op.cp)) /\ op.cp.active = None
             /\ \A n \in DOMAIN trae'.rows : Named(op.cp.owned, n) # {} =>
                  n \in op.kept \/ \E i \in DOMAIN op.todo : op.todo[i].name = n
        /\ op.phase = "restored" => saved.active = None
    BY <1>0 DEF Returning
  <2> QED BY <2>1, <2>2 DEF Returning
<1>14. Accounted'
  <2>1. CASE saved = None
    BY <2>1 DEF Accounted
  <2>2. CASE saved # None
    BY <1>0, <1>1, <2>2, AccountedKept
  <2> QED BY <2>1, <2>2
<1>15. Healthy'
  BY <1>0 DEF Healthy
<1>16. Active'
  BY <1>0, <1>2 DEF Active, AloneIn
<1>17. WasActive'
  BY <1>0, <1>2, <1>3 DEF WasActive, InSwitch
<1> QED BY <1>6, <1>7, <1>8, <1>9, <1>10, <1>11, <1>12, <1>13, <1>14, <1>15, <1>16, <1>17 DEF IInv, Core

LEMMA ReturnedKeeps ==
  ASSUME Assumptions, IInv, Returned
  PROVE  Core'
<1>1. Typed /\ spent \in Spents
  BY DEF IInv, Core, Typed
<1>2. op.phase \in {"done", "failed", "unfinished", "restored"} /\ op' = Idle
      /\ UNCHANGED <<trae, saved, past, binding, key, native>> /\ spent' = spent
  BY DEF Returned
<1> QED BY <1>1, <1>2, UnspentGrows, Stopped

LEMMA CrashKeeps ==
  ASSUME Assumptions, IInv, Crash
  PROVE  Core'
<1>1. Typed /\ spent \in Spents
  BY DEF IInv, Core, Typed
<1>2. op.phase # "idle" /\ op' = Idle /\ UNCHANGED <<trae, saved, past, binding, key, native>> /\ Spend("crash")
  BY DEF Crash, Reached
<1>3. SpentGrows /\ spent'.crash = spent.crash + 1
  BY <1>1, <1>2, SpentIs DEF SpentGrows
<1> QED BY <1>2, <1>3, Stopped

LEMMA TaskOpenedKeeps ==
  ASSUME Assumptions, IInv, TaskOpened
  PROVE  Core'
<1>1. trae \in States /\ spent \in Spents /\ binding \in Bases \cup {None} /\ key \in Keys
  BY DEF IInv, Core, Typed
<1>2. PICK t \in Tasks : trae' = [trae EXCEPT !.task = t]
  BY DEF TaskOpened
<1>3. Spend("user") /\ UNCHANGED <<saved, past, binding, op, key, native>>
  BY DEF TaskOpened
<1>4. trae' \in States /\ trae'.rows = trae.rows /\ trae'.chosen = trae.chosen /\ trae'.picks = trae.picks
  BY <1>1, <1>2 DEF States
<1>5. /\ spent' \in Spents /\ spent'.fault = spent.fault /\ spent'.crash = spent.crash
      /\ spent'.user = spent.user + 1 /\ spent'.call = spent.call /\ spent.user \in Nat
  BY <1>1, <1>3, SpentIs
<1> QED BY <1>1, <1>3, <1>4, <1>5, Unmoved

LEMMA KeyReplacedKeeps ==
  ASSUME Assumptions, IInv, KeyReplaced
  PROVE  Core'
<1>1. trae \in States /\ spent \in Spents /\ binding \in Bases \cup {None} /\ key \in Keys
  BY DEF IInv, Core, Typed
<1>2. key' \in Keys /\ UNCHANGED <<trae, saved, past, binding, op, native, spent>>
  BY <1>1 DEF KeyReplaced, Keys, Assumptions
<1> QED BY <1>1, <1>2, SpentIs, Unmoved

LEMMA NothingKeeps ==
  ASSUME Assumptions, IInv, UNCHANGED vars
  PROVE  Core'
<1>1. trae \in States /\ spent \in Spents /\ binding \in Bases \cup {None} /\ key \in Keys
  BY DEF IInv, Core, Typed
<1>2. UNCHANGED <<trae, saved, past, binding, key, op, native, spent>>
  BY DEF vars
<1> QED BY <1>1, <1>2, SpentIs, Unmoved

LEMMA ModelChosenKeeps ==
  ASSUME Assumptions, IInv, ModelChosen
  PROVE  Core'
<1>0. Typed /\ Held /\ Found /\ Accounted /\ Healthy /\ Active
  BY DEF IInv, Core
<1>1. trae \in States /\ spent \in Spents
  BY <1>0 DEF Typed
<1>2. op.phase = "idle" /\ op = Idle /\ ~InSwitch /\ ~InRestore /\ Spend("user")
      /\ UNCHANGED <<saved, past, binding, op, key, native>>
  BY <1>0, OpIs DEF ModelChosen, Reached
<1>3. PICK l \in Labels, name \in Exists(trae.rows) : trae' = After(Select(l, name, NoTask))
  BY DEF ModelChosen
<1>4. name \in Selections /\ NoTask \notin Tasks
  BY <1>1, StateFields DEF Exists, Selections, Assumptions
<1> DEFINE c == Select(l, name, NoTask)
<1>5. c \in Commands /\ c.do = "select" /\ c.label = l /\ c.to = name /\ Selecting(c)
  BY <1>4, SelectIs DEF Select, Selecting
<1>6. trae' \in States /\ DOMAIN trae'.rows = DOMAIN trae.rows
  BY <1>1, <1>3, <1>5, AfterTyped, AfterRows
<1>7. \A m \in Labels : trae'.chosen[m] = IF m = l THEN name ELSE trae.chosen[m]
  <2>1. trae' = [trae EXCEPT !.chosen[l] = name, !.picks = [t \in Tasks |-> IF t = c.task THEN c.pick ELSE @[t]]]
    BY <1>3, <1>5 DEF After
  <2> QED BY <1>1, <2>1 DEF States
<1>8. /\ spent' \in Spents /\ spent'.fault = spent.fault /\ spent'.crash = spent.crash
      /\ spent'.user = spent.user + 1 /\ spent'.call = spent.call /\ spent.user \in Nat
  BY <1>1, <1>2, SpentIs
<1>9. SpentGrows /\ Accidents' = Accidents /\ Few' = Few
  BY <1>1, <1>8, SpentIs DEF SpentGrows, Accidents, Few
<1>10. Typed'
  BY <1>0, <1>2, <1>6, <1>8 DEF Typed
<1>11. Held'
  BY <1>0, <1>2 DEF Held, Fits, InSwitch, InRestore
<1>12. Found'
  BY <1>0, <1>2, <1>6, <1>8, FoundSame
<1>13. PlanOK' /\ Forward' /\ Backward' /\ Undone' /\ WasActive'
  BY <1>2, Over
<1>14. Returning'
  BY <1>2 DEF Returning, InRestore
<1>15. Accounted'
  <2>1. CASE saved = None
    BY <1>2, <2>1 DEF Accounted
  <2>2. CASE saved # None
    BY <1>0, <1>2, <1>6, <1>9, <2>2, AccountedKept
  <2> QED BY <2>1, <2>2
<1>16. Healthy'
  BY <1>0, <1>2, <1>3, <1>6, <1>7, <1>8 DEF Healthy, Exists
<1>17. Active'
  BY <1>0, <1>2, <1>6, <1>9 DEF Active, AloneIn
<1> QED BY <1>10, <1>11, <1>12, <1>13, <1>14, <1>15, <1>16, <1>17 DEF IInv, Core

-----------------------------------------------------------------------------
(* A restore *)

\* Nothing is said of a plan in a restore, and its checkpoints have the baseline.
LEMMA RestoreGoesOn ==
  ASSUME Assumptions, IInv, native # None, native' = native, past' = past, key' = key, op' \in RestoreOps, trae' \in States,
         spent' \in Spents, binding' \in Bases \cup {None}, saved' \in Cps, Fits(saved'), Fits(op'.cp),
         op'.phase \notin {"failed", "restored"} => saved' = op'.cp,
         Found', Returning', Accounted', Healthy', Active'
  PROVE  Core'
<1>1. op'.call = "restore" /\ op' # Idle
  BY DEF RestoreOps, Idle
<1>2. Typed'
  BY DEF IInv, Core, Typed
<1>3. Held'
  <2>1. Fits(saved)' /\ Fits(op.cp)'
    BY DEF Fits
  <2>2. saved' # None
    BY DEF Assumptions
  <2> QED BY <1>1, <2>1, <2>2 DEF Held, InSwitch, InRestore
<1>4. PlanOK' /\ Forward' /\ Backward' /\ Undone' /\ WasActive'
  BY <1>1 DEF PlanOK, Forward, Backward, Undone, WasActive, InSwitch
<1> QED BY <1>2, <1>3, <1>4 DEF IInv, Core

\* What a restore knows.
LEMMA RestoreFacts ==
  ASSUME Assumptions, IInv, InRestore
  PROVE  /\ Typed /\ Found /\ Returning /\ Accounted /\ Healthy /\ Active
         /\ op \in RestoreOps /\ trae \in States /\ spent \in Spents /\ saved \in Cps /\ saved # None
         /\ native # None /\ Fits(op.cp) /\ Fits(saved) /\ op.cp \in Cps /\ op.cp # None /\ binding \in Bases \cup {None}
         /\ op.phase \notin {"failed", "restored"} => saved = op.cp
<1>1. Typed /\ Held /\ Found /\ Returning /\ Accounted /\ Healthy /\ Active
  BY DEF IInv, Core
<1>2. op \in RestoreOps /\ op # Idle
  BY <1>1, OpIs
<1>3. trae \in States /\ spent \in Spents /\ saved \in Cps \cup {None} /\ binding \in Bases \cup {None}
  BY <1>1 DEF Typed
<1>4. op.cp \in Cps
  BY <1>2, RestoreFields
<1>5. op.cp # None
  BY <1>4 DEF Assumptions
<1>6. saved # None
  BY <1>1, <1>2 DEF Held
<1>7. Fits(op.cp) /\ Fits(saved) /\ (op.phase \notin {"failed", "restored"} => saved = op.cp)
  BY <1>1, <1>6 DEF Held
<1>8. native # None
  BY <1>7 DEF Fits
<1> QED BY <1>1, <1>2, <1>3, <1>4, <1>5, <1>6, <1>7, <1>8

LEMMA RestoreBeginsKeeps ==
  ASSUME Assumptions, IInv, RestoreBegins
  PROVE  Core'
<1>0. Typed /\ Held /\ Found /\ Accounted /\ Active
  BY DEF IInv, Core
<1>1. trae \in States /\ spent \in Spents /\ saved \in Cps \cup {None} /\ binding \in Bases \cup {None} /\ past \in SUBSET Rows
  BY <1>0 DEF Typed
<1>2. saved # None /\ op.phase = "idle" /\ Calls /\ UNCHANGED <<trae, past, binding, key, native>>
  BY DEF RestoreBegins, CanCall, Reached
<1>3. saved \in Cps /\ Fits(saved)
  BY <1>0, <1>1, <1>2 DEF Held
<1> DEFINE cp == [saved EXCEPT !.pending = TRUE]
<1>4. /\ cp \in Cps /\ cp.owned = saved.owned /\ cp.base = saved.base /\ cp.task = saved.task /\ cp.pick = saved.pick
      /\ cp.active = saved.active /\ cp.pending = TRUE
  BY <1>3 DEF Cps
<1>5. /\ op' = [call |-> "restore", phase |-> "restore", cp |-> cp, bound |-> binding, todo |-> Restoration(cp), kept |-> {}]
      /\ saved' = cp
  BY DEF RestoreBegins
<1> HIDE DEF cp
<1>6. /\ Restoration(cp) \in Seq(Selectings)
      /\ Becomes(Defaults(cp), trae, Restoration(cp), Native(cp))
  BY <1>4, RestorationIs
<1> DEFINE todo == Restoration(cp)
<1>7. todo \in Seq(Selectings) /\ Becomes(Defaults(cp), trae, todo, Native(cp))
      /\ op' = [call |-> "restore", phase |-> "restore", cp |-> cp, bound |-> binding, todo |-> todo, kept |-> {}]
  BY <1>5, <1>6
<1> HIDE DEF todo
<1>8. todo \in Seq(Commands)
  BY <1>7 DEF Commands
<1>9. op' \in RestoreOps
  BY <1>1, <1>4, <1>7, <1>8 DEF RestoreOps, RestorePhases
<1>10. op'.call = "restore" /\ op'.phase = "restore" /\ op'.cp = cp /\ op'.todo = todo
  BY <1>7
<1>11. /\ spent' \in Spents /\ spent'.fault = spent.fault /\ spent'.crash = spent.crash
       /\ spent'.user = spent.user /\ spent'.call = spent.call + 1 /\ spent.call < MaxCalls /\ spent.call \in Nat
  BY <1>1, <1>2, SpentIs
<1>12. Fits(cp) /\ native # None
  BY <1>3, <1>4 DEF Fits
<1>13. Found'
  <2>1. \A r \in past' : r.name[2] \in 1 .. spent'.call
    BY <1>0, <1>2, <1>11 DEF Found
  <2>2. OnRecord'
    BY <1>0, <1>2 DEF Found, OnRecord
  <2> QED BY <1>0, <1>2, <1>11, <2>1, <2>2 DEF Found, Assumptions
<1>14. Returning'
  BY <1>2, <1>4, <1>7, <1>10 DEF Returning
<1>15. Accounted'
  BY <1>0, <1>2, <1>4, <1>5, <1>11 DEF Accounted, Mishaps
<1>16. Healthy'
  <2>1. saved' # None
    BY <1>4, <1>5 DEF Assumptions
  <2> QED BY <1>4, <1>5, <2>1 DEF Healthy
<1>17. Active'
  BY <1>0, <1>2, <1>4, <1>5, <1>11 DEF Active, Accidents, Few, AloneIn
<1>18. saved' \in Cps /\ Fits(saved') /\ Fits(op'.cp) /\ saved' = op'.cp
  BY <1>4, <1>5, <1>10, <1>12
<1> QED BY <1>1, <1>2, <1>9, <1>11, <1>12, <1>13, <1>14, <1>15, <1>16, <1>17, <1>18, RestoreGoesOn

\* A call that selects leaves the rows and what depends on them alone.
LEMMA Selected ==
  ASSUME Assumptions, IInv, InRestore, op.phase \notin {"failed", "restored"}, op' \in RestoreOps, op'.cp = op.cp,
         trae' \in States, DOMAIN trae'.rows = DOMAIN trae.rows, op.cp.pending, SpentGrows,
         UNCHANGED <<saved, past, binding, key, native>>, Returning'
  PROVE  Core'
<1>0. /\ Typed /\ Found /\ Returning /\ Accounted /\ Healthy /\ Active
      /\ op \in RestoreOps /\ trae \in States /\ spent \in Spents /\ saved \in Cps /\ saved # None
      /\ native # None /\ Fits(op.cp) /\ op.cp \in Cps /\ binding \in Bases \cup {None} /\ saved = op.cp
  BY RestoreFacts
<1>1. Found'
  BY <1>0, FoundSame DEF SpentGrows
<1>2. Accounted'
  BY <1>0, AccountedKept
<1>3. Healthy'
  BY <1>0 DEF Healthy
<1>4. op.phase \notin {"apply", "review", "verify", "undo"}
  BY <1>0, RestoreFields DEF RestorePhases
<1>5. Active'
  BY <1>0, <1>4, ActiveSame
<1> QED BY <1>0, <1>1, <1>2, <1>3, <1>5, RestoreGoesOn DEF SpentGrows

\* One call that selects, whether or not it succeeds.
LEMMA SelectAnswered ==
  ASSUME trae \in States, spent \in Spents, NEW c \in Selectings, NEW ok \in BOOLEAN, Answered(c, ok)
  PROVE  /\ trae' \in States /\ DOMAIN trae'.rows = DOMAIN trae.rows /\ SpentGrows
         /\ ok => Did(trae', trae, c) /\ Accepts(c)
<1>1. c \in Commands /\ c.do # "add" /\ c.do # "delete"
  BY DEF Commands, Selectings
<1>2. DOMAIN After(c).rows = DOMAIN trae.rows
  BY <1>1, AfterRows
<1>3. CASE ok = TRUE
  <2>1. Answered(c, TRUE)
    BY <1>3
  <2>2. /\ trae' \in States /\ Did(trae', trae, c) /\ DOMAIN trae'.rows = DOMAIN After(c).rows
        /\ Accepts(c) /\ spent' = spent
    BY <1>1, <2>1, AnsweredTrue
  <2> QED BY <1>2, <2>2, UnspentGrows
<1>4. CASE ok = FALSE
  <2>1. Answered(c, FALSE)
    BY <1>4
  <2>2. /\ trae' \in States
        /\ trae' = trae \/ DOMAIN trae'.rows = DOMAIN After(c).rows
        /\ ~Fault => spent' = spent
    BY <1>1, <2>1, AnsweredFalse
  <2>3. SpentGrows
    BY <2>2, UnspentGrows, FaultGrows
  <2> QED BY <1>2, <1>4, <2>2, <2>3
<1> QED BY <1>3, <1>4

LEMMA RestoringKeeps ==
  ASSUME Assumptions, IInv, Restoring
  PROVE  Core'
<1>1. op.phase = "restore" /\ op.todo # <<>> /\ UNCHANGED <<saved, past, binding, key, native>>
  BY DEF Restoring, Reached
<1>2. InRestore
  BY <1>1, OpIs DEF IInv, Core
<1>3. /\ Returning /\ op \in RestoreOps /\ trae \in States /\ spent \in Spents /\ op.cp \in Cps
  BY <1>2, RestoreFacts
<1>4. op.todo \in Seq(Selectings) /\ Becomes(Defaults(op.cp), trae, op.todo, Native(op.cp)) /\ op.cp.pending
  BY <1>1, <1>2, <1>3 DEF Returning
<1> DEFINE c == Head(op.todo)
<1>5. c \in Selectings /\ Tail(op.todo) \in Seq(Selectings) /\ Tail(op.todo) \in Seq(Commands)
  BY <1>1, <1>4, SeqHead DEF Commands
<1>6. PICK ok \in BOOLEAN :
        /\ Answered(c, ok)
        /\ op' = IF ok THEN [op EXCEPT !.todo = Tail(op.todo)] ELSE [op EXCEPT !.phase = "failed"]
  BY DEF Restoring
<1>7. /\ trae' \in States /\ DOMAIN trae'.rows = DOMAIN trae.rows /\ SpentGrows
      /\ ok => Did(trae', trae, c)
  BY <1>3, <1>5, <1>6, SelectAnswered
<1>8. CASE ok
  <2>1. op' = [op EXCEPT !.todo = Tail(op.todo)] /\ Did(trae', trae, c)
    BY <1>6, <1>7, <1>8
  <2>2. op' \in RestoreOps
    BY <1>3, <1>5, <2>1 DEF RestoreOps
  <2>3. op'.phase = "restore" /\ op'.cp = op.cp /\ op'.todo = Tail(op.todo)
    BY <1>1, <1>3, <2>1 DEF RestoreOps
  <2>4. Defaults(op.cp) \in SUBSET Cells
    BY DEF Defaults, Cells
  <2>5. Becomes(Defaults(op.cp), trae', Tail(op.todo), Native(op.cp))
    BY <1>1, <1>4, <2>1, <2>4, BecomesStep
  <2>6. Returning'
    BY <1>4, <1>5, <2>3, <2>5 DEF Returning
  <2> QED BY <1>1, <1>2, <1>4, <1>7, <2>2, <2>3, <2>6, Selected
<1>9. CASE ~ok
  <2>1. op' = [op EXCEPT !.phase = "failed"]
    BY <1>6, <1>9
  <2>2. op' \in RestoreOps
    BY <1>3, <2>1 DEF RestoreOps, RestorePhases
  <2>3. op'.phase = "failed" /\ op'.cp = op.cp
    BY <1>3, <2>1 DEF RestoreOps
  <2>4. Returning'
    BY <2>3 DEF Returning
  <2> QED BY <1>1, <1>2, <1>4, <1>7, <2>2, <2>3, <2>4, Selected
<1> QED BY <1>8, <1>9

LEMMA ForgottenKeeps ==
  ASSUME Assumptions, IInv, Forgotten
  PROVE  Core'
<1>1. op.phase = "restore" /\ op.todo = <<>> /\ UNCHANGED <<trae, saved, past, key, native>>
  BY DEF Forgotten, Reached
<1>2. InRestore
  BY <1>1, OpIs DEF IInv, Core
<1>3. /\ Returning /\ op \in RestoreOps /\ trae \in States /\ spent \in Spents /\ op.cp \in Cps /\ op.cp # None
      /\ Typed /\ Found /\ Accounted /\ Active /\ saved \in Cps /\ saved = op.cp /\ native # None /\ Fits(op.cp) /\ saved # None
      /\ binding \in Bases \cup {None}
  BY <1>1, <1>2, RestoreFacts
<1>4. Becomes(Defaults(op.cp), trae, <<>>, Native(op.cp)) /\ op.cp.pending
  BY <1>1, <1>2, <1>3 DEF Returning
<1>5. CASE binding' = None /\ op' = [op EXCEPT !.phase = "release"] /\ UNCHANGED spent
  <2>1. op' \in RestoreOps
    BY <1>3, <1>5 DEF RestoreOps, RestorePhases
  <2>2. op'.phase = "release" /\ op'.cp = op.cp
    BY <1>3, <1>5 DEF RestoreOps
  <2>3. SpentGrows
    BY <1>3, <1>5, UnspentGrows
  <2>4. Returning'
    BY <1>1, <1>4, <2>2 DEF Returning
  <2>5. Found' /\ Accounted' /\ Active'
    BY <1>1, <1>3, <1>5, <2>2, <2>3, FoundSame, AccountedKept, ActiveSame
  <2>6. Healthy'
    BY <1>1, <1>3, <1>4 DEF Healthy
  <2> QED BY <1>1, <1>3, <1>5, <2>1, <2>2, <2>4, <2>5, <2>6, RestoreGoesOn
<1>6. CASE /\ Fault /\ UNCHANGED binding
           /\ op' = [op EXCEPT !.phase = "again",
                               !.todo = IF op.cp.active = None THEN <<>>
                                        ELSE <<Select(Primary, op.cp.active, NoTask)>> \o
                                             [i \in DOMAIN Extras |-> Select(Extras[i], op.cp.active, NoTask)]]
  <2>1. PICK todo : /\ op' = [op EXCEPT !.phase = "again", !.todo = todo]
                    /\ todo = IF op.cp.active = None THEN <<>>
                              ELSE <<Select(Primary, op.cp.active, NoTask)>> \o
                                   [i \in DOMAIN Extras |-> Select(Extras[i], op.cp.active, NoTask)]
    BY <1>6
  <2>2. /\ todo \in Seq(ReselectsOf(op.cp))
        /\ op.cp.active = None => todo = <<>>
        /\ op.cp.active # None => todo # <<>> /\ Becomes(LabelCells, trae, todo, Reselected(op.cp.active))
    <3>1. CASE op.cp.active = None
      BY <2>1, <3>1
    <3>2. CASE op.cp.active # None
      BY <1>3, <2>1, <3>2, ReselectionIs
    <3> QED BY <3>1, <3>2
  <2>3. todo \in Seq(Commands)
    <3>1. ReselectsOf(op.cp) \subseteq Commands
      BY DEF ReselectsOf, Commands
    <3> QED BY <2>2, <3>1
  <2>4. op' \in RestoreOps
    BY <1>3, <2>1, <2>3 DEF RestoreOps, RestorePhases
  <2>5. op'.phase = "again" /\ op'.cp = op.cp /\ op'.todo = todo
    BY <1>3, <2>1 DEF RestoreOps
  <2>6. SpentGrows
    BY <1>3, <1>6, FaultGrows
  <2>7. Returning'
    BY <1>1, <1>4, <2>2, <2>5 DEF Returning
  <2> QED BY <1>1, <1>2, <1>3, <1>4, <1>6, <2>4, <2>5, <2>6, <2>7, Selected
<1> QED BY <1>5, <1>6 DEF Forgotten

\* What is a sequence over some set is one over a wider set.
LEMMA SeqWider == ASSUME NEW S, NEW T, S \subseteq T, NEW s, s \in Seq(S) PROVE s \in Seq(T)
OBVIOUS

LEMMA ReselectingKeeps ==
  ASSUME Assumptions, IInv, Reselecting
  PROVE  Core'
<1>1. op.phase = "again" /\ UNCHANGED <<binding, key, native>>
  BY DEF Reselecting, Reached
<1>2. InRestore
  BY <1>1, OpIs DEF IInv, Core
<1>3. /\ Returning /\ op \in RestoreOps /\ trae \in States /\ spent \in Spents /\ op.cp \in Cps /\ op.cp # None
      /\ Typed /\ Found /\ Accounted /\ Active /\ saved \in Cps /\ saved = op.cp /\ native # None /\ Fits(op.cp) /\ saved # None
      /\ binding \in Bases \cup {None}
  BY <1>1, <1>2, RestoreFacts
<1>4. /\ op.todo \in Seq(ReselectsOf(op.cp)) /\ op.cp.pending
      /\ op.cp.active # None => Becomes(LabelCells, trae, op.todo, Reselected(op.cp.active))
      /\ op.cp.active # None /\ op.todo = <<>> => op.cp.active \in DOMAIN trae.rows
      /\ op.cp.active = None => op.todo = <<>>
  BY <1>1, <1>2, <1>3 DEF Returning
<1>5. ASSUME op.todo # <<>>, past' = past, saved' = saved, NEW ok \in BOOLEAN, Answered(Head(op.todo), ok),
             op' = IF ok THEN [op EXCEPT !.todo = Tail(op.todo)] ELSE [op EXCEPT !.phase = "failed"]
      PROVE  Core'
  <2> DEFINE c == Head(op.todo)
  <2>1. c \in ReselectsOf(op.cp) /\ Tail(op.todo) \in Seq(ReselectsOf(op.cp))
    BY <1>4, <1>5, SeqHead
  <2>2. c \in Selectings /\ c.do = "select" /\ c.to = op.cp.active /\ op.cp.active # None
    BY <2>1 DEF ReselectsOf
  <2>3. Tail(op.todo) \in Seq(Commands)
    <3>1. ReselectsOf(op.cp) \subseteq Commands
      BY DEF ReselectsOf, Commands
    <3> QED BY <2>1, <3>1, SeqWider
  <2>4. /\ trae' \in States /\ DOMAIN trae'.rows = DOMAIN trae.rows /\ SpentGrows
        /\ ok => Did(trae', trae, c) /\ Accepts(c)
    BY <1>3, <1>5, <2>2, SelectAnswered
  <2>5. CASE ok
    <3>1. op' = [op EXCEPT !.todo = Tail(op.todo)] /\ Did(trae', trae, c) /\ Accepts(c)
      BY <1>5, <2>4, <2>5
    <3>2. op' \in RestoreOps
      BY <1>3, <2>3, <3>1 DEF RestoreOps
    <3>3. op'.phase = "again" /\ op'.cp = op.cp /\ op'.todo = Tail(op.todo)
      BY <1>1, <1>3, <3>1 DEF RestoreOps
    <3>4. op.cp.active \in DOMAIN trae.rows
      <4>1. op.cp.active \in Names
        BY <1>3, <2>2, CpFields
      <4>2. op.cp.active \in Exists(trae.rows)
        BY <2>2, <3>1 DEF Accepts
      <4> QED BY <4>1, <4>2 DEF Exists, Assumptions
    <3>5. LabelCells \in SUBSET Cells
      BY DEF Cells
    <3>6. Becomes(LabelCells, trae', Tail(op.todo), Reselected(op.cp.active))
      BY <1>4, <1>5, <2>2, <3>1, <3>5, BecomesStep
    <3>7. Returning'
      BY <1>4, <2>1, <2>2, <2>4, <3>3, <3>4, <3>6 DEF Returning
    <3> QED BY <1>1, <1>2, <1>4, <1>5, <2>4, <3>2, <3>3, <3>7, Selected
  <2>6. CASE ~ok
    <3>1. op' = [op EXCEPT !.phase = "failed"]
      BY <1>5, <2>6
    <3>2. op' \in RestoreOps
      BY <1>3, <3>1 DEF RestoreOps, RestorePhases
    <3>3. op'.phase = "failed" /\ op'.cp = op.cp
      BY <1>3, <3>1 DEF RestoreOps
    <3>4. Returning'
      BY <3>3 DEF Returning
    <3> QED BY <1>1, <1>2, <1>4, <1>5, <2>4, <3>2, <3>3, <3>4, Selected
  <2> QED BY <2>5, <2>6
<1>6. ASSUME op.todo = <<>>, op' = [op EXCEPT !.phase = "failed"], trae' = trae,
             Saves([op.cp EXCEPT !.pending = FALSE]) \/ SaveFails
      PROVE  Core'
  <2>1. op' \in RestoreOps
    BY <1>3, <1>6 DEF RestoreOps, RestorePhases
  <2>2. op'.phase = "failed" /\ op'.cp = op.cp
    BY <1>3, <1>6 DEF RestoreOps
  <2>3. Returning'
    BY <2>2 DEF Returning
  <2>4. CASE SaveFails
    <3>1. SpentGrows /\ UNCHANGED <<saved, past>>
      BY <1>3, <2>4, FaultGrows DEF SaveFails
    <3> QED BY <1>1, <1>2, <1>3, <1>4, <1>6, <2>1, <2>2, <2>3, <3>1, Selected
  <2>5. CASE Saves([op.cp EXCEPT !.pending = FALSE])
    <3>1. PICK cp : cp = [op.cp EXCEPT !.pending = FALSE]
      OBVIOUS
    <3>2. /\ cp \in Cps /\ cp.owned = op.cp.owned /\ cp.base = op.cp.base /\ cp.task = op.cp.task /\ cp.pick = op.cp.pick
          /\ cp.active = op.cp.active
      BY <1>3, <3>1 DEF Cps
    <3>3. saved' = cp /\ past' = past \cup cp.owned /\ spent' = spent
      BY <2>5, <3>1 DEF Saves, Stored
    <3>4. Fits(cp) /\ past' = past
      BY <1>3, <3>2, <3>3 DEF Fits
    <3>5. SpentGrows
      BY <1>3, <3>3, UnspentGrows
    <3>6. Found' /\ Accounted' /\ Active'
      BY <1>1, <1>3, <1>6, <3>2, <3>3, <3>4, <3>5, FoundSame, AccountedKept, ActiveSame
    <3>7. Healthy'
      <4>1. ASSUME op.cp.active # None, NEW l \in Labels PROVE trae.chosen[l] = op.cp.active /\ op.cp.active \in DOMAIN trae.rows
        <5>1. Becomes(LabelCells, trae, <<>>, Reselected(op.cp.active))
          BY <1>4, <1>6, <4>1
        <5>2. trae.chosen[l] = Reselected(op.cp.active).chosen[l]
          BY <1>3, <4>1, <5>1, LabelsAlike
        <5> QED BY <1>4, <1>6, <4>1, <5>2 DEF Reselected
      <4>2. saved' # None
        BY <3>2, <3>3 DEF Assumptions
      <4> QED BY <1>6, <3>2, <3>3, <4>1, <4>2 DEF Healthy, Exists
    <3> QED BY <1>1, <1>3, <1>6, <2>1, <2>2, <2>3, <3>2, <3>3, <3>4, <3>6, <3>7, RestoreGoesOn
  <2> QED BY <1>6, <2>4, <2>5
<1>7. \/ op.todo # <<>> /\ past' = past /\ Answered(Head(op.todo), TRUE) /\ op' = [op EXCEPT !.todo = Tail(op.todo)] /\ saved' = saved
      \/ op.todo # <<>> /\ past' = past /\ Answered(Head(op.todo), FALSE) /\ op' = [op EXCEPT !.phase = "failed"] /\ saved' = saved
      \/ op.todo = <<>> /\ op' = [op EXCEPT !.phase = "failed"] /\ trae' = trae /\ (Saves([op.cp EXCEPT !.pending = FALSE]) \/ SaveFails)
  BY DEF Reselecting
<1> QED BY <1>5, <1>6, <1>7

LEMMA ReleasedKeeps ==
  ASSUME Assumptions, IInv, Released
  PROVE  Core'
<1>1. op.phase = "release" /\ UNCHANGED <<trae, key, native>>
  BY DEF Released, Reached
<1>2. InRestore
  BY <1>1, OpIs DEF IInv, Core
<1>3. /\ Returning /\ op \in RestoreOps /\ trae \in States /\ spent \in Spents /\ op.cp \in Cps /\ op.cp # None
      /\ Typed /\ Found /\ Accounted /\ Active /\ saved \in Cps /\ saved = op.cp /\ native # None /\ Fits(op.cp) /\ saved # None
      /\ binding \in Bases \cup {None}
  BY <1>1, <1>2, RestoreFacts
<1>4. Becomes(Defaults(op.cp), trae, <<>>, Native(op.cp)) /\ op.cp.pending
  BY <1>1, <1>2, <1>3 DEF Returning
<1>5. PICK cp : cp = [op.cp EXCEPT !.active = None, !.borrowed = {}]
  OBVIOUS
<1>6. /\ cp \in Cps /\ cp.owned = op.cp.owned /\ cp.base = op.cp.base /\ cp.task = op.cp.task /\ cp.pick = op.cp.pick
      /\ cp.active = None /\ cp.pending
  BY <1>3, <1>4, <1>5 DEF Cps
<1>10. PICK names : names = SetToSeq(NamesOf(cp.owned))
  OBVIOUS
<1>11. PICK todo : todo = DeletesOf(names)
  OBVIOUS
<1>7. \/ /\ Saves(cp) /\ UNCHANGED binding
         /\ op' = [op EXCEPT !.phase = "clean", !.cp = cp, !.todo = todo]
      \/ SaveFails /\ binding' = op.bound /\ op' = [op EXCEPT !.phase = "failed"]
  BY <1>5, <1>10, <1>11 DEF Released, NamesOf, DeletesOf
<1>8. CASE Saves(cp) /\ UNCHANGED binding /\ op' = [op EXCEPT !.phase = "clean", !.cp = cp, !.todo = todo]
  <2>1. /\ todo \in Seq(RemovesOf(cp))
        /\ \A n : Named(cp.owned, n) # {} => \E i \in DOMAIN todo : todo[i].name = n
    <3>1. cp \in Cps
      BY <1>6
    <3>2. todo \in Seq(RemovesOf(cp))
      BY <3>1, <1>10, <1>11, RemovalIs
    <3>3. RemovesAll(cp.owned, todo)
      BY <3>1, <1>10, <1>11, RemovalIs
    <3> QED BY <3>2, <3>3 DEF RemovesAll
  <2>2. todo \in Seq(Commands)
    <3>1. RemovesOf(cp) \subseteq Commands
      BY DEF RemovesOf, Commands
    <3> QED BY <2>1, <3>1
  <2>3. op' \in RestoreOps
    BY <1>3, <1>6, <1>8, <2>2 DEF RestoreOps, RestorePhases
  <2>4. op'.phase = "clean" /\ op'.cp = cp /\ op'.todo = todo
    BY <1>3, <1>8 DEF RestoreOps
  <2>5. saved' = cp /\ past' = past \cup cp.owned /\ spent' = spent
    BY <1>8 DEF Saves, Stored
  <2>6. Fits(cp) /\ past' = past
    BY <1>3, <1>6, <2>5 DEF Fits
  <2>7. SpentGrows
    BY <1>3, <2>5, UnspentGrows
  <2>8. Found' /\ Accounted'
    BY <1>1, <1>3, <1>6, <2>5, <2>6, <2>7, FoundSame, AccountedKept
  <2>9. Healthy' /\ Active'
    <3>1. saved' # None
      BY <1>6, <2>5 DEF Assumptions
    <3> QED BY <1>6, <2>5, <3>1 DEF Healthy, Active, AloneIn
  <2>10. Returning'
    <3>1. Defaults(cp) = Defaults(op.cp) /\ Native(cp) = Native(op.cp)
      BY <1>6 DEF Defaults, Native
    <3>2. Becomes(Defaults(cp), trae', <<>>, Native(cp))
      BY <1>1, <1>4, <3>1
    <3> QED BY <1>6, <2>1, <2>4, <3>2 DEF Returning
  <2> QED BY <1>1, <1>3, <1>6, <1>8, <2>3, <2>4, <2>5, <2>6, <2>8, <2>9, <2>10, RestoreGoesOn
<1>9. CASE SaveFails /\ binding' = op.bound /\ op' = [op EXCEPT !.phase = "failed"]
  <2>1. op' \in RestoreOps
    BY <1>3, <1>9 DEF RestoreOps, RestorePhases
  <2>2. op'.phase = "failed" /\ op'.cp = op.cp
    BY <1>3, <1>9 DEF RestoreOps
  <2>3. Returning'
    BY <2>2 DEF Returning
  <2>4. SpentGrows /\ UNCHANGED <<saved, past>>
    BY <1>3, <1>9, FaultGrows DEF SaveFails
  <2>5. Found' /\ Accounted' /\ Active'
    BY <1>1, <1>3, <2>4, FoundSame, AccountedKept, ActiveSame DEF SpentGrows
  <2>6. Healthy'
    BY <1>3, <1>4, <2>4 DEF Healthy
  <2>7. binding' \in Bases \cup {None}
    BY <1>3, <1>9, RestoreFields
  <2> QED BY <1>1, <1>3, <2>1, <2>2, <2>3, <2>4, <2>5, <2>6, <2>7, RestoreGoesOn DEF SpentGrows
<1> QED BY <1>7, <1>8, <1>9

LEMMA CleaningKeeps ==
  ASSUME Assumptions, IInv, Cleaning
  PROVE  Core'
<1>1. op.phase = "clean" /\ op.todo # <<>> /\ UNCHANGED <<saved, past, binding, key, native>>
  BY DEF Cleaning, Reached
<1>2. InRestore
  BY <1>1, OpIs DEF IInv, Core
<1>3. /\ Returning /\ op \in RestoreOps /\ trae \in States /\ spent \in Spents /\ op.cp \in Cps /\ op.cp # None
      /\ Typed /\ Found /\ Accounted /\ saved \in Cps /\ saved = op.cp /\ native # None /\ Fits(op.cp) /\ saved # None
      /\ binding \in Bases \cup {None}
  BY <1>1, <1>2, RestoreFacts
<1>4. /\ Becomes(Defaults(op.cp), trae, <<>>, Native(op.cp))
      /\ op.todo \in Seq(RemovesOf(op.cp)) /\ op.cp.active = None
      /\ \A n \in DOMAIN trae.rows : Named(op.cp.owned, n) # {} =>
           n \in op.kept \/ \E i \in DOMAIN op.todo : op.todo[i].name = n
  BY <1>1, <1>2, <1>3 DEF Returning
<1> DEFINE c == Head(op.todo)
<1>5. PICK ok \in BOOLEAN :
        /\ Answered(c, ok)
        /\ op' = [op EXCEPT !.todo = Tail(op.todo), !.kept = IF ok THEN op.kept ELSE op.kept \cup {c.name}]
  BY DEF Cleaning
<1>6. /\ c = op.todo[1] /\ c \in RemovesOf(op.cp) /\ Tail(op.todo) \in Seq(RemovesOf(op.cp))
      /\ \A j \in DOMAIN op.todo : j = 1 \/ (j - 1 \in DOMAIN Tail(op.todo) /\ Tail(op.todo)[j - 1] = op.todo[j])
  BY <1>1, <1>4, SeqHead
<1>7. c \in Deletings /\ c.do = "delete" /\ c.name \in Names /\ c \in Commands /\ \E r \in op.cp.owned : r.name = c.name
  BY <1>6 DEF RemovesOf, Deletings, Commands
<1>8. Tail(op.todo) \in Seq(Commands)
  <2>1. RemovesOf(op.cp) \subseteq Commands
    BY DEF RemovesOf, Commands
  <2> QED BY <1>6, <2>1, SeqWider
<1>9. c.name[2] # 0
  <2>1. PICK r \in op.cp.owned : r.name = c.name
    BY <1>7
  <2>2. r \in past
    BY <1>3, <2>1 DEF Fits
  <2> QED BY <1>3, <2>1, <2>2, HistoryNumbered
<1> HIDE DEF c
<1>10. DOMAIN After(c).rows = DOMAIN trae.rows \ {c.name}
  BY <1>3, <1>7, AfterRows
<1>11. /\ trae' \in States /\ SpentGrows
       /\ trae' = trae \/ (Did(trae', trae, c) /\ DOMAIN trae'.rows = DOMAIN After(c).rows /\ Accepts(c))
       /\ ok => DOMAIN trae'.rows = DOMAIN trae.rows \ {c.name}
  <2>1. CASE ok = TRUE
    <3>1. Answered(c, TRUE)
      BY <1>5, <2>1
    <3>2. /\ trae' \in States /\ Did(trae', trae, c) /\ DOMAIN trae'.rows = DOMAIN After(c).rows
          /\ Accepts(c) /\ spent' = spent
      BY <1>3, <1>7, <3>1, AnsweredTrue
    <3> QED BY <1>3, <1>10, <3>2, UnspentGrows
  <2>2. CASE ok = FALSE
    <3>1. Answered(c, FALSE)
      BY <1>5, <2>2
    <3>2. /\ trae' \in States
          /\ trae' = trae \/ (Did(trae', trae, c) /\ DOMAIN trae'.rows = DOMAIN After(c).rows /\ Accepts(c))
          /\ ~Fault => spent' = spent
      BY <1>3, <1>7, <3>1, AnsweredFalse
    <3>3. SpentGrows
      BY <1>3, <3>2, UnspentGrows, FaultGrows
    <3> QED BY <2>2, <3>2, <3>3
  <2> QED BY <2>1, <2>2
<1>12. op' \in RestoreOps
  <2>1. (IF ok THEN op.kept ELSE op.kept \cup {c.name}) \in SUBSET Names
    BY <1>3, <1>7, RestoreFields
  <2> QED BY <1>3, <1>5, <1>8, <2>1 DEF RestoreOps
<1>13. /\ op'.phase = "clean" /\ op'.cp = op.cp /\ op'.todo = Tail(op.todo)
       /\ op'.kept = IF ok THEN op.kept ELSE op.kept \cup {c.name}
  BY <1>1, <1>3, <1>5 DEF RestoreOps
<1>14. \A n \in DOMAIN trae'.rows : n \in DOMAIN trae.rows /\ (n # c.name \/ ~ok)
  BY <1>10, <1>11
<1>15. Found'
  BY <1>1, <1>3, <1>7, <1>9, <1>11, FoundKept DEF SpentGrows
<1>16. Accounted'
  BY <1>1, <1>3, <1>11, <1>14, AccountedKept
<1>17. Healthy' /\ Active'
  BY <1>1, <1>3, <1>4 DEF Healthy, Active, AloneIn
<1>18. Returning'
  <2>1. Becomes(Defaults(op.cp), trae', <<>>, Native(op.cp))
    <3> SUFFICES ASSUME NEW cell \in Defaults(op.cp) PROVE Shown(trae', cell) = Shown(trae, cell)
      BY <1>4, BecomesSame
    <3>1. cell \in Cells /\ cell[1] # "row"
      BY DEF Defaults, Cells, LabelCells, TaskCells
    <3>2. ~Writes(c, cell)
      BY <1>7, <3>1, SelectWrites
    <3> QED BY <1>11, <3>1, <3>2 DEF Did
  <2>2. ASSUME NEW n \in DOMAIN trae'.rows, Named(op.cp.owned, n) # {}
        PROVE  n \in op'.kept \/ \E i \in DOMAIN op'.todo : op'.todo[i].name = n
    <3>1. n \in op.kept \/ \E i \in DOMAIN op.todo : op.todo[i].name = n
      BY <1>4, <1>14, <2>2
    <3>2. CASE n \in op.kept
      BY <1>13, <3>2
    <3>3. ASSUME NEW i \in DOMAIN op.todo, op.todo[i].name = n PROVE n \in op'.kept \/ \E j \in DOMAIN op'.todo : op'.todo[j].name = n
      BY <1>6, <1>13, <1>14, <2>2, <3>3
    <3> QED BY <3>1, <3>2, <3>3
  <2> QED BY <1>4, <1>6, <1>13, <2>1, <2>2 DEF Returning
<1> QED BY <1>1, <1>3, <1>11, <1>12, <1>13, <1>15, <1>16, <1>17, <1>18, RestoreGoesOn DEF SpentGrows

LEMMA CleanedKeeps ==
  ASSUME Assumptions, IInv, Cleaned
  PROVE  Core'
<1>1. op.phase = "clean" /\ op.todo = <<>> /\ UNCHANGED <<trae, key, native>>
  BY DEF Cleaned, Reached
<1>2. InRestore
  BY <1>1, OpIs DEF IInv, Core
<1>3. /\ Returning /\ op \in RestoreOps /\ trae \in States /\ spent \in Spents /\ op.cp \in Cps /\ op.cp # None
      /\ Typed /\ Found /\ Accounted /\ saved \in Cps /\ saved = op.cp /\ native # None /\ Fits(op.cp) /\ saved # None
      /\ binding \in Bases \cup {None}
  BY <1>1, <1>2, RestoreFacts
<1>4. /\ Becomes(Defaults(op.cp), trae, <<>>, Native(op.cp)) /\ op.cp.active = None
      /\ \A n \in DOMAIN trae.rows : Named(op.cp.owned, n) # {} => n \in op.kept
  BY <1>1, <1>2, <1>3 DEF Returning
<1>5. PICK owned, cp : /\ owned = {r \in op.cp.owned : r.name \in op.kept}
                       /\ cp = [op.cp EXCEPT !.owned = owned, !.pending = owned # {}]
  OBVIOUS
<1>6. /\ \/ Saves(cp) /\ op' = [op EXCEPT !.phase = "restored"] /\ UNCHANGED binding
         \/ /\ SaveFails \/ (Fault /\ Stored(cp))
            /\ binding' = op.bound /\ op' = [op EXCEPT !.phase = "failed"]
  BY <1>5 DEF Cleaned
<1>7. owned \subseteq op.cp.owned /\ owned \in SUBSET Rows
  BY <1>3, <1>5, CpFields
<1>8. /\ cp \in Cps /\ cp.owned = owned /\ cp.base = op.cp.base /\ cp.task = op.cp.task /\ cp.pick = op.cp.pick
      /\ cp.active = None /\ cp # None
  <2>1. cp \in Cps /\ cp.owned = owned /\ cp.base = op.cp.base /\ cp.task = op.cp.task /\ cp.pick = op.cp.pick
        /\ cp.active = op.cp.active
    BY <1>3, <1>5, <1>7 DEF Cps
  <2> QED BY <1>4, <2>1 DEF Assumptions
<1>9. Fits(cp)
  BY <1>3, <1>7, <1>8 DEF Fits, OneRowAName
<1>10. \A n \in DOMAIN trae.rows : Named(op.cp.owned, n) # {} => Named(cp.owned, n) # {}
  BY <1>4, <1>5, <1>8 DEF Named
<1>11. PICK phase \in {"restored", "failed"} : op' = [op EXCEPT !.phase = phase]
  BY <1>6
<1>12. op' \in RestoreOps
  BY <1>3, <1>11 DEF RestoreOps, RestorePhases
<1>13. op'.phase \in {"restored", "failed"} /\ op'.cp = op.cp
  BY <1>3, <1>11 DEF RestoreOps
<1>14. /\ SpentGrows /\ binding' \in Bases \cup {None}
       /\ \/ saved' = saved /\ past' = past
          \/ saved' = cp /\ past' = past \cup cp.owned
  <2>1. op.bound \in Bases \cup {None}
    BY <1>3, RestoreFields
  <2>2. CASE Saves(cp) /\ UNCHANGED binding
    BY <1>3, <2>2, UnspentGrows DEF Saves, Stored
  <2>3. CASE SaveFails /\ binding' = op.bound
    BY <1>3, <2>1, <2>3, FaultGrows DEF SaveFails
  <2>4. CASE Fault /\ Stored(cp) /\ binding' = op.bound
    BY <1>3, <2>1, <2>4, FaultGrows DEF Stored
  <2> QED BY <1>6, <2>2, <2>3, <2>4
<1>15. /\ past' = past /\ saved' \in Cps /\ Fits(saved') /\ saved'.active = None
       /\ \A n \in DOMAIN trae.rows : Named(op.cp.owned, n) # {} => Named(saved'.owned, n) # {}
  <2>1. past \cup cp.owned = past
    BY <1>9 DEF Fits
  <2> QED BY <1>3, <1>4, <1>8, <1>9, <1>10, <1>14, <2>1
<1>16. Found'
  BY <1>1, <1>3, <1>14, <1>15, FoundSame DEF SpentGrows
<1>17. Accounted'
  <2>1. Mishaps' <= 1 => Mishaps <= 1
    BY <1>3, <1>14, Grown
  <2> QED BY <1>1, <1>3, <1>15, <2>1 DEF Accounted
<1>18. Healthy' /\ Active'
  BY <1>3, <1>15 DEF Healthy, Active, AloneIn, Assumptions
<1>19. Returning'
  BY <1>1, <1>4, <1>13, <1>15 DEF Returning
<1> QED BY <1>1, <1>3, <1>12, <1>13, <1>14, <1>15, <1>16, <1>17, <1>18, <1>19, RestoreGoesOn DEF SpentGrows

-----------------------------------------------------------------------------
(* The active row after one failure *)

LEMMA SwitchIs ==
  ASSUME Typed', op'.call = "switch"
  PROVE  op' \in SwitchOps /\ op'.plan.was \in States /\ op'.old.active \in Names \cup {None}
<1>1. op' \in SwitchOps
  BY DEF Typed, Idle, RestoreOps
<1>2. op'.plan \in PlanSet /\ op'.old \in Cps
  BY <1>1 DEF SwitchOps
<1> QED BY <1>1, <1>2, CpFields DEF PlanSet

\* While no plan is carried out the active row and its record stay.
LEMMA LastsOn ==
  ASSUME Lasting, saved # None, op.phase \notin {"apply", "review", "verify", "undo"}, OneFault' => OneFault,
         saved'.active = saved.active, saved'.owned = saved.owned, DOMAIN trae'.rows = DOMAIN trae.rows,
         ~(InSwitch' /\ op'.phase \in Working \cup {"undo"})
  PROVE  Lasting'
BY DEF Lasting, PlanLasts, UndoLasts, Lasts, Working

LEMMA NothingActive ==
  ASSUME saved'.active = None, ~(InSwitch' /\ op'.phase \in Working \cup {"undo"})
  PROVE  Lasting'
BY DEF Lasting, PlanLasts, UndoLasts, Lasts

LEMMA LastsInSwitch ==
  ASSUME Lasting, OneFault' => OneFault, InSwitch, op.phase \in Working \cup {"undo"}, op'.phase \in Working \cup {"undo"},
         op'.plan = op.plan, op'.old = op.old, op'.cp.owned = op.cp.owned,
         op'.phase = "commit" => saved'.active \in DOMAIN trae'.rows, UndoLasts'
  PROVE  Lasting'
<1>1. Name' = Name /\ Was' = Was
  BY DEF Name, Was
<1>2. PlanLasts'
  BY <1>1 DEF Lasting, PlanLasts
<1>3. OneFault' => Lasts(op'.old, Was.rows)
  BY DEF Lasting
<1>4. saved' # None /\ op'.phase \notin {"apply", "review", "verify", "undo"} => Lasts(saved', trae'.rows)
  BY DEF Lasts, Working
<1> QED BY <1>1, <1>2, <1>3, <1>4 DEF Lasting

\* A rollback that begins will bring back every row.
LEMMA RollbackLasts ==
  ASSUME Core', op'.phase = "undo" => op'.bad = {}
  PROVE  UndoLasts'
<1> SUFFICES ASSUME InSwitch', op'.phase = "undo" PROVE UndoLasts'
  BY DEF UndoLasts
<1>1. op'.plan.was \in States /\ Was' = op'.plan.was
  BY SwitchIs DEF Core, InSwitch, Was
<1>2. Becomes(Cells, trae', op'.todo, Was')
  BY DEF Core, Backward
<1>3. ASSUME op'.old.active \in DOMAIN Was'.rows PROVE WillBe(trae', op'.todo, <<"row", op'.old.active>>, "there")
  <2>1. op'.old.active \in Names
    BY <1>1, <1>3, StateFields
  <2>2. <<"row", op'.old.active>> \in Cells /\ Shown(Was', <<"row", op'.old.active>>) = "there"
    BY <1>3, <2>1 DEF Cells, RowCells, Shown
  <2> QED BY <1>2, <2>2 DEF Becomes
<1> QED BY <1>3 DEF UndoLasts

LEMMA WorkingLasts ==
  ASSUME Assumptions, IInv, Core', Applying \/ Reviewed \/ Activated \/ Committed
  PROVE  Lasting'
<1>0. Typed /\ Held /\ Forward /\ Lasting
  BY DEF IInv, Core
<1>1. op.phase \in Working
  BY DEF Applying, Reviewed, Activated, Committed, Reached, Working
<1>2. InSwitch /\ op \in SwitchOps /\ spent \in Spents /\ saved # None /\ saved = op.cp /\ op.bad = {} /\ op.cp \in Cps
  BY <1>0, <1>1, OpIs, SwitchFields DEF Working, Held, Typed, Forward
<1>3. ASSUME spent' = spent \/ Fault PROVE OneFault' => OneFault
  BY <1>2, <1>3, FewFault DEF OneFault
<1>4. ASSUME NEW tried, RollsBack(tried), spent' = spent \/ Fault PROVE Lasting'
  <2>1. /\ op'.phase = "undo" /\ op'.cp = op.cp /\ op'.old = op.old /\ op'.plan = op.plan /\ op'.bad = op.bad
    BY <1>2, <1>4 DEF RollsBack, SwitchOps
  <2> QED BY <1>0, <1>1, <1>2, <1>3, <1>4, <2>1, RollbackLasts, LastsInSwitch
<1>5. ASSUME op'.phase \in Working \ {"commit"}, op'.cp.owned = op.cp.owned, op'.old = op.old, op'.plan = op.plan,
             spent' = spent \/ Fault
      PROVE  Lasting'
  <2>1. UndoLasts'
    BY <1>5 DEF UndoLasts, Working
  <2> QED BY <1>0, <1>1, <1>2, <1>3, <1>5, <2>1, LastsInSwitch
<1>6. CASE Applying
  <2> DEFINE c == Head(op.todo)
  <2>1. /\ op.phase \in {"apply", "review"}
        /\ \/ Answered(c, TRUE) /\ Advances(c)
           \/ Answered(c, FALSE) /\ Seen(c) /\ Advances(c)
           \/ Answered(c, FALSE) /\ RollsBack(Tried(c, FALSE))
    BY <1>6, ApplyingIs
  <2>2. spent' = spent \/ Fault
    BY <2>1 DEF Answered
  <2>3. CASE Advances(c)
    <3>1. op'.phase = op.phase /\ op'.cp = op.cp /\ op'.old = op.old /\ op'.plan = op.plan
      BY <1>2, <2>3 DEF Advances, SwitchOps
    <3> QED BY <1>5, <2>1, <2>2, <3>1 DEF Working
  <2> QED BY <1>4, <2>1, <2>2, <2>3
<1>7. CASE Reviewed
  <2>1. CASE op' = [op EXCEPT !.phase = "verify"] /\ spent' = spent
    <3>1. op'.phase = "verify" /\ op'.cp = op.cp /\ op'.old = op.old /\ op'.plan = op.plan
      BY <1>2, <2>1 DEF SwitchOps
    <3> QED BY <1>5, <2>1, <3>1 DEF Working
  <2>2. PICK tasks, pick, todo, cp :
          /\ tasks = WithTask(op.cp.tasks, trae.task, Effective(trae, trae.task)) /\ pick = Effective(trae, trae.task)
          /\ todo = <<Select(Primary, Name, trae.task)>> /\ cp = [op.cp EXCEPT !.tasks = tasks]
    OBVIOUS
  <2>5. PICK undo : undo = Compensation(op.tried, trae.task, pick)
    OBVIOUS
  <2>3. \/ op' = [op EXCEPT !.phase = "verify"] /\ spent' = spent
        \/ /\ op' = [op EXCEPT !.phase = "review", !.cp = cp, !.task = trae.task, !.pick = pick, !.todo = todo]
           /\ spent' = spent
        \/ /\ op' = [op EXCEPT !.phase = "undo", !.cp = cp, !.task = trae.task, !.pick = pick, !.todo = undo]
           /\ Fault
        \/ RollsBack(op.tried) /\ (spent' = spent \/ Fault)
    BY <1>7, <2>2, <2>5 DEF Reviewed, Name, Saves, SaveFails
  <2>4. CASE op' = [op EXCEPT !.phase = "review", !.cp = cp, !.task = trae.task, !.pick = pick, !.todo = todo] /\ spent' = spent
    <3>1. cp.owned = op.cp.owned
      BY <1>2, <2>2 DEF Cps
    <3>2. op'.phase = "review" /\ op'.cp = cp /\ op'.old = op.old /\ op'.plan = op.plan
      BY <1>2, <2>4 DEF SwitchOps
    <3> QED BY <1>5, <2>4, <3>1, <3>2 DEF Working
  <2>6. CASE op' = [op EXCEPT !.phase = "undo", !.cp = cp, !.task = trae.task, !.pick = pick, !.todo = undo] /\ Fault
    <3>1. cp.owned = op.cp.owned
      BY <1>2, <2>2 DEF Cps
    <3>2. op'.phase = "undo" /\ op'.cp = cp /\ op'.old = op.old /\ op'.plan = op.plan /\ op'.bad = op.bad
      BY <1>2, <2>6 DEF SwitchOps
    <3> QED BY <1>0, <1>1, <1>2, <1>3, <2>6, <3>1, <3>2, RollbackLasts, LastsInSwitch
  <2> QED BY <1>4, <2>1, <2>3, <2>4, <2>6
<1>8. CASE Activated
  <2>1. op.phase = "verify" /\ trae' = trae
    BY <1>8 DEF Activated, Reached
  <2>2. Name \in DOMAIN trae.rows
    <3>1. op.todo = <<>>
      BY <1>0, <1>1, <1>2, <2>1 DEF Forward
    <3> QED BY <1>0, <1>1, <1>2, <3>1, AimsMet
  <2>3. CASE op' = [op EXCEPT !.phase = "commit", !.cp = Finished(op.cp)] /\ Saves(Finished(op.cp))
    <3>1. Finished(op.cp).owned = op.cp.owned /\ Finished(op.cp).active = Name
      BY <1>2 DEF Finished, Cps, Name
    <3>2. op'.phase = "commit" /\ op'.cp = Finished(op.cp) /\ op'.old = op.old /\ op'.plan = op.plan
      BY <1>2, <2>3 DEF SwitchOps
    <3>3. saved' = Finished(op.cp) /\ spent' = spent
      BY <2>3 DEF Saves, Stored
    <3>4. UndoLasts'
      BY <3>2 DEF UndoLasts
    <3>5. op'.phase \in Working
      BY <3>2 DEF Working
    <3> QED BY <1>0, <1>1, <1>2, <1>3, <2>1, <2>2, <3>1, <3>2, <3>3, <3>4, <3>5, LastsInSwitch
  <2>4. ~(op' = [op EXCEPT !.phase = "commit", !.cp = Finished(op.cp)] /\ Saves(Finished(op.cp))) =>
          RollsBack(op.tried) /\ (spent' = spent \/ Fault)
    BY <1>8 DEF Activated, SaveFails
  <2> QED BY <1>4, <2>3, <2>4
<1>9. CASE Committed
  <2>1. op.phase = "commit" /\ trae' = trae /\ saved' = saved
    BY <1>9 DEF Committed, Reached
  <2>2. CASE op' = [op EXCEPT !.phase = "handover"] /\ spent' = spent
    <3>1. op'.phase = "handover"
      BY <1>2, <2>2 DEF SwitchOps
    <3> QED BY <1>0, <1>2, <1>3, <2>1, <2>2, <3>1, LastsOn DEF Working
  <2>3. CASE RollsBack(op.tried) /\ Fault
    BY <1>4, <2>3
  <2> QED BY <1>9, <2>2, <2>3 DEF Committed
<1> QED BY <1>6, <1>7, <1>8, <1>9

\* A failing call of a rollback loses the active row only if it was to add it
\* again; then its record goes, too.
LEMMA UndoingLasts ==
  ASSUME Assumptions, IInv, Core', Undoing
  PROVE  Lasting'
<1> DEFINE c == Head(op.todo)
           S == UndoesOf(op.plan, op.task, op.pick)
           todo == Tail(op.todo)
           cell == <<"row", op.old.active>>
<1>0. Typed /\ Held /\ Found /\ PlanOK /\ Backward /\ WasActive /\ Lasting
  BY DEF IInv, Core
<1>1. op.phase = "undo" /\ op.todo # <<>> /\ UNCHANGED <<saved, past, binding, key, native>>
  BY UndoingIs
<1>2. InSwitch /\ op \in SwitchOps /\ op.phase \in Working \cup {"undo"}
  BY <1>0, <1>1, OpIs
<1>3. op.todo \in Seq(S) /\ op.todo \in Seq(Commands) /\ Ordered(op.todo)
  BY <1>0, <1>1, <1>2, SwitchFields DEF Backward
<1>4. c \in S /\ c \in Commands
  BY <1>1, <1>3, SeqHead DEF UndoesOf
<1>5. /\ trae \in States /\ spent \in Spents /\ op.bad \in SUBSET {"removal", "replaced", "selection"}
      /\ Was \in States /\ op.old.active \in Names \cup {None} /\ op.plan.created \in BOOLEAN
  BY <1>0, <1>2, SwitchFields, CpFields DEF Typed
<1>6. /\ spent.fault = 0 => "removal" \notin op.bad
      /\ OneFault =>
           IF op.old.active \in DOMAIN Was.rows
           THEN \/ WillBe(trae, op.todo, cell, "there")
                \/ op.old.active = Name /\ Name[2] = 1 /\ op.plan.created /\ "removal" \notin op.bad
           ELSE op.old.active = None \/ "removal" \notin op.bad
  BY <1>0, <1>1, <1>2 DEF Lasting, UndoLasts
<1>7. op.old.active \in DOMAIN Was.rows => cell \in Cells
  <2>1. op.old.active \in DOMAIN Was.rows => op.old.active \in Names
    BY <1>5, StateFields
  <2> QED BY <2>1 DEF Cells, RowCells
<1>8. /\ Selecting(c) => \A x \in Cells : x[1] = "row" => ~Writes(c, x)
      /\ c.do = "delete" => c.name = Name /\ op.plan.created
      /\ c.do = "add" => c.row.name = Name /\ op.plan.created
      /\ Selecting(c) \/ c.do = "delete" \/ c.do = "add"
  <2>1. Selecting(c) \/ c.do = "delete" \/ c.do = "add"
    BY <1>4, CommandIs
  <2>2. /\ c.do = "delete" => c.name = Name /\ op.plan.created
        /\ c.do = "add" => c.row.name = Name /\ op.plan.created
    BY <1>4 DEF UndoesOf, Name
  <2>3. ASSUME Selecting(c), NEW x \in Cells, x[1] = "row" PROVE ~Writes(c, x)
    BY <1>4, <2>3, SelectWrites
  <2> QED BY <2>1, <2>2, <2>3
<1> HIDE DEF c
<1> DEFINE Made == \/ c.do = "add" /\ c.row.name \in DOMAIN trae.rows /\ UNCHANGED <<trae, spent>>
                   \/ Answered(c, TRUE)
                   \/ c.do = "add" /\ Accepts(c) /\ Fault /\ trae' = After(c)
           Failed == Answered(c, FALSE) /\ ~(c.do = "add" /\ c.row.name \in DOMAIN trae.rows)
\* What is left of the calls, and what went wrong.
<1>9. /\ op'.phase = "undo" /\ op'.cp = op.cp /\ op'.old = op.old /\ op'.plan = op.plan /\ op'.todo = todo
      /\ \/ op'.bad = op.bad /\ Made
         \/ op'.bad = op.bad \cup {Part(c)} /\ Failed
  <2> HIDE DEF Made, Failed, todo
  <2>2. CASE op' = [op EXCEPT !.todo = todo] /\ Made
    <3>1. op'.phase = "undo" /\ op'.cp = op.cp /\ op'.old = op.old /\ op'.plan = op.plan /\ op'.todo = todo /\ op'.bad = op.bad
      BY <1>1, <1>2, <2>2 DEF SwitchOps
    <3> QED BY <2>2, <3>1
  <2>3. CASE op' = [op EXCEPT !.todo = todo, !.bad = op.bad \cup {Part(c)}] /\ Failed
    <3>1. op'.phase = "undo" /\ op'.cp = op.cp /\ op'.old = op.old /\ op'.plan = op.plan /\ op'.todo = todo
          /\ op'.bad = op.bad \cup {Part(c)}
      BY <1>1, <1>2, <2>3 DEF SwitchOps
    <3> QED BY <2>3, <3>1
  <2> QED BY <2>2, <2>3, UndoingIs DEF c, Made, Failed, todo
<1> DEFINE Spared(bad) ==
             OneFault' =>
               IF op.old.active \in DOMAIN Was.rows
               THEN \/ WillBe(trae', todo, cell, "there")
                    \/ op.old.active = Name /\ Name[2] = 1 /\ op.plan.created /\ "removal" \notin bad
               ELSE op.old.active = None \/ "removal" \notin bad
<1> HIDE DEF todo
<1> SUFFICES (OneFault' => OneFault) /\ (spent'.fault = 0 => "removal" \notin op'.bad) /\ Spared(op'.bad)
  <2>1. Name' = Name /\ Was' = Was
    BY <1>9 DEF Name, Was
  <2>2. (OneFault' => OneFault) /\ (spent'.fault = 0 => "removal" \notin op'.bad) /\ Spared(op'.bad) => UndoLasts'
    BY <1>9, <2>1 DEF UndoLasts
  <2>3. op'.phase \in Working \cup {"undo"} /\ op'.phase # "commit"
    BY <1>9
  <2> HIDE DEF Spared
  <2> QED BY <1>0, <1>2, <1>9, <2>2, <2>3, LastsInSwitch
<1>10. CASE op'.bad = op.bad /\ Made
  <2>1. Did(trae', trae, c) /\ SpentGrows
    <3>1. CASE c.do = "add" /\ c.row.name \in DOMAIN trae.rows /\ UNCHANGED <<trae, spent>>
      <4>1. Did(trae', trae, c)
        <5> SUFFICES ASSUME NEW x \in Cells
                     PROVE  Shown(trae, x) = IF Writes(c, x) THEN Written(c, x) ELSE Shown(trae, x)
          BY <3>1 DEF Did
        <5>1. Writes(c, x) => x[1] = "row" /\ x[2] = c.row.name /\ Written(c, x) = "there"
          BY <1>4, <3>1, SelectWrites
        <5> QED BY <3>1, <5>1 DEF Shown
      <4> QED BY <1>5, <3>1, <4>1, UnspentGrows
    <3>2. CASE Answered(c, TRUE)
      BY <1>4, <1>5, <3>2, AnsweredTrue, UnspentGrows
    <3>3. CASE c.do = "add" /\ Accepts(c) /\ Fault /\ trae' = After(c)
      BY <1>4, <1>5, <3>3, AfterTyped, AfterDid, FaultGrows
    <3> QED BY <1>10, <3>1, <3>2, <3>3
  <2>2. (OneFault' => OneFault) /\ (spent'.fault = 0 => spent.fault = 0)
    BY <1>5, <2>1, FewShrinks, SpentIs DEF SpentGrows, Spents
  <2>3. ASSUME op.old.active \in DOMAIN Was.rows, WillBe(trae, op.todo, cell, "there") PROVE WillBe(trae', todo, cell, "there")
    <3>1. Shown(trae', cell) = IF Writes(c, cell) THEN Written(c, cell) ELSE Shown(trae, cell)
      BY <1>7, <2>1, <2>3 DEF Did
    <3> HIDE DEF WillBe, Shown, Writes, Written, cell
    <3> QED BY <1>1, <1>3, <2>3, <3>1, WillBeStep DEF c, todo
  <2> HIDE DEF WillBe, cell
  <2> QED BY <1>6, <1>10, <2>2, <2>3
<1>11. CASE op'.bad = op.bad \cup {Part(c)} /\ Failed
  <2>1. /\ trae' = trae \/ Did(trae', trae, c)
        /\ Fault \/ (~Accepts(c) /\ spent' = spent /\ trae' = trae)
    BY <1>4, <1>5, <1>11, AnsweredFalse
  <2>2. c.do \notin {"delete"} => (("removal" \in op.bad \cup {Part(c)}) <=> "removal" \in op.bad)
    BY <1>8 DEF Part, Selecting
  \* The cell is not written.
  <2>3. ASSUME op.old.active \in DOMAIN Was.rows, ~Writes(c, cell), WillBe(trae, op.todo, cell, "there")
        PROVE  WillBe(trae', todo, cell, "there")
    <3>1. Shown(trae', cell) = IF Writes(c, cell) THEN Written(c, cell) ELSE Shown(trae, cell)
      BY <1>7, <2>1, <2>3 DEF Did
    <3> HIDE DEF WillBe, Shown, Writes, Written, cell
    <3> QED BY <1>1, <1>3, <2>3, <3>1, WillBeStep DEF c, todo
  <2>4. CASE ~Fault
    <3>1. ~Accepts(c) /\ spent' = spent
      BY <2>1, <2>4
    <3>2. c.do = "select"
      BY <1>0, <1>1, <1>2, <1>11, <3>1, UndoRefused DEF c
    <3>3. op.old.active \in DOMAIN Was.rows => ~Writes(c, cell)
      BY <1>7, <1>8, <3>2 DEF Selecting
    <3>4. OneFault' = OneFault
      BY <3>1 DEF OneFault
    <3> HIDE DEF WillBe, cell
    <3>5. "removal" \in op'.bad <=> "removal" \in op.bad
      BY <1>11, <2>2, <3>2
    <3> QED BY <1>6, <2>3, <3>1, <3>3, <3>4, <3>5
  <2>5. CASE Fault
    <3>1. /\ ~(spent'.fault = 0)
          /\ OneFault' => OneFault /\ spent.fault = 0 /\ Accidents = 0
      BY <1>5, <2>5, FaultGrows, FewFault, SpentIs
    <3>2. ASSUME OneFault'
          PROVE  IF op.old.active \in DOMAIN Was.rows
                 THEN \/ WillBe(trae', todo, cell, "there")
                      \/ op.old.active = Name /\ Name[2] = 1 /\ op.plan.created /\ "removal" \notin op'.bad
                 ELSE op.old.active = None \/ "removal" \notin op'.bad
      <4>1. /\ Accidents = 0 /\ "removal" \notin op.bad /\ Becomes(RowCells, trae, op.todo, Was)
            /\ op.old.active \in DOMAIN Was.rows \cup {None}
        BY <1>0, <1>1, <1>2, <1>6, <3>1, <3>2 DEF Backward, WasActive
      <4> SUFFICES ASSUME op.old.active \in DOMAIN Was.rows
                   PROVE  \/ WillBe(trae', todo, cell, "there")
                          \/ op.old.active = Name /\ Name[2] = 1 /\ op.plan.created /\ "removal" \notin op'.bad
        BY <4>1
      <4>2. WillBe(trae, op.todo, cell, "there")
        <5>1. op.old.active \in Names
          BY <1>5, StateFields
        <5>2. cell \in RowCells /\ Shown(Was, cell) = "there"
          BY <5>1 DEF RowCells, Shown
        <5> HIDE DEF cell
        <5> QED BY <4>1, <5>2 DEF Becomes
      <4>3. CASE ~Writes(c, cell)
        BY <2>3, <4>2, <4>3
      <4>4. CASE Writes(c, cell) /\ c.do = "add"
        <5>1. op.old.active = Name /\ op.plan.created
          BY <1>8, <4>4 DEF Writes
        <5>2. op.plan.replaced # {}
          BY <1>0, <1>1, <1>2, <5>1 DEF PlanOK
        <5>3. Name[2] = 1
          BY <1>0, <1>2, <5>2 DEF Lasting, PlanLasts
        <5> QED BY <1>11, <2>2, <4>1, <4>4, <5>1, <5>3
      <4>5. CASE Writes(c, cell) /\ c.do = "delete"
        <5>1. Written(c, cell) = "gone"
          BY <4>5 DEF Written
        <5>2. PICK i \in 0 .. Len(op.todo) :
                /\ IF i = 0 THEN Shown(trae, cell) = "there" ELSE Writes(op.todo[i], cell) /\ Written(op.todo[i], cell) = "there"
                /\ \A j \in i + 1 .. Len(op.todo) : Writes(op.todo[j], cell) => Written(op.todo[j], cell) = "there"
          BY <4>2 DEF WillBe
        <5>3. c = op.todo[1] /\ Len(op.todo) \in Nat /\ 1 \in 1 .. Len(op.todo)
          BY <1>1, <1>3 DEF c
        <5> HIDE DEF WillBe, Shown, Writes, Written, cell
        <5>4. i # 0 /\ i # 1
          BY <4>5, <5>1, <5>2, <5>3
        <5>5. i \in 2 .. Len(op.todo) /\ Writes(op.todo[i], cell)
          BY <5>2, <5>3, <5>4
        <5> QED BY <1>1, <1>3, <4>2, <5>5, WillBeLater DEF todo
      <4>6. Selecting(c) => ~Writes(c, cell)
        BY <1>7, <1>8
      <4> HIDE DEF WillBe, cell
      <4> QED BY <1>8, <4>3, <4>4, <4>5, <4>6
    <3> HIDE DEF WillBe, cell
    <3> QED BY <3>1, <3>2
  <2> QED BY <2>4, <2>5
<1> HIDE DEF Spared, Made, Failed
<1> QED BY <1>9, <1>10, <1>11

LEMMA RecoveredHas ==
  ASSUME op.cp \in Cps
  PROVE  /\ Recovered.active = op.old.active
         /\ op.bad # {} => Recovered.owned = Kept
         /\ Recovered.owned \subseteq Kept \cup op.plan.replaced
<1> DEFINE owned == IF op.bad = {} THEN {r \in Kept : Named(op.plan.replaced, r.name) = {}} \cup op.plan.replaced ELSE Kept
           borrowed == IF op.bad = {} THEN op.old.borrowed ELSE op.cp.borrowed
           pending == op.bad # {}
<1>1. (op.bad # {} => owned = Kept) /\ owned \subseteq Kept \cup op.plan.replaced
  OBVIOUS
<1>2. Recovered = [op.cp EXCEPT !.active = op.old.active, !.owned = owned, !.borrowed = borrowed, !.pending = pending]
  BY DEF Recovered
<1> HIDE DEF owned, borrowed, pending
<1>3. Recovered.active = op.old.active /\ Recovered.owned = owned
  BY <1>2 DEF Cps
<1> QED BY <1>1, <1>3

\* The checkpoint that a rollback leaves: what it brought back is active, or the
\* row that was lost is on no record.
LEMMA RolledBackLasts ==
  ASSUME Assumptions, IInv, RolledBack
  PROVE  Lasting'
<1>0. Typed /\ Held /\ PlanOK /\ Backward /\ WasActive /\ Lasting
  BY DEF IInv, Core
<1>1. /\ op.phase = "undo" /\ op.todo = <<>> /\ op' = [op EXCEPT !.phase = "failed"]
      /\ UNCHANGED <<trae, key, native>>
      /\ Saves(Recovered) \/ SaveFails
  BY RolledBackIs
<1>2. InSwitch /\ op \in SwitchOps /\ op.phase \in Working \cup {"undo"}
  BY <1>0, <1>1, OpIs
<1>3. /\ trae \in States /\ spent \in Spents /\ Was \in States /\ op.cp \in Cps
      /\ op.plan.created \in BOOLEAN /\ op.old.active \in Names \cup {None}
  BY <1>0, <1>2, SwitchFields, CpFields DEF Typed
<1>4. saved.owned = op.cp.owned /\ saved.active = op.cp.active
  BY <1>0, <1>1, <1>2 DEF Held
<1>5. op'.phase = "failed"
  BY <1>1, <1>2 DEF SwitchOps
<1>6. OneFault' => OneFault
  BY <1>1, <1>3, FewFault DEF Saves, SaveFails, OneFault
<1> SUFFICES ASSUME OneFault' PROVE Lasts(saved', trae.rows)
  BY <1>1, <1>5 DEF Lasting, PlanLasts, UndoLasts, Working
<1>7. OneFault /\ Lasts(op.old, Was.rows) /\ PlanLasts /\ UndoLasts
  BY <1>0, <1>2, <1>6 DEF Lasting
<1>8. CASE Saves(Recovered)
  <2>1. /\ saved' = Recovered /\ Recovered.active = op.old.active
        /\ op.bad # {} => Recovered.owned = Kept
        /\ Recovered.owned \subseteq Kept \cup op.plan.replaced
    BY <1>3, <1>8, RecoveredHas DEF Saves, Stored
  <2>2. CASE op.old.active \in DOMAIN Was.rows
    <3>1. \/ WillBe(trae, <<>>, <<"row", op.old.active>>, "there")
          \/ op.old.active = Name /\ Name[2] = 1 /\ op.plan.created /\ "removal" \notin op.bad
      BY <1>1, <1>2, <1>7, <2>2 DEF UndoLasts
    <3>2. CASE WillBe(trae, <<>>, <<"row", op.old.active>>, "there")
      <4>1. Shown(trae, <<"row", op.old.active>>) = "there"
        BY <3>2 DEF WillBe
      <4>2. op.old.active \in DOMAIN trae.rows
        BY <4>1 DEF Shown
      <4> QED BY <2>1, <4>2 DEF Lasts
    <3>3. CASE op.old.active = Name /\ Name[2] = 1 /\ op.plan.created /\ "removal" \notin op.bad
      <4>1. CASE op.bad = {}
        <5>1. DOMAIN trae.rows = DOMAIN Was.rows
          BY <1>0, <1>1, <1>2, <1>3, <4>1, AllUndone DEF Backward
        <5> QED BY <2>1, <2>2, <5>1 DEF Lasts
      <4>2. CASE op.bad # {}
        <5>1. Named(Recovered.owned, Name) = {}
          BY <2>1, <3>3, <4>2 DEF Kept, Named, Name
        <5> QED BY <2>1, <3>3, <5>1 DEF Lasts
      <4> QED BY <4>1, <4>2
    <3> QED BY <3>1, <3>2, <3>3
  <2>3. CASE op.old.active \notin DOMAIN Was.rows /\ op.old.active # None
    <3>1. op.old.active[2] = 1 /\ Named(op.old.owned, op.old.active) = {} /\ "removal" \notin op.bad
      BY <1>1, <1>2, <1>7, <2>3 DEF Lasts, UndoLasts
    <3>2. op.cp.owned \subseteq op.old.owned \cup op.plan.replaced \cup {op.plan.row}
      BY <1>2, <1>7 DEF PlanLasts
    <3>3. /\ op.plan.replaced # {} => Name \in DOMAIN Was.rows
          /\ ~op.plan.created => Name \in DOMAIN Was.rows
          /\ \A r \in op.plan.replaced : r.name = Name
      BY <1>0, <1>2, <1>3 DEF PlanOK
    <3>4. Named(Recovered.owned, op.old.active) = {}
      <4> SUFFICES ASSUME NEW r \in Recovered.owned, r.name = op.old.active PROVE FALSE
        BY DEF Named
      <4>1. r \notin op.plan.replaced
        BY <2>3, <3>3
      <4>2. r \in Kept /\ r \in op.cp.owned
        BY <2>1, <4>1 DEF Kept
      <4>3. r \notin op.old.owned
        BY <3>1 DEF Named
      <4>4. r = op.plan.row /\ r.name = Name
        BY <3>2, <4>1, <4>2, <4>3 DEF Name
      <4>5. op.plan.created
        BY <1>3, <2>3, <3>3, <4>4
      <4> QED BY <3>1, <4>2, <4>4, <4>5 DEF Kept, Name
    <3> QED BY <2>1, <3>1, <3>4 DEF Lasts
  <2> QED BY <2>1, <2>2, <2>3 DEF Lasts
<1>9. CASE SaveFails
  <2>1. saved'.owned = op.cp.owned /\ saved'.active = op.cp.active /\ Fault
    BY <1>4, <1>9 DEF SaveFails
  <2>2. spent.fault = 0 /\ Accidents = 0
    BY <1>3, <2>1, FewFault
  <2>3. /\ ~op.cp.pending => spent.fault >= 1
        /\ op.cp.pending => op.cp.active = op.old.active
        /\ Becomes(RowCells, trae, <<>>, Was)
    BY <1>0, <1>1, <1>2, <2>2 DEF Backward
  <2>4. op.cp.active = op.old.active
    BY <2>2, <2>3
  <2>5. DOMAIN trae.rows = DOMAIN Was.rows
    BY <1>3, <2>3, RowsAlike
  <2>6. op.old.active \in DOMAIN Was.rows \cup {None}
    BY <1>0, <1>2, <2>2 DEF WasActive
  <2> QED BY <2>1, <2>4, <2>5, <2>6 DEF Lasts
<1> QED BY <1>1, <1>8, <1>9

\* What a plan replaces, and the name it gives a new row.
LEMMA PlansNamed ==
  ASSUME Assumptions, spent.call \in Nat, spent.call < MaxCalls, NEW cp, NEW b \in Bases, NEW k,
         NEW plan \in Plans(cp, [base |-> b, key |-> k])
  PROVE  /\ plan.replaced # {} => plan.created /\ plan.row.name[2] = 1
         /\ plan.created => \/ plan.row.name = <<b, 1>> \/ <<b, 1>> \in DOMAIN trae.rows
                            \/ Named(cp.owned, <<b, 1>>) # {}
<1> DEFINE input    == [base |-> b, key |-> k]
           here     == DOMAIN trae.rows
           expected == <<b, 1>>
           known    == FirstOf(Matching(cp.owned, input), Matching(past, input))
           named    == FirstOf(Named(cp.owned, expected), Named(past, expected))
           present  == {n \in here : n[1] = b}
           row(n)   == [name |-> n, key |-> k]
           taken    == here \cup {r.name : r \in cp.owned}
<1>1. plan \in IF known # {} /\ Oldest(known).name \in here THEN {Plan(Oldest(known), FALSE, FALSE, {})}
              ELSE IF named # {} /\ expected \in here THEN {Plan(row(expected), TRUE, FALSE, {r}) : r \in named}
              ELSE IF present # {} THEN {Plan(row(n), FALSE, TRUE, {}) : n \in present}
              ELSE {Plan(row(FreeName(b, taken)), TRUE, FALSE, {})}
  BY DEF Plans
<1>2. expected \in taken => expected \in here \/ Named(cp.owned, expected) # {}
  BY DEF Named
<1>3. ASSUME expected \notin taken PROVE FreeName(b, taken) = expected
  <2>1. 1 \in 1 .. Copies
    BY DEF Assumptions
  <2> HIDE DEF taken
  <2>2. PICK i \in 1 .. 1 : FreeName(b, taken) = <<b, i>>
    BY <1>3, <2>1, FreeNameIs
  <2> QED BY <2>2
<1>4. PICK free : free = FreeName(b, taken)
  OBVIOUS
<1> HIDE DEF known, named, taken
<1>5. \/ \E r : plan = Plan(r, FALSE, FALSE, {}) \/ plan = Plan(r, FALSE, TRUE, {})
      \/ \E r : plan = Plan(row(expected), TRUE, FALSE, {r})
      \/ plan = Plan(row(free), TRUE, FALSE, {})
  BY <1>1, <1>4
<1> QED BY <1>2, <1>3, <1>4, <1>5 DEF Plan

LEMMA PlannedOwned ==
  ASSUME NEW cp \in Cps, NEW plan
  PROVE  Planned(cp, plan).owned \subseteq cp.owned \cup plan.replaced \cup {plan.row}
<1> DEFINE rest == cp.owned \cup {r \in plan.replaced : Named(cp.owned, r.name) = {}}
           owned == IF plan.borrowed THEN rest ELSE Upsert(rest, plan.row)
           borrowed == IF plan.borrowed THEN Upsert(cp.borrowed, plan.row) ELSE cp.borrowed
           tasks == WithTask(cp.tasks, plan.was.task, OpenPick(plan.was))
<1>1. owned \subseteq cp.owned \cup plan.replaced \cup {plan.row}
  BY DEF Upsert
<1>2. Planned(cp, plan) = [cp EXCEPT !.tasks = tasks, !.owned = owned, !.borrowed = borrowed, !.pending = TRUE]
  BY DEF Planned
<1> HIDE DEF owned, borrowed, tasks
<1>3. Planned(cp, plan).owned = owned
  BY <1>2 DEF Cps
<1> QED BY <1>1, <1>3

LEMMA SwitchPlannedLasts ==
  ASSUME Assumptions, IInv, NEW b \in Bases, SwitchPlanned(b)
  PROVE  Lasting'
<1>0. Typed /\ Held /\ Found /\ Lasting
  BY DEF IInv, Core
<1>1. op.phase = "idle" /\ UNCHANGED <<trae, binding, key>> /\ Calls
  BY DEF SwitchPlanned, CanCall, Reached
<1>2. trae \in States /\ spent \in Spents /\ past \in SUBSET Rows /\ saved \in Cps \cup {None} /\ key \in Keys
  BY <1>0 DEF Typed
<1> DEFINE c == Checkpoint
<1>3. c \in Cps /\ (saved # None => c = saved) /\ (saved = None => c.owned = {} /\ c.active = None)
  BY <1>2, CheckpointTyped
<1>4. PICK plan \in Plans(c, [base |-> b, key |-> key]) :
        /\ op' = [call |-> "switch", phase |-> "apply", base |-> b, cp |-> Planned(c, plan), old |-> c,
                  bound |-> binding, plan |-> plan, task |-> plan.was.task, pick |-> OpenPick(plan.was),
                  todo |-> Steps(plan), tried |-> {}, bad |-> {}]
        /\ saved' = Planned(c, plan) /\ past' = past \cup Planned(c, plan).owned
  BY DEF SwitchPlanned
<1> HIDE DEF c
<1>5. /\ spent'.fault = spent.fault /\ spent'.crash = spent.crash
      /\ spent.call < MaxCalls /\ spent.call \in Nat
  BY <1>1, <1>2, SpentIs
<1>6. c.owned \subseteq past
  BY <1>0, <1>2, <1>3 DEF Held, Fits
<1>7. PlanFacts(plan, b)
  BY <1>0, <1>2, <1>3, <1>4, <1>5, <1>6, PlansKeepFacts DEF Found
<1>8. /\ plan.replaced # {} => plan.created /\ plan.row.name[2] = 1
      /\ plan.created => \/ plan.row.name = <<b, 1>> \/ <<b, 1>> \in DOMAIN trae.rows
                         \/ Named(c.owned, <<b, 1>>) # {}
  BY <1>4, <1>5, PlansNamed
<1>9. Planned(c, plan).owned \subseteq c.owned \cup plan.replaced \cup {plan.row}
  BY <1>3, PlannedOwned
<1>10. PICK cp : cp = Planned(c, plan)
  OBVIOUS
<1>11. /\ op'.phase = "apply" /\ op'.cp = cp /\ op'.old = c /\ op'.plan = plan
  BY <1>4, <1>10
<1>12. plan.was = trae /\ plan.row.name[1] = b /\ Name' = plan.row.name /\ Was' = trae
  BY <1>7, <1>11 DEF PlanFacts, Name, Was
<1>13. PlanLasts'
  BY <1>8, <1>9, <1>10, <1>11, <1>12 DEF PlanLasts
<1>14. OneFault' => Lasts(c, trae.rows)
  BY <1>0, <1>1, <1>3, <1>5 DEF Lasting, OneFault, Lasts
<1> QED BY <1>11, <1>12, <1>13, <1>14 DEF Lasting, UndoLasts

LEMMA CleaningIs ==
  ASSUME Cleaning, op \in RestoreOps
  PROVE  op.phase = "clean" /\ saved' = saved /\ op'.call = "restore"
<1> DEFINE c == Head(op.todo)
<1>1. op.phase = "clean" /\ saved' = saved
  BY DEF Cleaning, Reached
<1>2. PICK ok \in BOOLEAN :
        /\ Answered(c, ok)
        /\ op' = [op EXCEPT !.todo = Tail(op.todo), !.kept = IF ok THEN op.kept ELSE op.kept \cup {c.name}]
  BY DEF Cleaning
<1>3. op'.call = "restore"
  <2>1. CASE ok
    BY <1>2, <2>1 DEF RestoreOps
  <2>2. CASE ~ok
    BY <1>2, <2>2 DEF RestoreOps
  <2> QED BY <2>1, <2>2
<1> QED BY <1>1, <1>3

\* A restore keeps the active row until nothing is active.
LEMMA RestoreLasts ==
  ASSUME Assumptions, IInv, RestoreStep
  PROVE  Lasting'
<1>1. op.phase \in {"restore", "again", "release", "clean"}
  <2>1. Restoring \/ Forgotten => op.phase = "restore"
    BY DEF Restoring, Forgotten, Reached
  <2>2. ASSUME Reselecting PROVE op.phase = "again"
    BY <2>2 DEF Reselecting, Reached
  <2>3. Released => op.phase = "release"
    BY DEF Released, Reached
  <2>4. ASSUME Cleaning PROVE op.phase = "clean"
    BY <2>4 DEF Cleaning, Reached
  <2>5. ASSUME Cleaned PROVE op.phase = "clean"
    BY <2>5 DEF Cleaned, Reached
  <2> QED BY <2>1, <2>2, <2>3, <2>4, <2>5 DEF RestoreStep
<1>2. InRestore
  BY <1>1, OpIs DEF IInv, Core
<1>3. /\ Returning /\ op \in RestoreOps /\ trae \in States /\ spent \in Spents /\ op.cp \in Cps /\ Lasting
      /\ saved = op.cp /\ saved # None
  BY <1>1, <1>2, RestoreFacts DEF IInv
<1>4. ASSUME op'.call = "restore", saved'.active = None PROVE Lasting'
  BY <1>4, NothingActive DEF InSwitch
<1>5. ASSUME op'.call = "restore", saved'.active = saved.active, saved'.owned = saved.owned,
             DOMAIN trae'.rows = DOMAIN trae.rows, spent' = spent \/ Fault
      PROVE  Lasting'
  <2>1. OneFault' => OneFault
    BY <1>3, <1>5, FewFault DEF OneFault
  <2> QED BY <1>1, <1>3, <1>5, <2>1, LastsOn DEF InSwitch
<1>6. CASE Restoring
  <2>1. op.phase = "restore" /\ op.todo # <<>> /\ saved' = saved
    BY <1>6 DEF Restoring, Reached
  <2>2. Head(op.todo) \in Selectings
    BY <1>2, <1>3, <2>1, SeqHead DEF Returning
  <2>3. PICK ok \in BOOLEAN : /\ Answered(Head(op.todo), ok)
                              /\ op' = IF ok THEN [op EXCEPT !.todo = Tail(op.todo)] ELSE [op EXCEPT !.phase = "failed"]
    BY <1>6 DEF Restoring
  <2>4. DOMAIN trae'.rows = DOMAIN trae.rows
    BY <1>3, <2>2, <2>3, SelectAnswered
  <2>5. spent' = spent \/ Fault
    BY <2>3 DEF Answered
  <2>6. op'.call = "restore"
    <3>1. CASE ok
      BY <1>3, <2>3, <3>1 DEF RestoreOps
    <3>2. CASE ~ok
      BY <1>3, <2>3, <3>2 DEF RestoreOps
    <3> QED BY <3>1, <3>2
  <2> QED BY <1>5, <2>1, <2>4, <2>5, <2>6
<1>7. CASE Forgotten
  <2>1. saved' = saved /\ trae' = trae /\ (spent' = spent \/ Fault)
    BY <1>7 DEF Forgotten
  <2>2. CASE op' = [op EXCEPT !.phase = "release"]
    <3>1. op'.call = "restore"
      BY <1>3, <2>2 DEF RestoreOps
    <3> QED BY <1>5, <2>1, <3>1
  <2>3. CASE op' = [op EXCEPT !.phase = "again",
                              !.todo = IF op.cp.active = None THEN <<>>
                                       ELSE <<Select(Primary, op.cp.active, NoTask)>> \o
                                            [i \in DOMAIN Extras |-> Select(Extras[i], op.cp.active, NoTask)]]
    <3>1. PICK todo : /\ op' = [op EXCEPT !.phase = "again", !.todo = todo]
                      /\ todo = IF op.cp.active = None THEN <<>>
                                ELSE <<Select(Primary, op.cp.active, NoTask)>> \o
                                     [i \in DOMAIN Extras |-> Select(Extras[i], op.cp.active, NoTask)]
      BY <2>3
    <3>2. op'.call = "restore"
      BY <1>3, <3>1 DEF RestoreOps
    <3> QED BY <1>5, <2>1, <3>2
  <2> QED BY <1>7, <2>2, <2>3 DEF Forgotten
<1>8. CASE Reselecting
  <2>1. op.phase = "again"
    BY <1>8 DEF Reselecting, Reached
  <2>2. PICK cp : cp = [op.cp EXCEPT !.pending = FALSE]
    OBVIOUS
  <2>3. \/ \E ok \in BOOLEAN : op.todo # <<>> /\ Answered(Head(op.todo), ok) /\ saved' = saved
        \/ trae' = trae /\ (Saves(cp) \/ SaveFails)
    BY <1>8, <2>2 DEF Reselecting
  <2>4. op' = [op EXCEPT !.todo = Tail(op.todo)] \/ op' = [op EXCEPT !.phase = "failed"]
    BY <1>8 DEF Reselecting
  <2>5. op'.call = "restore"
    BY <1>3, <2>4 DEF RestoreOps
  <2>6. CASE \E ok \in BOOLEAN : op.todo # <<>> /\ Answered(Head(op.todo), ok) /\ saved' = saved
    <3>1. PICK ok \in BOOLEAN : op.todo # <<>> /\ Answered(Head(op.todo), ok) /\ saved' = saved
      BY <2>6
    <3>2. Head(op.todo) \in Selectings
      BY <1>2, <1>3, <2>1, <3>1, SeqHead DEF Returning, ReselectsOf
    <3>3. DOMAIN trae'.rows = DOMAIN trae.rows
      BY <1>3, <3>1, <3>2, SelectAnswered
    <3>4. spent' = spent \/ Fault
      BY <3>1 DEF Answered
    <3> QED BY <1>5, <2>5, <3>1, <3>3, <3>4
  <2>7. CASE trae' = trae /\ (Saves(cp) \/ SaveFails)
    <3>1. cp.active = op.cp.active /\ cp.owned = op.cp.owned
      BY <1>3, <2>2 DEF Cps
    <3>2. /\ saved' = cp \/ saved' = saved
          /\ spent' = spent \/ Fault
      BY <2>7 DEF Saves, Stored, SaveFails
    <3> QED BY <1>3, <1>5, <2>5, <2>7, <3>1, <3>2
  <2> QED BY <2>3, <2>6, <2>7
<1>9. CASE Released
  <2>1. PICK cp : cp = [op.cp EXCEPT !.active = None, !.borrowed = {}]
    OBVIOUS
  <2>2. PICK names : names = SetToSeq(NamesOf(cp.owned))
    OBVIOUS
  <2>3. PICK todo : todo = DeletesOf(names)
    OBVIOUS
  <2>4. \/ Saves(cp) /\ op' = [op EXCEPT !.phase = "clean", !.cp = cp, !.todo = todo]
        \/ SaveFails /\ trae' = trae /\ op' = [op EXCEPT !.phase = "failed"]
    BY <1>9, <2>1, <2>2, <2>3 DEF Released, NamesOf, DeletesOf
  <2>5. CASE Saves(cp) /\ op' = [op EXCEPT !.phase = "clean", !.cp = cp, !.todo = todo]
    <3>1. op'.call = "restore" /\ saved' = cp
      BY <1>3, <2>5 DEF RestoreOps, Saves, Stored
    <3>2. cp.active = None
      BY <1>3, <2>1 DEF Cps
    <3> QED BY <1>4, <3>1, <3>2
  <2>6. CASE SaveFails /\ trae' = trae /\ op' = [op EXCEPT !.phase = "failed"]
    <3>1. op'.call = "restore"
      BY <1>3, <2>6 DEF RestoreOps
    <3> QED BY <1>5, <2>6, <3>1 DEF SaveFails
  <2> QED BY <2>4, <2>5, <2>6
<1>10. CASE Cleaning
  <2>1. op.phase = "clean" /\ saved' = saved /\ op'.call = "restore"
    BY <1>3, <1>10, CleaningIs
  <2>2. op.cp.active = None
    BY <1>2, <1>3, <2>1 DEF Returning
  <2> QED BY <1>3, <1>4, <2>1, <2>2
<1>11. CASE Cleaned
  <2>1. op.cp.active = None
    BY <1>2, <1>3, <1>11 DEF Cleaned, Reached, Returning
  <2>2. PICK owned, pending : pending = (owned # {}) /\ owned = {r \in op.cp.owned : r.name \in op.kept}
    OBVIOUS
  <2>3. PICK cp : cp = [op.cp EXCEPT !.owned = owned, !.pending = pending]
    OBVIOUS
  <2>4. saved' = cp \/ saved' = saved
    BY <1>11, <2>2, <2>3 DEF Cleaned, Saves, SaveFails, Stored
  <2>5. op' = [op EXCEPT !.phase = "restored"] \/ op' = [op EXCEPT !.phase = "failed"]
    BY <1>11 DEF Cleaned
  <2>6. op'.call = "restore"
    BY <1>3, <2>5 DEF RestoreOps
  <2>7. cp.active = op.cp.active
    BY <1>3, <2>3 DEF Cps
  <2> QED BY <1>3, <1>4, <2>1, <2>4, <2>6, <2>7
<1> QED BY <1>6, <1>7, <1>8, <1>9, <1>10, <1>11 DEF RestoreStep

\* Nothing else touches what is active.
LEMMA OthersLast ==
  ASSUME Assumptions, IInv,
         RestoreBegins \/ HandedOver \/ Returned \/ TaskOpened \/ ModelChosen \/ KeyReplaced \/ Crash \/ UNCHANGED vars
  PROVE  Lasting'
<1>0. Typed /\ Held /\ Lasting
  BY DEF IInv, Core
<1>1. trae \in States /\ spent \in Spents /\ saved \in Cps \cup {None}
  BY <1>0 DEF Typed
<1>2. CASE RestoreBegins
  <2>1. PICK cp : cp = [saved EXCEPT !.pending = TRUE]
    OBVIOUS
  <2>2. PICK todo : op' = [call |-> "restore", phase |-> "restore", cp |-> cp, bound |-> binding, todo |-> todo, kept |-> {}]
    BY <1>2, <2>1 DEF RestoreBegins
  <2>3. op.phase = "idle" /\ saved # None /\ saved' = cp /\ Calls /\ trae' = trae
    BY <1>2, <2>1 DEF RestoreBegins, CanCall, Reached
  <2>4. saved'.active = saved.active /\ saved'.owned = saved.owned
    BY <1>1, <2>1, <2>3 DEF Cps
  <2>5. OneFault' => OneFault
    BY <1>1, <2>3, SpentIs DEF OneFault
  <2>6. ~InSwitch'
    BY <2>2 DEF InSwitch
  <2> QED BY <1>0, <2>3, <2>4, <2>5, <2>6, LastsOn
<1>3. CASE HandedOver
  <2>1. op.phase = "handover" /\ saved' = saved /\ trae' = trae /\ (spent' = spent \/ Fault)
    BY <1>3 DEF HandedOver, Reached
  <2>2. InSwitch /\ op \in SwitchOps
    BY <1>0, <2>1, OpIs
  <2>3. op' = [op EXCEPT !.phase = "done"] \/ op' = [op EXCEPT !.phase = "unfinished"]
    BY <1>3 DEF HandedOver
  <2>4. op'.phase \notin Working \cup {"undo"}
    BY <2>2, <2>3 DEF SwitchOps, Working
  <2>5. saved # None
    BY <1>0, <2>1, OpIs DEF Held
  <2>6. OneFault' => OneFault
    BY <1>1, <2>1, FewFault DEF OneFault
  <2> QED BY <1>0, <2>1, <2>4, <2>5, <2>6, LastsOn
<1>4. CASE Returned \/ ModelChosen \/ Crash
  <2>1. saved' = saved /\ op'.phase = "idle"
    BY <1>0, <1>4, OpIs DEF Returned, ModelChosen, Crash, Idle, Reached
  <2>2. ~(op'.phase \in Working \cup {"undo"})
    BY <2>1 DEF Working
  <2>3. CASE Crash
    <3>1. ~OneFault'
      BY <1>1, <2>3, SpentIs DEF Crash, OneFault
    <3> QED BY <2>2, <3>1 DEF Lasting, PlanLasts, UndoLasts
  <2>4. CASE saved = None
    BY <2>1, <2>2, <2>4 DEF Lasting, PlanLasts, UndoLasts, Working
  <2>5. CASE ~Crash /\ saved # None
    <3>1. DOMAIN trae'.rows = DOMAIN trae.rows
      <4>1. CASE ModelChosen
        <5>1. PICK l \in Labels, name \in Exists(trae.rows) : trae' = After(Select(l, name, NoTask))
          BY <4>1 DEF ModelChosen
        <5>2. name \in Selections
          BY <1>1, StateFields DEF Exists, Selections
        <5>3. Select(l, name, NoTask) \in Commands /\ Select(l, name, NoTask).do = "select"
          BY <5>2, SelectIs DEF Select
        <5> QED BY <1>1, <5>1, <5>3, AfterRows
      <4> QED BY <1>4, <2>5, <4>1 DEF Returned
    <3>2. OneFault' => OneFault
      BY <1>1, <1>4, <2>5, SpentIs DEF Returned, ModelChosen, OneFault
    <3>3. op.phase \notin {"apply", "review", "verify", "undo"}
      BY <1>4, <2>5 DEF Returned, ModelChosen, Reached
    <3> QED BY <1>0, <2>1, <2>2, <2>5, <3>1, <3>2, <3>3, LastsOn
  <2> QED BY <2>3, <2>4, <2>5
<1>5. CASE TaskOpened \/ KeyReplaced \/ UNCHANGED vars
  <2>1. /\ UNCHANGED <<saved, op>> /\ trae'.rows = trae.rows
        /\ spent'.fault = spent.fault /\ spent'.crash = spent.crash
    <3>1. CASE TaskOpened
      BY <1>1, <3>1, SpentIs, StateFields DEF TaskOpened
    <3> QED BY <1>5, <3>1 DEF KeyReplaced, vars
  <2>2. Name' = Name /\ Was' = Was /\ OneFault' = OneFault
    BY <2>1 DEF Name, Was, OneFault
  <2>3. UndoLasts'
    <3> SUFFICES ASSUME InSwitch, op.phase = "undo" PROVE UndoLasts'
      BY <2>1 DEF UndoLasts, InSwitch
    <3>1. PICK cell : cell = <<"row", op.old.active>>
      OBVIOUS
    <3>2. WillBe(trae, op.todo, cell, "there") => WillBe(trae', op.todo, cell, "there")
      BY <2>1, <3>1 DEF WillBe, Shown
    <3>3. UndoLasts
      BY <1>0 DEF Lasting
    <3> HIDE DEF WillBe
    <3> QED BY <2>1, <2>2, <3>1, <3>2, <3>3 DEF UndoLasts, InSwitch
  <2> QED BY <1>0, <2>1, <2>2, <2>3 DEF Lasting, PlanLasts, InSwitch
<1> QED BY <1>2, <1>3, <1>4, <1>5

-----------------------------------------------------------------------------
(* The theorems *)

LEMMA StepKeeps ==
  ASSUME Assumptions, IInv, [Next]_vars
  PROVE  IInv'
<1>1. CASE UNCHANGED vars
  BY <1>1, NothingKeeps, OthersLast DEF IInv
<1>2. ASSUME NEW b \in Bases, SwitchPlanned(b) PROVE IInv'
  BY <1>2, SwitchPlannedKeeps, SwitchPlannedLasts DEF IInv
<1>3. CASE SwitchStep
  <2>1. Core'
    BY <1>3, ApplyingKeeps, ReviewedKeeps, ActivatedKeeps, CommittedKeeps, HandedOverKeeps, UndoingKeeps, RolledBackKeeps
       DEF SwitchStep
  <2>2. Lasting'
    BY <1>3, <2>1, WorkingLasts, OthersLast, UndoingLasts, RolledBackLasts DEF SwitchStep
  <2> QED BY <2>1, <2>2 DEF IInv
<1>4. CASE RestoreBegins \/ RestoreStep
  <2>1. Core'
    BY <1>4, RestoreBeginsKeeps, RestoringKeeps, ForgottenKeeps, ReselectingKeeps, ReleasedKeeps, CleaningKeeps, CleanedKeeps
       DEF RestoreStep
  <2>2. Lasting'
    BY <1>4, OthersLast, RestoreLasts
  <2> QED BY <2>1, <2>2 DEF IInv
<1>5. CASE Returned \/ TaskOpened \/ ModelChosen \/ KeyReplaced \/ Crash
  <2>1. Core'
    BY <1>5, ReturnedKeeps, TaskOpenedKeeps, ModelChosenKeeps, KeyReplacedKeeps, CrashKeeps
  <2>2. Lasting'
    BY <1>5, OthersLast
  <2> QED BY <2>1, <2>2 DEF IInv
<1> QED BY <1>1, <1>2, <1>3, <1>4, <1>5 DEF Next

LEMMA InvHolds == ASSUME Assumptions PROVE Spec => []IInv
<1>1. ASSUME Init PROVE IInv
  <2>1. Core
    BY <1>1, InitHolds
  <2>2. saved = None /\ ~InSwitch
    BY <1>1 DEF Init, Idle, InSwitch
  <2> QED BY <2>1, <2>2 DEF IInv, Lasting, PlanLasts, UndoLasts
<1>2. IInv /\ [Next]_vars => IInv'
  BY StepKeeps
<1> QED BY <1>1, <1>2, PTL DEF Spec

\* The variables of TRAE's switches keep their types, and no checkpoint owns two
\* rows of one name, however switches, rollbacks and restores follow each other.
THEOREM TraeTypeOK == ASSUME Assumptions PROVE Spec => []TypeOK
<1>1. ASSUME IInv PROVE TypeOK
  <2>1. Typed /\ Held
    BY <1>1 DEF IInv, Core
  <2>2. /\ trae \in States /\ saved \in Cps \cup {None} /\ past \in SUBSET Rows /\ binding \in Bases \cup {None} /\ key \in Keys
    BY <2>1 DEF Typed
  <2>3. /\ DOMAIN trae.rows \subseteq Names
        /\ trae.chosen \in [Labels -> Selections]
        /\ trae.picks \in [Tasks -> Selections \cup {Unset}] /\ trae.task \in Tasks \cup {NoTask}
    BY <2>2, StateFields
  <2>4. ASSUME saved # None
        PROVE  /\ saved.owned \cup saved.borrowed \subseteq Rows /\ saved.pending \in BOOLEAN
               /\ saved.active \in Names \cup {None} /\ DOMAIN saved.tasks \subseteq Tasks
               /\ \A r, q \in saved.owned : r.name = q.name => r = q
    <3>1. saved \in Cps
      BY <2>2, <2>4
    <3>2. OneRowAName(saved.owned)
      BY <2>1, <2>4 DEF Held, Fits
    <3>3. /\ DOMAIN saved.tasks \in SUBSET Tasks /\ saved.owned \in SUBSET Rows /\ saved.borrowed \in SUBSET Rows
          /\ saved.active \in Names \cup {None} /\ saved.pending \in BOOLEAN
      BY <3>1, CpFields
    <3> QED BY <3>2, <3>3 DEF OneRowAName
  <2> QED BY <2>2, <2>3, <2>4 DEF TypeOK
<1>2. IInv => TypeOK
  BY <1>1
<1> QED BY <1>2, InvHolds, PTL

\* A row that AT-Switch makes is on record in the immutable history before it is
\* there and as long as it is there (save_service_checkpoint before add_model).
THEOREM TraeOnRecord == ASSUME Assumptions PROVE Spec => []OnRecord
<1>1. IInv => OnRecord
  BY DEF IInv, Core, Found
<1> QED BY <1>1, InvHolds, PTL

\* A failed switch has been undone, or its checkpoint says that something is left,
\* unless it was saved as finished (rollback_ui_change, record_rollback_checkpoint).
THEOREM TraeFailedSwitch == ASSUME Assumptions PROVE Spec => []FailedSwitchIsCompensated
<1>1. IInv => FailedSwitchIsCompensated
  BY DEF IInv, Core, Undone, InSwitch, Was, FailedSwitchIsCompensated, Reached
<1> QED BY <1>1, InvHolds, PTL

\* A finished restore has brought back the selections of before the first takeover
\* and has left the user's rows alone, and AT-Switch's rows are gone or on record
\* (restore_native, cleanup).
THEOREM TraeRestoreReturnsNative == ASSUME Assumptions PROVE Spec => []RestoreReturnsNative
<1>1. ASSUME IInv, op.phase = "restored"
      PROVE  /\ trae.chosen = native.chosen
             /\ native.task # NoTask => Effective(trae, native.task) = Effective(native, native.task)
             /\ DOMAIN native.rows \subseteq DOMAIN trae.rows
             /\ spent.fault + spent.user <= 1 =>
                  \A n \in DOMAIN trae.rows : n[2] = 0 \/ Named(saved.owned, n) # {}
  <2>1. InRestore
    BY <1>1, OpIs DEF IInv, Core
  <2>2. /\ Typed /\ Found /\ Returning /\ Accounted /\ op.cp \in Cps /\ trae \in States /\ native # None
        /\ Fits(op.cp) /\ saved # None
    BY <1>1, <2>1, RestoreFacts
  <2>3. native \in States
    BY <2>2 DEF Typed
  <2>4. /\ op.cp.base = native.chosen /\ op.cp.task = native.task /\ op.cp.pick = StoredPick(native)
    BY <2>2 DEF Fits
  <2>5. Becomes(Defaults(op.cp), trae, <<>>, Native(op.cp))
    BY <1>1, <2>1, <2>2 DEF Returning
  <2>6. \A cell \in Defaults(op.cp) : Shown(trae, cell) = Shown(Native(op.cp), cell)
    BY <2>5, BecomesDone
  <2>7. trae.chosen = native.chosen
    <3>1. ASSUME NEW l \in Labels PROVE trae.chosen[l] = native.chosen[l]
      <4>1. <<"label", l>> \in Defaults(op.cp)
        BY DEF Defaults, LabelCells
      <4>2. Shown(trae, <<"label", l>>) = trae.chosen[l] /\ Shown(Native(op.cp), <<"label", l>>) = op.cp.base[l]
        BY DEF Shown, Native
      <4> QED BY <2>4, <2>6, <4>1, <4>2
    <3>2. trae.chosen \in [Labels -> Selections] /\ native.chosen \in [Labels -> Selections]
      BY <2>2, <2>3, StateFields
    <3> QED BY <3>1, <3>2
  <2>8. ASSUME native.task # NoTask PROVE Effective(trae, native.task) = Effective(native, native.task)
    <3>1. native.task \in Tasks
      BY <2>3, <2>8, StateFields
    <3>2. <<"task", native.task>> \in Defaults(op.cp)
      BY <2>4, <3>1 DEF Defaults, TaskCells
    <3>3. Shown(trae, <<"task", native.task>>) = trae.picks[native.task]
          /\ Shown(Native(op.cp), <<"task", native.task>>) = op.cp.pick
      BY <3>1 DEF Shown, Native
    <3>4. trae.picks[native.task] = native.picks[native.task]
      BY <2>4, <2>6, <2>8, <3>2, <3>3 DEF StoredPick
    <3> QED BY <2>7, <3>4 DEF Effective
  <2>9. DOMAIN native.rows \subseteq DOMAIN trae.rows
    BY <2>2 DEF Found
  <2> QED BY <2>2, <2>7, <2>8, <2>9 DEF Accounted, Mishaps
<1>2. IInv => RestoreReturnsNative
  BY <1>1 DEF RestoreReturnsNative, Reached
<1> QED BY <1>2, InvHolds, PTL

\* A binding that is shown as healthy is served: its composers have models that
\* TRAE has, and the model of the checkpoint (verify_cached).
THEOREM TraeVerifiedIsServed == ASSUME Assumptions PROVE Spec => []VerifiedIsServed
<1>1. ASSUME IInv, op.phase = "idle", Verified
      PROVE  /\ spent.fault = 0 \/ (spent.crash = 0 /\ spent.fault <= 2) =>
                  \A l \in Labels : trae.chosen[l] \in DOMAIN trae.rows
             /\ spent.crash + spent.fault <= 1 \/ (spent.crash = 0 /\ spent.fault <= 2) =>
                  \A l \in Labels : trae.chosen[l] = saved.active
  <2>1. Healthy /\ Active /\ spent \in Spents
    BY <1>1 DEF IInv, Core, Typed
  <2>2. spent.fault \in Nat /\ spent.crash \in Nat
    BY <2>1, SpentIs
  <2>3. /\ saved # None /\ ~saved.pending /\ saved.active # None
        /\ \E r \in saved.owned \cup saved.borrowed : r.name = saved.active /\ r.name[1] = binding
        /\ \A l \in Labels : trae.chosen[l] # Automatic /\ trae.chosen[l][1] = binding
    BY <1>1 DEF Verified
  <2>4. ASSUME spent.fault = 0 \/ (spent.crash = 0 /\ spent.fault <= 2), NEW l \in Labels
        PROVE  trae.chosen[l] \in DOMAIN trae.rows
    BY <1>1, <2>1, <2>3, <2>4 DEF Healthy, Exists
  <2>5. ASSUME spent.crash + spent.fault <= 1 \/ (spent.crash = 0 /\ spent.fault <= 2), NEW l \in Labels PROVE trae.chosen[l] = saved.active
    <3>1. AloneIn(trae.rows, saved.active)
      BY <1>1, <2>1, <2>2, <2>3, <2>5 DEF Active, Accidents, Few
    <3>2. trae.chosen[l] \in DOMAIN trae.rows
      BY <2>2, <2>4, <2>5
    <3>3. trae.chosen[l][1] = saved.active[1]
      BY <2>3
    <3> QED BY <2>3, <3>1, <3>2, <3>3 DEF AloneIn
  <2> QED BY <2>4, <2>5
<1>2. IInv => VerifiedIsServed
  BY <1>1 DEF VerifiedIsServed, Reached
<1> QED BY <1>2, InvHolds, PTL
=============================================================================
