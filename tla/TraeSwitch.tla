----------------------------- MODULE TraeSwitch -----------------------------
(***************************************************************************)
(* agents/trae.rs: TRAE keeps its custom models and its selections behind  *)
(* a service of its own.  A switch is a series of calls to that service,   *)
(* each of which may fail before or after its effect (an acknowledgement   *)
(* lost), interleaved with saves of AT-Switch's checkpoint, and a failure  *)
(* is compensated by further calls, which may fail as well.                *)
(*                                                                         *)
(* A call stands for itself with the one retry that trae.rs gives it.      *)
(* Of the tasks of the three composers only those of the first are here.   *)
(* Operations on services never overlap (service_operations in mod.rs);    *)
(* the user opens tasks at any time and selects models between operations. *)
(***************************************************************************)
EXTENDS Naturals, Sequences, FiniteSets, SequencesExt

CONSTANTS
  Primary,   \* the selection label of the agent composer
  Extras,    \* the other labels, in their order; the IDE's is the last
  Bases,     \* the models of one provider, which give a row its display name
  MaxKey,    \* bound on the provider's API keys, one after the other
  Tasks,
  Copies,    \* bound on the number appended to a display name
  MaxCalls,  \* bound on the switches and restores
  MaxFaults, MaxCrashes, MaxUser,  \* bounds on faults, stops and the user's acts,
  MaxEvents, \* and on all of them
  Automatic, NoTask, Unset, None

Labels == {Primary} \cup ToSet(Extras)
Keys == 1 .. MaxKey
Names == Bases \X (0 .. Copies)   \* copy 0 is a row the user made
Selections == Names \cup {Automatic}
Rows == [name : Names, key : Keys]

\* Rows with the keys they were made with (Unset in the user's own), selections,
\* picks and the open task.
States ==
  [rows : UNION {[S -> Keys \cup {Unset}] : S \in SUBSET Names}, chosen : [Labels -> Selections],
   task : Tasks \cup {NoTask}, picks : [Tasks -> Selections \cup {Unset}]]

\* Checkpoints: the baseline, the tasks switched, AT-Switch's own rows and those
\* it borrowed from the user, the active one, and whether something is left.
Cps ==
  [base : [Labels -> Selections], task : Tasks \cup {NoTask}, pick : Selections \cup {Unset},
   tasks : UNION {[S -> Selections] : S \in SUBSET Tasks}, owned : SUBSET Rows, borrowed : SUBSET Rows,
   active : Names \cup {None}, pending : BOOLEAN]

\* There are models, tasks and a key, and a number for every row a switch adds.
Assumptions ==
  /\ Extras \in Seq(ToSet(Extras)) /\ Extras # <<>>
  /\ IsFiniteSet(Bases) /\ Bases # {} /\ IsFiniteSet(Tasks) /\ Tasks # {} /\ NoTask \notin Tasks
  /\ MaxKey \in Nat \ {0} /\ MaxCalls \in Nat /\ Copies \in Nat /\ MaxCalls <= Copies
  /\ Automatic \notin Names /\ Unset \notin Selections
  /\ None \notin Names \cup Bases \cup States \cup Cps

VARIABLES
  trae,     \* rows, selections by label, picks by task and the open task
  saved,    \* the service checkpoint
  past,     \* the rows owned in some saved checkpoint (its immutable history)
  binding,  \* the model in the row of agent_bindings
  key,      \* the API key the provider has now
  op,       \* the switch or restore in progress
  native,   \* history: trae before the first takeover
  spent     \* calls and events so far, for the bounds

vars == <<trae, saved, past, binding, key, op, native, spent>>

Idle == [call |-> "none", phase |-> "idle"]
Reached(phase) == op.phase = phase
Events == spent.fault + spent.crash + spent.user
Spend(kind) ==
  /\ spent[kind] < [call |-> MaxCalls, fault |-> MaxFaults, crash |-> MaxCrashes, user |-> MaxUser][kind]
  /\ kind # "call" => Events < MaxEvents
  /\ spent' = [spent EXCEPT ![kind] = @ + 1]
Fault == Spend("fault")

Exists(rows) == DOMAIN rows \cup {Automatic}
NoRows == [n \in {} |-> None]

FirstTask == CHOOSE t \in Tasks : TRUE

\* The selections TRAE may be in before AT-Switch comes: a row of the user's own
\* for some model, or none; one task, which may have a pick, open or not.
Init ==
  /\ \E rows \in {NoRows} \cup [{<<CHOOSE b \in Bases : TRUE, 0>>} -> {Unset}],
        task \in {FirstTask, NoTask} :
     \E default \in Exists(rows), pick \in Exists(rows) \cup {Unset} :
       trae = [rows |-> rows, chosen |-> [l \in Labels |-> default], task |-> task,
               picks |-> [t \in Tasks |-> IF t = FirstTask THEN pick ELSE Unset]]
  /\ saved = None
  /\ past = {}
  /\ binding = None
  /\ key = 1
  /\ op = Idle
  /\ native = None
  /\ spent = [call |-> 0, fault |-> 0, crash |-> 0, user |-> 0]

-----------------------------------------------------------------------------
(* The service of TRAE *)

\* A task without a pick of its own follows the default.
Effective(t, task) == IF task = NoTask \/ t.picks[task] = Unset THEN t.chosen[Primary] ELSE t.picks[task]

\* snapshot fails if something selected is not in the list.
Readable ==
  /\ \A l \in Labels : trae.chosen[l] \in Exists(trae.rows)
  /\ trae.task # NoTask => Effective(trae, trae.task) \in Exists(trae.rows)

Select(label, name, task) == [do |-> "select", label |-> label, to |-> name, task |-> task, pick |-> name]
\* restore_selection_baseline, restore_ide: what was stored, even if it was nothing.
PutBack(label, name, task, pick) == [do |-> "put", label |-> label, to |-> name, task |-> task, pick |-> pick]
Add(row) == [do |-> "add", row |-> row]
Delete(name) == [do |-> "delete", name |-> name]

\* TRAE refuses a selection of a model it has not, and a second row of one model.
Accepts(c) ==
  CASE c.do = "select" -> c.to \in Exists(trae.rows)
    [] c.do = "add"    -> \A n \in DOMAIN trae.rows : n[1] # c.row.name[1]
    [] OTHER           -> TRUE

After(c) ==
  CASE c.do \in {"select", "put"} ->
         [trae EXCEPT !.chosen[c.label] = c.to,
                      !.picks = [t \in Tasks |-> IF t = c.task THEN c.pick ELSE @[t]]]
    [] c.do = "add" ->
         [trae EXCEPT !.rows = [n \in DOMAIN @ \cup {c.row.name} |->
                                  IF n = c.row.name THEN c.row.key ELSE @[n]]]
    [] c.do = "delete" ->
         [trae EXCEPT !.rows = [n \in DOMAIN @ \ {c.name} |-> @[n]]]

\* One call: done and acknowledged, refused, or failed with or without its effect.
Answered(c, ok) ==
  \/ ok /\ Accepts(c) /\ trae' = After(c) /\ UNCHANGED spent
  \/ ~ok /\ ~Accepts(c) /\ UNCHANGED <<trae, spent>>
  \/ ~ok /\ Fault /\ trae' \in {trae} \cup {After(d) : d \in {x \in {c} : Accepts(x)}}

-----------------------------------------------------------------------------
(* Checkpoints *)

\* save_service_checkpoint: an immutable backup, then the current one.
Stored(cp) == saved' = cp /\ past' = past \cup cp.owned
Saves(cp) == Stored(cp) /\ UNCHANGED spent
SaveFails == Fault /\ UNCHANGED <<saved, past>>

\* The first entry for a task stays.
WithTask(tasks, task, pick) ==
  IF task = NoTask \/ task \in DOMAIN tasks THEN tasks
  ELSE [t \in DOMAIN tasks \cup {task} |-> IF t = task THEN pick ELSE tasks[t]]

OpenPick(t) == IF t.task = NoTask THEN Unset ELSE Effective(t, t.task)
StoredPick(t) == IF t.task = NoTask THEN Unset ELSE t.picks[t.task]

\* Mutant: every switch takes what it finds as the baseline.
CheckpointAnew ==
  [base |-> trae.chosen, task |-> trae.task, pick |-> StoredPick(trae),
   tasks |-> [t \in {} |-> Unset],
   owned |-> IF saved = None THEN {} ELSE saved.owned,
   borrowed |-> IF saved = None THEN {} ELSE saved.borrowed,
   active |-> IF saved = None THEN None ELSE saved.active, pending |-> FALSE]
Checkpoint ==
  IF saved # None THEN saved
  ELSE [base |-> trae.chosen, task |-> trae.task, pick |-> StoredPick(trae),
        tasks |-> [t \in {} |-> Unset], owned |-> {}, borrowed |-> {}, active |-> None,
        pending |-> FALSE]

\* Mutant: the row is added beside an older one of its name.
Appended(rows, row) == rows \cup {row}
Upsert(rows, row) == {r \in rows : r.name # row.name} \cup {row}

-----------------------------------------------------------------------------
(* apply *)

CanCall == Reached("idle")
Calls == Spend("call")

Matching(rows, input) == {r \in rows : r.name[1] = input.base /\ r.key = input.key}
\* The checkpoint is asked first, then its history.
FirstOf(a, b) == IF a # {} THEN a ELSE b
Oldest(rows) == CHOOSE r \in rows : \A q \in rows : r.name[2] <= q.name[2]
Named(rows, name) == {r \in rows : r.name = name}

\* available_display_name
FreeName(base, taken) ==
  <<base, CHOOSE i \in 1 .. Copies : <<base, i>> \notin taken /\ \A j \in 1 .. i - 1 : <<base, j>> \in taken>>

Plan(row, created, borrowed, replaced) ==
  [row |-> row, created |-> created, borrowed |-> borrowed, replaced |-> replaced, was |-> trae]

\* Reuse the row of this very input, replace the one of this name, borrow the
\* user's, or add one.
Plans(cp, input) ==
  LET here     == DOMAIN trae.rows
      expected == <<input.base, 1>>
      known    == FirstOf(Matching(cp.owned, input), Matching(past, input))
      named    == FirstOf(Named(cp.owned, expected), Named(past, expected))
      present  == {n \in here : n[1] = input.base}
      row(n)   == [name |-> n, key |-> input.key]
  IN  IF known # {} /\ Oldest(known).name \in here THEN {Plan(Oldest(known), FALSE, FALSE, {})}
      ELSE IF named # {} /\ expected \in here THEN {Plan(row(expected), TRUE, FALSE, {r}) : r \in named}
      ELSE IF present # {} THEN {Plan(row(n), FALSE, TRUE, {}) : n \in present}
      ELSE {Plan(row(FreeName(input.base, here \cup {r.name : r \in cp.owned})), TRUE, FALSE, {})}

\* What the switch will have made or borrowed, on record before it is made.
Planned(cp, plan) ==
  LET rest == cp.owned \cup {r \in plan.replaced : Named(cp.owned, r.name) = {}} IN
  [cp EXCEPT !.tasks = WithTask(@, plan.was.task, OpenPick(plan.was)),
             !.owned = IF plan.borrowed THEN rest ELSE Upsert(rest, plan.row),
             !.borrowed = IF plan.borrowed THEN Upsert(@, plan.row) ELSE @,
             !.pending = TRUE]

\* apply_ui_change
Steps(plan) ==
  [i \in 1 .. Cardinality(plan.replaced) |-> Delete(plan.row.name)]
  \o (IF plan.created THEN <<Add(plan.row)>> ELSE <<>>)
  \o <<Select(Primary, plan.row.name, plan.was.task)>>
  \o [i \in DOMAIN Extras |-> Select(Extras[i], plan.row.name, NoTask)]

SwitchPlanned(base) ==
  /\ CanCall
  /\ Readable
  /\ \E plan \in Plans(Checkpoint, [base |-> base, key |-> key]) :
       LET cp == Planned(Checkpoint, plan) IN
       /\ op' = [call |-> "switch", phase |-> "apply", base |-> base, cp |-> cp, old |-> Checkpoint,
                 bound |-> binding, plan |-> plan, task |-> plan.was.task, pick |-> OpenPick(plan.was),
                 todo |-> Steps(plan), tried |-> {}, bad |-> {}]
       /\ saved' = cp
       /\ past' = past \cup cp.owned
  /\ native' = IF native = None THEN trae ELSE native
  /\ Calls
  /\ UNCHANGED <<trae, binding, key>>

\* Planning and its save change nothing else: their failures are no steps.

\* snapshot_contains_plan and the check after a failed selection: an effect
\* without its acknowledgement is taken for success.
Seen(c) ==
  \/ c.do = "add" /\ op.plan.row.name \in DOMAIN trae'.rows
  \/ /\ c.do = "select" /\ c.label = Primary
     /\ trae'.chosen[Primary] = c.to
     /\ c.task # NoTask => trae'.task = c.task /\ trae'.picks[c.task] = c.to

\* Mutant: a selection that fails forgets the row that was just added.
TriedForgotten(c, ok) ==
  CASE c.do = "delete"    -> op.tried \cup {"delete"}
    [] c.do = "add" /\ ok -> op.tried \cup {"add", "added"}
    [] OTHER              -> op.tried \ {"add", "added"}

Tried(c, ok) ==
  CASE c.do = "delete" -> op.tried \cup {"delete"}
    [] c.do = "add"    -> op.tried \cup (IF ok THEN {"add", "added"} ELSE {"add"})
    [] OTHER           -> op.tried

\* rollback_ui_change: the new row is freed first if it took the place of
\* another, every selector is put back, and only then a new row is removed.
\* The row replaced is added with the key of now.
Compensation(tried, task, pick) ==
  LET was  == op.plan.was
      name == op.plan.row.name
      swap == "delete" \in tried
      lost == "added" \notin tried /\ name \notin DOMAIN trae'.rows
      last == Len(Extras)
  IN  (IF "add" \in tried /\ ~lost /\ swap THEN <<Delete(name)>> ELSE <<>>)
      \o (IF swap THEN <<Add(op.plan.row)>> ELSE <<>>)
      \o (IF task # NoTask THEN <<Select(Primary, pick, task)>> ELSE <<>>)
      \o [i \in 1 .. last - 1 |-> PutBack(Extras[i], was.chosen[Extras[i]], NoTask, Unset)]
      \o <<PutBack(Primary, was.chosen[Primary], was.task, StoredPick(was))>>
      \o <<PutBack(Extras[last], was.chosen[Extras[last]], NoTask, Unset)>>
      \o (IF "add" \in tried /\ ~lost /\ ~swap THEN <<Delete(name)>> ELSE <<>>)

RollsBack(tried) ==
  op' = [op EXCEPT !.phase = "undo", !.todo = Compensation(tried, op.task, op.pick), !.tried = tried]

\* The next call of apply_ui_change, or the selection for a task just opened.
Applying ==
  /\ op.phase \in {"apply", "review"} /\ op.todo # <<>>
  /\ LET c == Head(op.todo) IN
     \E ok \in BOOLEAN :
       /\ Answered(c, ok)
       /\ IF ok \/ (Reached("apply") /\ Seen(c))
            THEN op' = [op EXCEPT !.todo = Tail(@), !.tried = Tried(c, TRUE)]
            ELSE RollsBack(Tried(c, FALSE))
  /\ UNCHANGED <<saved, past, binding, key, native>>

\* The composer is read again.  A task that was opened meanwhile gets its
\* baseline and is switched too, or put back if the baseline is not saved; a
\* change of tasks ends the switch.
Reviewed ==
  /\ op.phase \in {"apply", "review"} /\ op.todo = <<>>
  /\ UNCHANGED <<trae, binding, key, native>>
  /\ LET name == op.plan.row.name IN
     \/ /\ trae.task = NoTask \/ Effective(trae, trae.task) = name
        /\ op.task \in {NoTask, trae.task} \/ trae.task = NoTask
        /\ op' = [op EXCEPT !.phase = "verify"]
        /\ UNCHANGED <<saved, past, spent>>
     \/ /\ trae.task # NoTask /\ op.task = NoTask
        /\ Effective(trae, trae.task) # name
        /\ LET pick == Effective(trae, trae.task)
               cp == [op.cp EXCEPT !.tasks = WithTask(@, trae.task, pick)]
               Joined(phase, todo) == [op EXCEPT !.phase = phase, !.cp = cp, !.task = trae.task,
                                                 !.pick = pick, !.todo = todo]
           IN \/ op' = Joined("review", <<Select(Primary, name, trae.task)>>) /\ Saves(cp)
              \/ op' = Joined("undo", Compensation(op.tried, trae.task, pick)) /\ SaveFails
     \/ /\ trae.task # NoTask /\ op.task \notin {NoTask, trae.task}
        /\ RollsBack(op.tried)
        /\ UNCHANGED <<saved, past, spent>>
     \/ RollsBack(op.tried) /\ SaveFails

\* verify_persisted_default_in_running_session
Persisted ==
  /\ \A l \in Labels : trae.chosen[l] = op.plan.row.name
  /\ op.task # NoTask => trae.picks[op.task] = op.plan.row.name

Finished(cp) == [cp EXCEPT !.active = op.plan.row.name, !.pending = FALSE]

Activated ==
  /\ Reached("verify")
  /\ UNCHANGED <<trae, binding, key, native>>
  /\ \/ /\ Persisted
        /\ op' = [op EXCEPT !.phase = "commit", !.cp = Finished(@)]
        /\ Saves(Finished(op.cp))
     \/ Persisted /\ RollsBack(op.tried) /\ SaveFails
     \/ ~Persisted /\ RollsBack(op.tried) /\ UNCHANGED <<saved, past, spent>>

Committed ==
  /\ Reached("commit") /\ op.call = "switch"
  /\ UNCHANGED <<trae, saved, past, key, native>>
  /\ \/ binding' = op.base /\ op' = [op EXCEPT !.phase = "handover"] /\ UNCHANGED spent
     \/ RollsBack(op.tried) /\ Fault /\ UNCHANGED binding

\* complete_operation; the binding of before is saved again after any error.
HandedOver ==
  /\ Reached("handover")
  /\ UNCHANGED <<trae, saved, past, key, native>>
  /\ \/ op' = [op EXCEPT !.phase = "done"] /\ UNCHANGED <<binding, spent>>
     \/ op' = [op EXCEPT !.phase = "unfinished"] /\ binding' = op.bound /\ Fault

Part(c) ==
  CASE c.do = "delete" -> "removal"
    [] c.do = "add"    -> "replaced"
    [] OTHER           -> "selection"

\* Every compensating call is made, whatever became of the ones before it.  The
\* row replaced counts as put back if it is there or can be selected.
Undoing ==
  /\ Reached("undo") /\ op.todo # <<>>
  /\ LET c == Head(op.todo) IN
     \E ok \in BOOLEAN :
       /\ IF c.do = "add" /\ c.row.name \in DOMAIN trae.rows
            THEN ok /\ UNCHANGED <<trae, spent>>
            ELSE \/ Answered(c, ok)
                 \/ c.do = "add" /\ ok /\ Accepts(c) /\ Fault /\ trae' = After(c)
       /\ op' = [op EXCEPT !.todo = Tail(@), !.bad = IF ok THEN @ ELSE @ \cup {Part(c)}]
  /\ UNCHANGED <<saved, past, binding, key, native>>

\* record_rollback_checkpoint; failing to save it is not reported.
RolledBack ==
  LET plan == op.plan
      kept == IF plan.created /\ "removal" \notin op.bad
                THEN {r \in op.cp.owned : r.name # plan.row.name} ELSE op.cp.owned
      whole == op.bad = {}
      cp == [op.cp EXCEPT !.active = op.old.active,
                          !.owned = IF whole THEN {r \in kept : Named(plan.replaced, r.name) = {}} \cup plan.replaced
                                    ELSE kept,
                          !.borrowed = IF whole THEN op.old.borrowed ELSE @,
                          !.pending = ~whole]
  IN /\ Reached("undo") /\ op.call = "switch" /\ op.todo = <<>>
     /\ op' = [op EXCEPT !.phase = "failed"]
     /\ binding' = op.bound
     /\ Saves(cp) \/ SaveFails
     /\ UNCHANGED <<trae, key, native>>

-----------------------------------------------------------------------------
(* restore *)

\* Tasks first, then the defaults: the primary one and the others.
Restoration(cp) ==
  LET tasks == SetToSeq(DOMAIN cp.tasks) IN
  [i \in DOMAIN tasks |-> Select(Primary, cp.tasks[tasks[i]], tasks[i])]
  \o <<PutBack(Primary, cp.base[Primary], cp.task, cp.pick)>>
  \o [i \in DOMAIN Extras |-> PutBack(Extras[i], cp.base[Extras[i]], NoTask, Unset)]

RestoreBegins ==
  /\ CanCall /\ saved # None
  /\ LET cp == [saved EXCEPT !.pending = TRUE] IN
     /\ op' = [call |-> "restore", phase |-> "restore", cp |-> cp, bound |-> binding,
               todo |-> Restoration(cp), kept |-> {}]
     /\ saved' = cp
  /\ Calls
  /\ UNCHANGED <<trae, past, binding, key, native>>

\* The first call that fails ends the restore, which stays pending.
Restoring ==
  /\ Reached("restore") /\ op.todo # <<>>
  /\ \E ok \in BOOLEAN :
       /\ Answered(Head(op.todo), ok)
       /\ op' = IF ok THEN [op EXCEPT !.todo = Tail(@)] ELSE [op EXCEPT !.phase = "failed"]
  /\ UNCHANGED <<saved, past, binding, key, native>>

\* The binding is forgotten.  If it cannot be, the model is selected again.
Forgotten ==
  /\ Reached("restore") /\ op.todo = <<>>
  /\ UNCHANGED <<trae, saved, past, key, native>>
  /\ \/ binding' = None /\ op' = [op EXCEPT !.phase = "release"] /\ UNCHANGED spent
     \/ /\ Fault /\ UNCHANGED binding
        /\ op' = [op EXCEPT !.phase = "again",
                            !.todo = IF op.cp.active = None THEN <<>>
                                     ELSE <<Select(Primary, op.cp.active, NoTask)>> \o
                                          [i \in DOMAIN Extras |-> Select(Extras[i], op.cp.active, NoTask)]]

Reselecting ==
  /\ Reached("again")
  /\ UNCHANGED <<binding, key, native>>
  /\ \/ /\ op.todo # <<>>
        /\ UNCHANGED past
        /\ \/ Answered(Head(op.todo), TRUE) /\ op' = [op EXCEPT !.todo = Tail(@)] /\ UNCHANGED saved
           \/ Answered(Head(op.todo), FALSE) /\ op' = [op EXCEPT !.phase = "failed"] /\ UNCHANGED saved
     \/ /\ op.todo = <<>>
        /\ op' = [op EXCEPT !.phase = "failed"]
        /\ UNCHANGED trae
        /\ Saves([op.cp EXCEPT !.pending = FALSE]) \/ SaveFails

\* Nothing is active any more, whatever becomes of the rows.
Released ==
  LET cp == [op.cp EXCEPT !.active = None, !.borrowed = {}]
      names == SetToSeq({r.name : r \in cp.owned}) IN
  /\ Reached("release")
  /\ UNCHANGED <<trae, key, native>>
  /\ \/ /\ Saves(cp) /\ UNCHANGED binding
        /\ op' = [op EXCEPT !.phase = "clean", !.cp = cp, !.todo = [i \in DOMAIN names |-> Delete(names[i])]]
     \/ SaveFails /\ binding' = op.bound /\ op' = [op EXCEPT !.phase = "failed"]

Cleaning ==
  /\ Reached("clean") /\ op.todo # <<>>
  /\ \E ok \in BOOLEAN :
       /\ Answered(Head(op.todo), ok)
       /\ op' = [op EXCEPT !.todo = Tail(@), !.kept = IF ok THEN @ ELSE @ \cup {Head(op.todo).name}]
  /\ UNCHANGED <<saved, past, binding, key, native>>

\* Rows that could not be deleted are left to the next restore.  After any error,
\* that of complete_operation included, the binding is saved again.
Cleaned ==
  LET owned == {r \in op.cp.owned : r.name \in op.kept}
      cp == [op.cp EXCEPT !.owned = owned, !.pending = owned # {}] IN
  /\ Reached("clean") /\ op.todo = <<>>
  /\ UNCHANGED <<trae, key, native>>
  /\ \/ Saves(cp) /\ op' = [op EXCEPT !.phase = "restored"] /\ UNCHANGED binding
     \/ /\ SaveFails \/ (Fault /\ Stored(cp))
        /\ binding' = op.bound /\ op' = [op EXCEPT !.phase = "failed"]

-----------------------------------------------------------------------------
(* The user, and a stop of AT-Switch *)

Returned ==
  /\ op.phase \in {"done", "failed", "unfinished", "restored"}
  /\ op' = Idle
  /\ UNCHANGED <<trae, saved, past, binding, key, native, spent>>

TaskOpened ==
  /\ \E t \in Tasks \ {trae.task} : trae' = [trae EXCEPT !.task = t]
  /\ Spend("user")
  /\ UNCHANGED <<saved, past, binding, op, key, native>>

ModelChosen ==
  /\ Reached("idle")
  /\ \E l \in Labels, name \in Exists(trae.rows) : trae' = After(Select(l, name, NoTask))
  /\ Spend("user")
  /\ UNCHANGED <<saved, past, binding, op, key, native>>

KeyReplaced ==
  /\ Reached("idle") /\ key < MaxKey
  /\ key' = key + 1
  /\ UNCHANGED <<trae, saved, past, binding, op, native, spent>>

Crash ==
  /\ ~Reached("idle") 
  /\ op' = Idle
  /\ Spend("crash")
  /\ UNCHANGED <<trae, saved, past, binding, key, native>>

SwitchStep == Applying \/ Reviewed \/ Activated \/ Committed \/ HandedOver \/ Undoing \/ RolledBack
RestoreStep == Restoring \/ Forgotten \/ Reselecting \/ Released \/ Cleaning \/ Cleaned

Next ==
  \/ \E base \in Bases : SwitchPlanned(base)
  \/ RestoreBegins
  \/ SwitchStep \/ RestoreStep \/ Returned
  \/ TaskOpened \/ ModelChosen \/ KeyReplaced \/ Crash

Spec == Init /\ [][Next]_vars

-----------------------------------------------------------------------------
(* Properties *)

\* The variables keep their types.  No checkpoint owns two rows of one name, so
\* upsert never leaves an older row of that name behind.
TypeOK ==
  /\ DOMAIN trae.rows \subseteq Names
  /\ trae.chosen \in [Labels -> Selections]
  /\ trae.picks \in [Tasks -> Selections \cup {Unset}] /\ trae.task \in Tasks \cup {NoTask}
  /\ saved # None => /\ saved.owned \cup saved.borrowed \subseteq Rows /\ saved.pending \in BOOLEAN
                     /\ saved.active \in Names \cup {None} /\ DOMAIN saved.tasks \subseteq Tasks
                     /\ \A r, q \in saved.owned : r.name = q.name => r = q
  /\ past \subseteq Rows
  /\ binding \in Bases \cup {None} /\ key \in Keys

Same(a, b) ==
  /\ a.chosen = b.chosen
  /\ \A t \in Tasks : Effective(a, t) = Effective(b, t)
  /\ DOMAIN a.rows = DOMAIN b.rows

\* A switch that is reported failed has changed nothing that anyone can see, or
\* its checkpoint says that something is left to be restored, whichever of its
\* calls failed and whatever became of the compensating ones: unless the switch
\* had saved its checkpoint as finished, and neither a compensating call nor the
\* save of what is left succeeded (record_rollback_checkpoint reports neither).
FailedSwitchIsCompensated ==
  Reached("failed") /\ op.call = "switch" =>
    saved.pending \/ Same(trae, op.plan.was) \/ (op.bad # {} /\ saved = op.cp /\ ~op.cp.pending)

\* A finished restore has brought back the defaults and the open task's model of
\* before the first takeover and has left the user's rows alone.  Every row that
\* AT-Switch made is gone or still on record to be removed, unless two calls
\* failed, or a task was opened and a call failed (record_rollback_checkpoint can
\* then forget a row).
RestoreReturnsNative ==
  Reached("restored") =>
    /\ trae.chosen = native.chosen
    /\ native.task # NoTask => Effective(trae, native.task) = Effective(native, native.task)
    /\ DOMAIN native.rows \subseteq DOMAIN trae.rows
    /\ spent.fault + spent.user <= 1 =>
         \A n \in DOMAIN trae.rows : n[2] = 0 \/ Named(saved.owned, n) # {}

\* verify_cached: what the window calls a healthy binding.
Verified ==
  /\ saved # None /\ ~saved.pending /\ saved.active # None
  /\ \E r \in saved.owned \cup saved.borrowed : r.name = saved.active /\ r.name[1] = binding /\ r.key = key
  /\ \A l \in Labels : trae.chosen[l] # Automatic /\ trae.chosen[l][1] = binding

\* A binding that is shown as healthy is served: TRAE has the models its
\* composers have, even if AT-Switch stopped, or if up to two calls failed; and
\* unless both happened, or two of either, each is the model of the checkpoint.
VerifiedIsServed ==
  Reached("idle") /\ binding # None /\ Verified =>
    /\ spent.fault = 0 \/ (spent.crash = 0 /\ spent.fault <= 2) =>
         \A l \in Labels : trae.chosen[l] \in DOMAIN trae.rows
    /\ spent.crash + spent.fault <= 1 \/ (spent.crash = 0 /\ spent.fault <= 2) =>
         \A l \in Labels : trae.chosen[l] = saved.active

\* A row that AT-Switch makes is on record before it is there and as long as it
\* is there, through failures and stops, so no row is ever taken for the user's.
OnRecord == \A n \in DOMAIN trae.rows : n[2] > 0 => \E r \in past : r.name = n

=============================================================================
