----------------------------- MODULE ImaBinding -----------------------------
(***************************************************************************)
(* agents/ima/binding.rs: ima keeps the user's custom models and, for each *)
(* of its two entries, the preferred one in an online account; a local     *)
(* file repeats the choice.  A switch or a restore is a series of requests *)
(* to the account, each of which may fail before or after its effect, and  *)
(* of saves of a checkpoint, whose journal (pending) says what to undo.    *)
(*                                                                         *)
(* An operation is its list of steps still to do.  A step that reads the   *)
(* account puts the steps that follow from it in its place.  Operations    *)
(* never overlap (service_operations); the user, in ima or on another      *)
(* device, changes the account between them.                               *)
(***************************************************************************)
EXTENDS ImaTypes, Sequences, FiniteSets

CONSTANTS
  MaxCalls,  \* bound on the switches and restores
  MaxFaults, MaxCrashes, MaxUser,  \* bounds on faults, stops and the user's acts,
  MaxEvents  \* and on all of them

VARIABLES
  account,  \* ima's online account
  file,     \* the choice of each entry in the local preferences
  saved,    \* the service checkpoint
  binding,  \* the input in the row of agent_bindings
  op,       \* the switch or restore in progress
  native,   \* history: the selection before the first switch
  spent     \* calls and events so far, for the bounds

vars == <<account, file, saved, binding, op, native, spent>>

Idle == [call |-> "none", todo |-> <<>>]
Resting == op.call = "none"
Events == spent.fault + spent.crash + spent.user
Spend(kind) ==
  /\ spent[kind] < [call |-> MaxCalls, fault |-> MaxFaults, crash |-> MaxCrashes, user |-> MaxUser][kind]
  /\ kind # "call" => Events < MaxEvents
  /\ spent' = [spent EXCEPT ![kind] = @ + 1]
Fault == Spend("fault")

Rows(a) == DOMAIN a.rows
Selectable == Rows(account) \cup {Official}
Matching(input) == {i \in Rows(account) : account.rows[i] = input}

\* An account with or without a row of the user's, and any choice of its models.
Init ==
  /\ \E rows \in {[i \in {} |-> None]} \cup [{1} -> Inputs] :
       \E pref \in [Scenes -> DOMAIN rows \cup {Official, Empty}],
          chosen \in DOMAIN rows \cup {Official, None} :
         /\ account = [rows |-> rows, pref |-> pref, next |-> Cardinality(DOMAIN rows) + 1, ours |-> {}]
         /\ file = [s \in Scenes |-> chosen]
  /\ saved = None
  /\ binding = None
  /\ op = Idle
  /\ native = None
  /\ spent = [call |-> 0, fault |-> 0, crash |-> 0, user |-> 0]

-----------------------------------------------------------------------------
(* Requests to the account *)

\* effective_preferred_id: a preference for a row that is gone counts as none.
Effective(s) == IF account.pref[s] \in Selectable THEN account.pref[s] ELSE Empty
Selection == [pref |-> [s \in Scenes |-> Effective(s)], file |-> file]

\* ima refuses a second row of one configuration, and a choice it does not have.
Accepts(c) ==
  CASE c.do = "set"    -> c.id \in Selectable
    [] c.do = "add"    -> Matching(c.input) = {} /\ account.next \in Ids
    [] c.do = "modify" -> c.id \in Rows(account) /\ Matching(c.input) = {}
    [] c.do = "delete" -> TRUE

\* The inputs of the rows that an unfinished switch was about to make.
Expected(input) ==
  saved # None /\ saved.pending # None
  /\ (saved.pending.add = input \/ (saved.pending.previous # None /\ saved.pending.previous.input = input))

\* A row that is made just like that by hand, added or changed, cannot be told
\* from the one of that switch.
ByHand(id, input) == IF Resting /\ Expected(input) /\ id \notin saved.pending.ids THEN {id} ELSE {}

\* Deleting a preferred row leaves its id behind or clears the preference.
Outcomes(c) ==
  CASE c.do = "set"    -> {[account EXCEPT !.pref[c.scene] = c.id]}
    [] c.do = "add"    -> {[account EXCEPT !.next = @ + 1, !.rows = [i \in DOMAIN @ \cup {account.next} |->
                                                       IF i = account.next THEN c.input ELSE @[i]],
                             !.ours = @ \cup IF Resting THEN ByHand(account.next, c.input) ELSE {account.next}]}
    [] c.do = "modify" -> {[account EXCEPT !.rows[c.id] = c.input, !.ours = @ \cup ByHand(c.id, c.input)]}
    [] c.do = "delete" -> {[account EXCEPT !.rows = [i \in DOMAIN @ \ {c.id} |-> @[i]],
                                           !.pref = p] :
                             p \in {account.pref,
                                    [s \in Scenes |-> IF account.pref[s] = c.id THEN Empty ELSE account.pref[s]]}}

\* done; a conflict of rows; rejected, for want of the model or for a reason of
\* its own; lost, with or without its effect.
Answered(c, answer) ==
  \/ answer = "ok" /\ Accepts(c) /\ account' \in Outcomes(c) /\ UNCHANGED spent
  \/ /\ answer = (IF c.do = "set" THEN "rejected" ELSE "conflict")
     /\ ~Accepts(c) /\ UNCHANGED <<account, spent>>
  \/ answer = "rejected" /\ Fault /\ UNCHANGED account
  \/ answer = "lost" /\ Fault /\ account' \in {account} \cup (IF Accepts(c) THEN Outcomes(c) ELSE {})
Answers == {"ok", "conflict", "rejected", "lost"}

-----------------------------------------------------------------------------
(* The steps of an operation *)

Do(step) == [do |-> step]
At(step) == op.todo # <<>> /\ Head(op.todo).do = step

\* Go on, with the steps in place of the one just done.
Goes(o, steps) == op' = [o EXCEPT !.todo = steps \o Tail(op.todo)]

\* recover_pending, for the record in memory.
Recovery == <<Do("undo")>>

\* finish_or_rollback: the journal is saved again and undone.  A failure of that,
\* or before the journal was written, ends the operation.
Fails(o, answer) ==
  op' = CASE o.safe -> [o EXCEPT !.safe = FALSE, !.todo = <<Do("rejournal")>> \o Recovery \o <<Do("fail")>>]
          [] o.fallback /\ answer = "rejected" -> [o EXCEPT !.fallback = FALSE, !.todo = o.instead]
          [] OTHER -> [o EXCEPT !.safe = FALSE, !.fallback = FALSE, !.todo = <<Do("fail")>>]

Saves(cp) == saved' = cp /\ UNCHANGED spent
SaveFails == Fault /\ UNCHANGED saved

Begins(call, want, cp, steps) ==
  op' = [call |-> call, want |-> want, cp |-> cp, bound |-> binding, before |-> Selection,
         start |-> [account |-> account, saved |-> saved], row |-> None, safe |-> FALSE, fallback |-> FALSE, instead |-> <<>>, todo |-> steps]

CanCall == Resting
Calls == Spend("call")

\* load_or_create
Loaded == IF saved # None THEN saved ELSE [base |-> Selection, managed |-> None, pending |-> None]

Interrupted(cp) == IF cp.pending = None THEN <<>> ELSE Recovery

\* apply_paused
SwitchBegins(input) ==
  /\ CanCall
  /\ saved' = Loaded
  /\ Begins("switch", input, Loaded, Interrupted(Loaded) \o
            <<Do("journal"), Do("row"), Do("select"), Do("write"), Do("await"),
              Do("keep"), Do("commit"), Do("clear")>>)
  /\ native' = IF native = None THEN Selection ELSE native
  /\ Calls
  /\ UNCHANGED <<account, file, binding>>

\* existing_managed: the row as it is now, the user's edits included.
Existing(cp) ==
  IF cp.managed = None \/ cp.managed.id \notin Rows(account) THEN None
  ELSE [cp.managed EXCEPT !.input = account.rows[cp.managed.id]]

Journalled(add) ==
  [op.cp EXCEPT !.pending = [before |-> Selection, previous |-> Existing(op.cp), ids |-> Rows(account),
                             add |-> add, created |-> None]]

Journal ==
  /\ At("journal")
  /\ LET cp == Journalled(IF Existing(op.cp) = None THEN op.want ELSE None) IN
     \/ Saves(cp) /\ Goes([op EXCEPT !.cp = cp, !.safe = TRUE], <<>>)
     \/ SaveFails /\ Fails(op, "lost")
  /\ UNCHANGED <<account, file, binding, native>>

Managed(id, input, own) == [id |-> id, input |-> input, own |-> own, selected |-> TRUE]

\* create_owned finds a row for the input: one that is new since the journal is
\* AT-Switch's own, one that was there is borrowed.
Found(input) ==
  LET new == Matching(input) \ op.cp.pending.ids
      old == Matching(input) \cap op.cp.pending.ids
  IN  CASE Cardinality(new) = 1 -> {Managed(i, input, TRUE) : i \in new}
        [] new = {} /\ Cardinality(old) = 1 -> {Managed(i, input, FALSE) : i \in old}
        [] OTHER -> {}

\* With several rows to choose from nothing is done.
Ambiguous(input) == Matching(input) # {} /\ Found(input) = {}

\* The row on record as created, if AT-Switch made it.
Noted(row) == [op.cp EXCEPT !.pending.created = IF row.own THEN row ELSE @]

\* The row of before serves as it is or modified, if ima lets it.
Kept(p) == p # None /\ p.input = op.want
Modifiable(p) == p # None /\ p.own /\ p.input # op.want /\ Matching(op.want) = {}

RowKept ==
  /\ At("row") /\ Kept(op.cp.pending.previous)
  /\ Goes([op EXCEPT !.row = [op.cp.pending.previous EXCEPT !.selected = TRUE]], <<>>)
  /\ UNCHANGED <<account, file, saved, binding, native, spent>>

RowModified ==
  /\ At("row") /\ Modifiable(op.cp.pending.previous)
  /\ LET id == op.cp.pending.previous.id IN
     \E answer \in Answers :
       /\ Answered([do |-> "modify", id |-> id, input |-> op.want], answer)
       /\ IF answer = "ok" THEN Goes([op EXCEPT !.row = Managed(id, op.want, TRUE)], <<>>)
                           ELSE Fails(op, answer)
  /\ UNCHANGED <<file, saved, binding, native>>

RowOther ==
  /\ At("row") /\ ~Kept(op.cp.pending.previous) /\ ~Modifiable(op.cp.pending.previous)
  /\ Goes(op, <<[do |-> "create", input |-> op.want]>>)
  /\ UNCHANGED <<account, file, saved, binding, native, spent>>

RowFound ==
  /\ At("create")
  /\ LET input == Head(op.todo).input IN
     \/ /\ Ambiguous(input) /\ Fails(op, "lost") /\ UNCHANGED <<saved, spent>>
     \/ \E row \in Found(input) :
          \/ Saves(Noted(row)) /\ Goes([op EXCEPT !.row = row, !.cp = Noted(row)], <<>>)
          \/ SaveFails /\ Fails([op EXCEPT !.cp = Noted(row)], "lost")
  /\ UNCHANGED <<account, file, binding, native>>

\* add_model, whose answer may be lost: the account is read again and the one new
\* row is taken, whatever the answer was.
RowAdded ==
  /\ At("create")
  /\ LET input == Head(op.todo).input IN
     /\ Matching(input) = {}
     /\ \E answer \in Answers :
          /\ Answered([do |-> "add", input |-> input], answer)
          /\ \/ account' # account /\ Goes(op, <<Head(op.todo)>>)
             \/ (account' = account \/ answer = "lost") /\ Fails(op, answer)
  /\ UNCHANGED <<file, saved, binding, native>>

\* set_preferences: what differs when it is read, none for an empty preference.
Choosing(to) ==
  LET set(s) == IF to[s] = Empty \/ account.pref[s] = to[s] THEN <<>>
                ELSE <<[do |-> "set", scene |-> s, id |-> to[s]]>>
  IN  set(1) \o set(2)

Everywhere(id) == [s \in Scenes |-> id]

Selects ==
  /\ At("select")
  /\ Goes(op, Choosing(Everywhere(op.row.id)))
  /\ UNCHANGED <<account, file, saved, binding, native, spent>>

Set ==
  /\ At("set")
  /\ \E answer \in Answers :
       /\ Answered(Head(op.todo), answer)
       /\ IF answer = "ok" THEN Goes(op, <<>>) ELSE Fails(op, answer)
  /\ UNCHANGED <<file, saved, binding, native>>

\* build_selection, build_restore and their apply_file
Write(to) ==
  /\ \/ file' = to /\ Goes(op, <<>>) /\ UNCHANGED spent
     \/ Fault /\ Fails(op, "lost") /\ UNCHANGED file
  /\ UNCHANGED <<account, saved, binding, native>>

SelectionWritten == At("write") /\ Write(Everywhere(op.row.id))

\* wait_for_managed, wait_for_preferences: what the account says in the end.
Await(pref, row) ==
  /\ \/ /\ account.pref = pref
        /\ row # None => row.id \in Rows(account) /\ account.rows[row.id] = row.input
        /\ Goes(op, <<>>) /\ UNCHANGED spent
     \/ /\ account.pref # pref \/ (row # None /\ row.id \notin Matching(row.input))
        /\ Fails(op, "lost") /\ UNCHANGED spent
     \/ Fault /\ Fails(op, "lost")
  /\ UNCHANGED <<account, file, saved, binding, native>>

SelectionAwaited == At("await") /\ Await(Everywhere(op.row.id), op.row)

\* commit_checkpoint: the record with its journal, the binding, the record.
Keep ==
  /\ At("keep")
  /\ LET managed == IF op.call = "switch" THEN op.row ELSE [op.cp.managed EXCEPT !.selected = FALSE]
         cp == [op.cp EXCEPT !.managed = managed] IN
     \/ Saves(cp) /\ Goes([op EXCEPT !.cp = cp], <<>>)
     \/ SaveFails /\ Fails([op EXCEPT !.cp = cp], "lost")
  /\ UNCHANGED <<account, file, binding, native>>

Commit ==
  /\ At("commit")
  /\ \/ binding' = op.want /\ Goes(op, <<>>) /\ UNCHANGED spent
     \/ Fault /\ Fails(op, "lost") /\ UNCHANGED binding
  /\ UNCHANGED <<account, file, saved, native>>

Clear ==
  /\ At("clear")
  /\ LET cp == [op.cp EXCEPT !.pending = None] IN
     \/ Saves(cp) /\ Goes([op EXCEPT !.cp = cp], <<>>)
     \/ SaveFails /\ Fails(op, "lost")
  /\ UNCHANGED <<account, file, binding, native>>

-----------------------------------------------------------------------------
(* recover_pending *)

Rejournal ==
  /\ At("rejournal")
  /\ \/ Saves(op.cp) /\ Goes(op, <<>>)
     \/ SaveFails /\ Fails(op, "lost")
  /\ UNCHANGED <<account, file, binding, native>>

\* Mutant: any row of the input will do.
CandidatesOfInput(p) == {i \in Rows(account) : account.rows[i] = p.add}
\* The row that an interrupted first switch may have made.
Candidates(p) ==
  IF p.created # None THEN {p.created.id}
  ELSE {i \in Rows(account) \ p.ids : account.rows[i] = p.add}

\* Several rows cannot be told apart.  ima takes one row of each configuration
\* (Accepts), so that it never comes to that.
Deleting(ids) ==
  CASE ids = {} -> <<>>
    [] Cardinality(ids) = 1 -> <<[do |-> "delete", id |-> CHOOSE i \in ids : TRUE]>>
    [] OTHER -> <<Do("undecided")>>

Undo ==
  /\ At("undo")
  /\ LET p    == op.cp.pending
         prev == p.previous
         o    == [op EXCEPT !.before = p.before, !.row = prev]
         rest == <<Do("prefer"), Do("awaitbefore"), Do("writebefore"), Do("settle")>>
     IN  \/ /\ prev # None /\ prev.id \in Rows(account)
            /\ Goes(o, IF account.rows[prev.id] = prev.input THEN rest
                       ELSE <<[do |-> "modify", id |-> prev.id, input |-> prev.input]>> \o rest)
         \/ /\ prev # None /\ prev.id \notin Rows(account)
            /\ IF p.created # None /\ p.created.id \in Matching(prev.input)
                 THEN Goes([o EXCEPT !.row = p.created], <<Do("remap")>> \o rest)
                 ELSE Goes(o, <<[do |-> "create", input |-> prev.input], Do("remap")>> \o rest)
         \/ /\ prev = None
            /\ Goes(o, <<Do("prefer")>> \o Deleting(Candidates(p)) \o <<Do("native"), Do("writebefore"), Do("settle")>>)
  /\ UNCHANGED <<account, file, saved, binding, native, spent>>

Modify ==
  /\ At("modify")
  /\ \E answer \in Answers :
       /\ Answered(Head(op.todo), answer)
       /\ IF answer = "ok" THEN Goes(op, <<>>) ELSE Fails(op, answer)
  /\ UNCHANGED <<file, saved, binding, native>>

\* remap_models: the row was made anew and has another id.
Remap ==
  /\ At("remap")
  /\ LET new(c) == IF c = op.cp.pending.previous.id THEN op.row.id ELSE c IN
     Goes([op EXCEPT !.before = [pref |-> [s \in Scenes |-> new(@.pref[s])],
                                 file |-> [s \in Scenes |-> new(@.file[s])]]], <<>>)
  /\ UNCHANGED <<account, file, saved, binding, native, spent>>

Prefer ==
  /\ At("prefer")
  /\ Goes(op, Choosing(op.before.pref))
  /\ UNCHANGED <<account, file, saved, binding, native, spent>>

\* client.delete_model: a row that is not there has been deleted.  With several
\* to choose from nothing is deleted.
Delete ==
  /\ \/ /\ At("delete")
        /\ \E answer \in Answers :
             /\ Answered(Head(op.todo), answer)
             /\ IF answer = "ok" THEN Goes(op, <<>>) ELSE Fails(op, answer)
     \/ At("undecided") /\ Fails(op, "lost") /\ UNCHANGED <<account, spent>>
  /\ UNCHANGED <<file, saved, binding, native>>

\* restore_native_preferences: an empty preference cannot be written, so the
\* entry gets its local choice, or the default of ima.
NativeTargets ==
  [s \in Scenes |-> CASE op.before.pref[s] # Empty -> op.before.pref[s]
                      [] op.before.pref[s] = Empty /\ op.before.file[s] \in Selectable -> op.before.file[s]
                      [] OTHER -> Official]

Native ==
  /\ At("native")
  /\ Goes(op, Choosing(NativeTargets) \o <<[do |-> "awaittargets", to |-> NativeTargets]>>)
  /\ UNCHANGED <<account, file, saved, binding, native, spent>>

TargetsAwaited == At("awaittargets") /\ Await(Head(op.todo).to, None)
BeforeAwaited == At("awaitbefore") /\ Await(op.before.pref, op.row)
BeforeWritten == At("writebefore") /\ Write(op.before.file)

\* What was managed before is managed again, nothing is pending any more.
Settle ==
  /\ At("settle")
  /\ LET cp == [op.cp EXCEPT !.managed = op.row, !.pending = None] IN
     \/ Saves(cp) /\ Goes([op EXCEPT !.cp = cp], <<>>)
     \/ SaveFails /\ Fails(op, "lost")
  /\ UNCHANGED <<account, file, binding, native>>

-----------------------------------------------------------------------------
(* restore_paused *)

\* finish_interrupted_native_restore
Finishing(before) == <<[do |-> "aim", at |-> before], Do("native"), Do("writebefore"), Do("forget"), Do("decide")>>

RestoreBegins ==
  /\ CanCall
  /\ Calls
  /\ IF saved = None
       THEN Begins("restore", None, None, <<Do("commit")>>)
       ELSE LET p == saved.pending
                journal == p # None /\ p.previous # None /\ p.add # None IN
            op' = [call |-> "restore", want |-> None, cp |-> saved, bound |-> binding, before |-> Selection,
                   start |-> [account |-> account, saved |-> saved], row |-> None, safe |-> FALSE, fallback |-> journal,
                   instead |-> IF journal THEN Finishing(p.before) ELSE <<>>,
                   todo |-> IF journal /\ p.previous.id \notin Rows(account) THEN Finishing(p.before)
                            ELSE Interrupted(saved) \o <<Do("decide")>>]
  /\ UNCHANGED <<account, file, saved, binding, native>>

Aim ==
  /\ At("aim")
  /\ Goes([op EXCEPT !.before = Head(op.todo).at, !.fallback = FALSE], <<>>)
  /\ UNCHANGED <<account, file, saved, binding, native, spent>>

Forget ==
  /\ At("forget")
  /\ LET cp == [op.cp EXCEPT !.managed = None, !.pending = None] IN
     \/ Saves(cp) /\ Goes([op EXCEPT !.cp = cp], <<>>)
     \/ SaveFails /\ Fails(op, "lost")
  /\ UNCHANGED <<account, file, binding, native>>

\* validate_preference_targets, validate_empty_restore
Restorable(base, previous) ==
  \A s \in Scenes :
    /\ base.pref[s] # Empty => base.pref[s] \in Selectable
    /\ base.pref[s] = Empty /\ account.pref[s] # Empty => previous # None /\ previous.id = account.pref[s]

TakenOver(managed) == managed # None /\ managed.selected

Decide ==
  /\ At("decide")
  /\ LET previous == Existing(op.cp)
         cp == Journalled(IF previous = None THEN None ELSE previous.input)
         o  == [op EXCEPT !.fallback = FALSE] IN
     \/ ~TakenOver(op.cp.managed) /\ Goes(o, <<Do("commit")>>) /\ UNCHANGED <<saved, spent>>
     \/ /\ TakenOver(op.cp.managed) /\ ~Restorable(op.cp.base, previous)
        /\ Goes(o, <<Do("fail")>>) /\ UNCHANGED <<saved, spent>>
     \/ /\ TakenOver(op.cp.managed) /\ Restorable(op.cp.base, previous)
        /\ \/ /\ Saves(cp)
              /\ Goes([o EXCEPT !.cp = cp, !.safe = TRUE, !.before = op.cp.base],
                      <<Do("native"), Do("writebefore"), Do("keep"), Do("commit"), Do("clear")>>)
           \/ SaveFails /\ Goes(o, <<Do("fail")>>)
  /\ UNCHANGED <<account, file, binding, native>>

-----------------------------------------------------------------------------
(* The end, the user, and a stop of AT-Switch *)

\* apply_service_binding, restore_service_binding: after an error the binding of
\* before is saved again, if there was one; a failed switch removes a new one.
Failed ==
  /\ At("fail")
  /\ op' = [op EXCEPT !.todo = <<Do("failed")>>]
  /\ \/ binding' = (IF op.call = "restore" /\ op.bound = None THEN binding ELSE op.bound) /\ UNCHANGED spent
     \/ Fault /\ UNCHANGED binding
  /\ UNCHANGED <<account, file, saved, native>>

Returned ==
  /\ ~Resting /\ (op.todo = <<>> \/ At("failed"))
  /\ op' = Idle
  /\ UNCHANGED <<account, file, saved, binding, native, spent>>

UserActs ==
  /\ Resting
  /\ Spend("user")
  /\ \/ \E s \in Scenes, id \in Selectable : account' = [account EXCEPT !.pref[s] = id]
     \/ \E input \in Inputs : Accepts([do |-> "add", input |-> input])
                              /\ account' \in Outcomes([do |-> "add", input |-> input])
     \/ \E id \in Rows(account) : account' \in Outcomes([do |-> "delete", id |-> id])
     \/ \E id \in Rows(account), input \in Inputs :
          Accepts([do |-> "modify", id |-> id, input |-> input])
          /\ account' \in Outcomes([do |-> "modify", id |-> id, input |-> input])
  /\ UNCHANGED <<file, saved, binding, op, native>>

Crash ==
  /\ ~Resting 
  /\ op' = Idle
  /\ Spend("crash")
  /\ UNCHANGED <<account, file, saved, binding, native>>

SwitchStep ==
  Journal \/ RowKept \/ RowModified \/ RowOther \/ RowFound \/ RowAdded \/ Selects \/ Set
  \/ SelectionWritten \/ SelectionAwaited \/ Keep \/ Commit \/ Clear
RecoveryStep ==
  Rejournal \/ Undo \/ Modify \/ Remap \/ Prefer \/ Delete \/ Native \/ TargetsAwaited
  \/ BeforeAwaited \/ BeforeWritten \/ Settle
RestoreStep == Aim \/ Forget \/ Decide

Next ==
  \/ \E input \in Inputs : SwitchBegins(input)
  \/ RestoreBegins
  \/ SwitchStep \/ RecoveryStep \/ RestoreStep
  \/ Failed \/ Returned \/ UserActs \/ Crash

Spec == Init /\ [][Next]_vars
-----------------------------------------------------------------------------
(* Properties *)

TypeOK ==
  /\ account \in Accounts /\ file \in [Scenes -> Ids \cup {Official, None}]
  /\ saved \in Checkpoints \cup {None} /\ native \in Selections \cup {None}
  /\ binding \in Inputs \cup {None}

(* A model of the user's own, in the account before or added by hand, is never
   deleted by AT-Switch, nor changed but back to what it was when the operation
   that is being undone began, whatever requests and saves failed and whenever
   AT-Switch stopped: deletion and modification are for rows created by it. *)
Undone(i) ==
  LET p == op.cp.pending IN
  /\ p # None /\ p.previous # None
  /\ p.previous.id = i /\ account'.rows[i] = p.previous.input

RowsStay ==
  ~Resting => \A i \in Rows(account) \ account.ours :
    /\ i \in DOMAIN account'.rows
    /\ account'.rows[i] = account.rows[i] \/ Undone(i)

UsersRowsStay == [][RowsStay]_vars

(* A restore that succeeds returns the local choice and the preferred models to
   what they were when the first switch was tried, an entry without a preference
   to some model that exists, after any number of switches, failures and stops.
   The exceptions are when the journal to undo is that of a first switch or of the
   first one after a restore, so that only this is undone, and when it is an
   earlier restore's, which may be finished from its journal (Finishing). *)
Restores(o) ==
  /\ o.call = "restore"
  /\ o.start.saved # None /\ TakenOver(o.start.saved.managed)
  /\ o.start.saved.pending # None =>
       /\ o.start.saved.pending.previous # None /\ o.start.saved.pending.previous.selected
       /\ o.start.saved.pending.add = None

Restored(o) == Restores(o) /\ o.todo = <<>>

RestoreReturnsNative ==
  Restored(op) =>
    /\ file = native.file
    /\ \A s \in Scenes : /\ account.pref[s] \in Selectable
                         /\ account.pref[s] = native.pref[s] \/ native.pref[s] = Empty

(* A failed switch or restore either leaves the journal to undo it by, or has
   put back the user's rows and every preference there was, and keeps no row it
   added, but one beside a managed row: an added row is removed only if nothing
   was managed before (recover_pending).  When no earlier operation was undone. *)
Clean(o) == o.start.saved = None \/ o.start.saved.pending = None

Beside(o) == o.start.saved # None /\ o.start.saved.managed # None

FailedIsCompensated ==
  At("failed") /\ Clean(op) =>
    \/ saved # None /\ saved.pending # None
    \/ LET start == op.start.account IN
       /\ \A i \in Rows(start) : i \in Rows(account) /\ account.rows[i] = start.rows[i]
       /\ Rows(account) = Rows(start) \/ Beside(op)
       /\ \A s \in Scenes : start.pref[s] \in Selectable => account.pref[s] = start.pref[s]

=============================================================================
