----------------------------- MODULE AgentFiles -----------------------------
(***************************************************************************)
(* The adapters of the agents that keep their models in files of their     *)
(* own: what a switch writes into those files and what a restore makes of  *)
(* them.  An agent has models of the user's, a default selection, and      *)
(* scopes (agents, sessions, tasks, workspaces) with selections of their   *)
(* own.  The adapters differ in how they tell an entry of AT-Switch from   *)
(* one of the user's, in which selections they repoint, and in what they   *)
(* remember to put back.                                                   *)
(*                                                                         *)
(* An operation is one step here: the order of its writes, their failures  *)
(* and the rollback are in AgentSwitch, a file's transaction is in         *)
(* ConfigTransaction.  Between operations the user edits the agent.        *)
(***************************************************************************)
EXTENDS Naturals

CONSTANTS
  Kinds,      \* the adapters
  Providers,  \* bindings: display name, model, credential and endpoint
  Mine,       \* entries the user makes
  Scopes,     \* of which Threads are the transcripts of AutoClaw's sessions
  Threads,
  MaxSteps,   \* a bound on the operations and the user's acts together
  AtSwitch,   \* the fixed name of an entry of AT-Switch ("at-switch")
  Built,      \* DuMate's own provider
  Alias,      \* and a model alias that its conversations ask for
  Official,   \* the agent's own models, one of which is Usual
  Usual,
  Bare,       \* no provider: the model's id alone
  NoName,     \* an entry of the user's without a display name
  Automatic, Unset, Absent, None

\* The model of an entry that has but one.
Only(e) == CHOOSE m \in e.models : TRUE

\* What entries, selections and documents are made of.
Names == {p.name : p \in Providers} \cup {e.name : e \in Mine} \cup {AtSwitch, Built, Official, Bare}
Models == {p.model : p \in Providers} \cup {Only(e) : e \in Mine} \cup {Usual, Alias}
Entries ==
  [name : Names \cup Models, models : SUBSET Models,
   key : {x.key : x \in Providers \cup Mine}, url : {x.url : x \in Providers \cup Mine}, mark : BOOLEAN]
References == [name : Names \cup Models, model : Models]
Selections == References \cup {Unset, Automatic}
Documents ==
  [entries : SUBSET Entries, pick : Selections, scopes : [Scopes -> Selections \cup {Absent}], now : Scopes \cup {None},
   global : Selections, offered : {None} \cup SUBSET Models]

\* The fixed names are nobody's display name; the user's entries have one model,
\* no mark, and a credential of the user's; the rest is told apart.
Assumptions ==
  /\ Kinds \subseteq {"codex", "openclaw", "autoclaw", "workbuddy", "codebuddy", "zcode", "hermes", "dumate", "aionclaw"}
  /\ Providers \subseteq [name : {p.name : p \in Providers}, model : {p.model : p \in Providers},
                         key : {p.key : p \in Providers}, url : {p.url : p \in Providers}]
  /\ Mine \subseteq Entries /\ \A e \in Mine : ~e.mark /\ e.models = {Only(e)}
  /\ \A p \in Providers : p.name \notin {AtSwitch, Built, Official, Bare, NoName}
  /\ \A e \in Mine : e.name \notin {AtSwitch, Official, Bare}
  /\ \A p \in Providers, e \in Mine : p.key # e.key
  /\ AtSwitch \notin {Built, Official, Bare, NoName} /\ Built \notin {Official, Bare, NoName}
  /\ Official \notin {Bare, NoName} /\ Bare # NoName
  /\ {Unset, Automatic, Absent} \cap References = {} /\ Unset # Automatic /\ Absent \notin {Unset, Automatic}
  /\ "pick" \notin Scopes /\ Threads \subseteq Scopes
  /\ None \notin Scopes /\ None \notin Providers /\ None \notin Documents /\ \A S \in SUBSET Models : S # None
  /\ MaxSteps \in Nat

VARIABLES
  kind,     \* the agent
  doc,      \* its documents
  base,     \* the baseline: its documents at the first transaction
  memory,   \* its rows in agent_runtime_selections
  binding,  \* its row in agent_bindings
  user,     \* for the properties: what the user has made (own) and chosen (chose),
            \* had chosen at the takeover (taken), and what is adrift
  said,     \* what AT-Switch last did, if the user has done nothing since
  spent     \* operations and acts so far, for the bound

vars == <<kind, doc, base, memory, binding, user, said, spent>>

Ref(name, model) == [name |-> name, model |-> model]
Selects(s) == s \notin {Unset, Absent, Automatic}

\* The places of a selection: the default, and the scopes.
Slots == Scopes \cup {"pick"}
Nothing == [x \in Slots |-> Absent]
In(d, x) == IF x = "pick" THEN d.pick ELSE d.scopes[x]
Put(d, x, s) == IF x = "pick" THEN [d EXCEPT !.pick = s] ELSE [d EXCEPT !.scopes[x] = s]

\* An entry for provider p under a name, with a mark if the adapter has one.
Made(name, models, p, mark) ==
  [name |-> name, models |-> models, key |-> p.key, url |-> p.url, mark |-> mark]
Upsert(entries, e) == {x \in entries : x.name # e.name} \cup {e}
Unmarked(entries) == {x \in entries : ~x.mark}
Called(entries, name) == {x \in entries : x.name = name}
Served(entries, name, p) == \E x \in Called(entries, name) : x.url = p.url /\ p.model \in x.models

-----------------------------------------------------------------------------
(* codex.rs: one table that stays, and two pointers *)

CodexWritten(d, p) ==
  [d EXCEPT !.entries = Upsert(@, Made(AtSwitch, {p.model}, p, FALSE)), !.pick = Ref(AtSwitch, p.model)]

\* The table stays, for old sessions; without a pointer the official provider.
CodexNative(d, b) == [d EXCEPT !.pick = IF b.pick = Unset THEN Ref(Official, Usual) ELSE b.pick]

CodexApplied(d, p) == d.pick = Ref(AtSwitch, p.model) /\ Served(d.entries, AtSwitch, p)

-----------------------------------------------------------------------------
(* openclaw.rs: QClaw, EasyClaw, and the file that AionClaw generates.  The *)
(* entry goes by the provider's display name and bears no mark.             *)

\* The scopes are the agents of agents.list.
OpenClawWritten(d, p) ==
  LET to == Ref(p.name, p.model) IN
  [d EXCEPT !.entries = Upsert(@ \ Called(@, AtSwitch), Made(p.name, {p.model}, p, FALSE)),
            !.pick = to,
            !.scopes = [s \in Scopes |-> IF Selects(@[s]) /\ @[s].name # Official THEN to ELSE @[s]]]

OpenClawNative(d, b) == [d EXCEPT !.entries = @ \ Called(@, AtSwitch), !.pick = b.pick]

OpenClawApplied(d, p) ==
  /\ d.pick \in {Ref(p.name, p.model), Ref(AtSwitch, p.model)}
  /\ Served(d.entries, IF Called(d.entries, p.name) # {} THEN p.name ELSE AtSwitch, p)

-----------------------------------------------------------------------------
(* openclaw.rs: AutoClaw *)

AutoClawEntry(p) == Made(p.name, {p.model}, p, TRUE)
\* Mutant: everything but the fixed name goes by the display name.
AutoClawOthersByName(entries) == {x \in entries : \A y \in entries : y.mark => y.name # x.name}
AutoClawOthers(entries) == Unmarked(entries) \ Called(entries, AtSwitch)

\* Sessions get the bare id, whatever they had; a transcript only over a bare id.
SessionsShown(scopes, model) ==
  [s \in Scopes |->
     IF Selects(scopes[s]) /\ (s \in Threads => scopes[s].name = Bare) THEN Ref(Bare, model) ELSE scopes[s]]

AutoClawWritten(d, p) ==
  [d EXCEPT !.entries = AutoClawOthers(@) \cup {AutoClawEntry(p)},
            !.pick = Ref(p.name, p.model),
            !.scopes = SessionsShown(@, p.model)]

AutoClawNative(d, b) == [d EXCEPT !.entries = AutoClawOthers(@), !.pick = b.pick]

AutoClawApplied(d, p) ==
  d.pick = Ref(p.name, p.model) /\ \E x \in d.entries : x = AutoClawEntry(p)

-----------------------------------------------------------------------------
(* workbuddy.rs: the default is the selection of the next new task, the     *)
(* scopes are the sessions; both name a model of the list by its id.        *)

Local(model) == Ref(Bare, model)
WorkBuddyModels(entries, p) == Unmarked(entries) \cup {Made(p.name, {p.model}, p, TRUE)}
MarkedModels(d) == {Only(x) : x \in {y \in d.entries : y.mark}}

WorkBuddyActivated(d, p) ==
  LET front == IF d.now = None THEN {} ELSE {d.now} IN
  [d EXCEPT !.pick = Local(p.model),
            !.scopes = [s \in Scopes |-> IF s \in front THEN Local(p.model) ELSE @[s]]]

WorkBuddyWritten(d, p) ==
  WorkBuddyActivated([d EXCEPT !.entries = WorkBuddyModels(@, p)], p)

\* What a slot gets back, if it is still on the managed model.
WorkBuddyOriginal(m, x) ==
  IF m[x] # Absent THEN m[x] ELSE IF x = "pick" THEN Unset ELSE Automatic
WorkBuddyRestored(d, m, x) ==
  IF In(d, x) \in {Local(model) : model \in MarkedModels(d)} THEN WorkBuddyOriginal(m, x) ELSE In(d, x)

WorkBuddyNative(d, m) ==
  [d EXCEPT !.entries = Unmarked(@),
            !.pick = WorkBuddyRestored(d, m, "pick"),
            !.scopes = [s \in Scopes |-> WorkBuddyRestored(d, m, s)]]

WorkBuddyApplied(d, p) == \E x \in d.entries : x.models = {p.model} /\ x.url = p.url

-----------------------------------------------------------------------------
(* codebuddy.rs: the default is a workspace's, the scopes are conversations, *)
(* and one more selection is global.  The list may be cut to "offered".      *)

\* A selection is "name:id", or the id alone.
CodeBuddyRef(name, model) == Ref(IF name = NoName THEN model ELSE name, model)
NamedAll(entries) == {[x EXCEPT !.name = IF @ = NoName THEN Only(x) ELSE @] : x \in entries}

Offered(d, next) ==
  IF d.offered = None THEN None ELSE (d.offered \ MarkedModels(d)) \cup next

CodeBuddyModels(d, p) ==
  [d EXCEPT !.entries = NamedAll(Unmarked(@)) \cup {Made(p.name, {p.model}, p, TRUE)},
            !.offered = Offered(d, {p.model})]

CodeBuddyGlobal(d, p) == [d EXCEPT !.global = CodeBuddyRef(p.name, p.model)]

\* Every workspace, and the current conversation.
CodeBuddyActivated(d, p) ==
  LET to == CodeBuddyRef(p.name, p.model)
      front == IF d.now = None THEN {} ELSE {d.now} IN
  [CodeBuddyGlobal(d, p) EXCEPT
     !.pick = to, !.scopes = [s \in Scopes |-> IF s \in front THEN to ELSE @[s]]]

CodeBuddyWritten(d, p) == CodeBuddyActivated(CodeBuddyModels(d, p), p)

ManagedSelections(d) == {CodeBuddyRef(x.name, Only(x)) : x \in {y \in d.entries : y.mark}}

CodeBuddyRestored(d, m, x) ==
  IF In(d, x) \notin ManagedSelections(d) THEN In(d, x) ELSE IF m[x] = Absent THEN Unset ELSE m[x]

CodeBuddyNative(d, m) ==
  [d EXCEPT !.entries = Unmarked(@), !.offered = Offered(d, {}), !.global = Unset,
            !.pick = CodeBuddyRestored(d, m, "pick"),
            !.scopes = [s \in Scopes |-> CodeBuddyRestored(d, m, s)]]

CodeBuddyApplied(d, p) == \E x \in d.entries : x.mark /\ x.models = {p.model} /\ x.url = p.url

\* What the health check asks of the workspaces and the current conversation.
CodeBuddyVerified(d, p) ==
  /\ d.pick = CodeBuddyRef(NoName, p.model)
  /\ d.now # None => d.scopes[d.now] = CodeBuddyRef(NoName, p.model)

-----------------------------------------------------------------------------
(* zcode.rs: the scopes are tasks *)

\* Models declared for the same endpoint stay.
ZCodeDeclared(entries, p) ==
  {p.model} \cup UNION {x.models : x \in {y \in Called(entries, AtSwitch) : y.url = p.url}}

\* Mutant: the tasks keep what they had.
ZCodeTasksKept(scopes, p) == scopes

ZCodeTasks(scopes, p) ==
  [s \in Scopes |-> IF Selects(scopes[s]) /\ scopes[s].name = AtSwitch THEN Ref(AtSwitch, p.model) ELSE scopes[s]]

ZCodeWritten(d, p) ==
  [d EXCEPT !.entries = Upsert(@, Made(AtSwitch, ZCodeDeclared(@, p), p, FALSE)),
            !.pick = Ref(AtSwitch, p.model),
            !.scopes = ZCodeTasks(@, p)]

ZCodeNative(d) ==
  [d EXCEPT !.entries = @ \ Called(@, AtSwitch),
            !.pick = IF Selects(@) /\ @.name = AtSwitch THEN Unset ELSE @]

ZCodeApplied(d, p) ==
  d.pick = Ref(AtSwitch, p.model) /\ Served(d.entries, AtSwitch, p) /\ \A x \in Called(d.entries, AtSwitch) : x.key = p.key

-----------------------------------------------------------------------------
(* hermes.rs: one entry, and a restore to the bytes of the baseline *)

HermesWritten(d, p) ==
  [d EXCEPT !.entries = Upsert(@, Made(AtSwitch, {p.model}, p, FALSE)), !.pick = Ref(AtSwitch, p.model)]

HermesNative(b) == b

HermesApplied(d, p) == d.pick = Ref(AtSwitch, p.model) /\ Served(d.entries, AtSwitch, p)

-----------------------------------------------------------------------------
(* dumate.rs: the agent's own provider is overlaid, so that conversations    *)
(* that ask for one of its aliases are served by the managed model.          *)

Aliases(entries) == {Alias} \cup UNION {x.models : x \in Called(entries, Built)}

DuMateWritten(d, p) ==
  [d EXCEPT !.entries = Upsert(Upsert(@, Made(AtSwitch, {p.model}, p, TRUE)), Made(Built, Aliases(@), p, TRUE)),
            !.pick = Ref(AtSwitch, p.model)]

\* A marked entry gives way to that of the baseline, if it was the user's.
DuMateNative(d, b) ==
  [d EXCEPT !.entries = Unmarked(@) \cup
              {x \in Unmarked(b.entries) : x.name \in {AtSwitch, Built} /\ \E y \in @ : y.mark /\ y.name = x.name},
            !.pick = IF Selects(@) /\ @.name = AtSwitch
                     THEN IF Selects(b.pick) /\ b.pick.name = AtSwitch THEN Unset ELSE b.pick
                     ELSE @]

DuMateApplied(d, p) ==
  /\ d.pick = Ref(AtSwitch, p.model)
  /\ \A name \in {AtSwitch, Built} : \E x \in Called(d.entries, name) : x.mark /\ x.url = p.url /\ x.key = p.key

-----------------------------------------------------------------------------
(* aionclaw.rs: the settings database; the front scope is the main agent.    *)
(* A restore writes the generated file and leaves the database.              *)

AionClawWritten(d, p) ==
  [d EXCEPT !.entries = Upsert(@, Made(AtSwitch, {p.model}, p, FALSE)),
            !.pick = Ref(AtSwitch, p.model),
            !.scopes = [s \in Scopes |-> IF s = d.now THEN Ref(AtSwitch, p.model) ELSE @[s]]]

AionClawApplied(d, p) ==
  d.pick = Ref(AtSwitch, p.model) /\ (d.now # None => d.scopes[d.now] = Ref(AtSwitch, p.model))

-----------------------------------------------------------------------------
(* apply_authorized and restore_native_authorized, for a file-backed agent  *)

Written(d, p) ==
  CASE kind = "codex" -> CodexWritten(d, p)
    [] kind = "openclaw" -> OpenClawWritten(d, p)
    [] kind = "autoclaw" -> AutoClawWritten(d, p)
    [] kind = "workbuddy" -> WorkBuddyWritten(d, p)
    [] kind = "codebuddy" -> CodeBuddyWritten(d, p)
    [] kind = "zcode" -> ZCodeWritten(d, p)
    [] kind = "hermes" -> HermesWritten(d, p)
    [] kind = "dumate" -> DuMateWritten(d, p)
    [] kind = "aionclaw" -> AionClawWritten(d, p)

NativeOf(d, b, m) ==
  CASE kind = "codex" -> CodexNative(d, b)
    [] kind = "openclaw" -> OpenClawNative(d, b)
    [] kind = "autoclaw" -> AutoClawNative(d, b)
    [] kind = "workbuddy" -> WorkBuddyNative(d, m)
    [] kind = "codebuddy" -> CodeBuddyNative(d, m)
    [] kind = "zcode" -> ZCodeNative(d)
    [] kind = "hermes" -> HermesNative(b)
    [] kind = "dumate" -> DuMateNative(d, b)
    [] kind = "aionclaw" -> d

Applied(d, p) ==
  CASE kind = "codex" -> CodexApplied(d, p)
    [] kind = "openclaw" -> OpenClawApplied(d, p)
    [] kind = "autoclaw" -> AutoClawApplied(d, p)
    [] kind = "workbuddy" -> WorkBuddyApplied(d, p)
    [] kind = "codebuddy" -> CodeBuddyApplied(d, p)
    [] kind = "zcode" -> ZCodeApplied(d, p)
    [] kind = "hermes" -> HermesApplied(d, p)
    [] kind = "dumate" -> DuMateApplied(d, p)
    [] kind = "aionclaw" -> AionClawApplied(d, p)

Spend == spent < MaxSteps /\ spent' = spent + 1

\* The file at the first transaction of the agent; it is never taken again.
Baseline == IF base = None THEN doc ELSE base

\* remember_runtime_selection keeps the first value of a slot.
Repointed == {"pick"} \cup (IF doc.now = None THEN {} ELSE {doc.now})
Remembered ==
  IF kind \notin {"workbuddy", "codebuddy"} THEN memory
  ELSE [x \in Slots |-> IF x \in Repointed /\ memory[x] = Absent THEN In(doc, x) ELSE memory[x]]

\* How a selection names an entry.
RefOf(e) ==
  CASE kind = "workbuddy" -> Local(Only(e))
    [] kind = "codebuddy" -> CodeBuddyRef(e.name, Only(e))
    [] OTHER -> Ref(e.name, Only(e))

\* The selections that AT-Switch makes, under the names that it gives.
OurNames == {p.name : p \in Providers} \cup {AtSwitch, Bare}
OurRef(name, p) == RefOf([name |-> name, models |-> {p.model}])
OurSelections == {OurRef(name, p) : name \in OurNames, p \in Providers}

\* For the properties: what each selection was when a switch first moved it.
Taken ==
  LET before == IF binding = None THEN Nothing ELSE user.taken IN
  [x \in Slots |-> IF before[x] = Absent /\ (x = "pick" \/ In(doc', x) # In(doc, x)) THEN In(doc, x) ELSE before[x]]

\* and what the user had chosen, or left as it was, when AT-Switch took over.
Chosen ==
  IF binding # None THEN user.chose
  ELSE [x \in Slots |-> IF In(doc, x) \in OurSelections THEN user.chose[x] ELSE In(doc, x)]

Switch(p) ==
  /\ Spend
  /\ doc' = Written(doc, p)
  /\ Applied(doc', p)  \* else the file is rolled back
  /\ base' = Baseline /\ memory' = Remembered /\ binding' = p
  /\ user' = [user EXCEPT !.taken = Taken, !.chose = Chosen]
  /\ said' = "switched"
  /\ UNCHANGED kind

\* CodeBuddy's workspaces, conversations or binding cannot be written: all is
\* put back as it was but for the global selection.
SwitchFails(p) ==
  /\ kind = "codebuddy"
  /\ Spend
  /\ doc' = CodeBuddyGlobal(doc, p)
  /\ base' = Baseline
  /\ said' = "failed"
  /\ UNCHANGED <<kind, memory, binding, user>>

\* Scopes on the model of a binding before the last, or whose remembered value
\* is one: they were opened while AT-Switch had the agent.  And what is on a
\* model of the user's that has the name of one of AT-Switch's.
Adrift ==
  {s \in Scopes : \/ In(doc, s) \in OurSelections /\ In(doc, s) # doc.pick
                  \/ memory[s] \in OurSelections} \cup
  {x \in Slots : In(doc, x) \in OurSelections \cap {RefOf(e) : e \in user.own}}

Restore ==
  /\ Spend
  /\ doc' = NativeOf(doc, Baseline, memory)
  /\ base' = Baseline /\ memory' = Nothing /\ binding' = None
  /\ user' = [user EXCEPT !.adrift = @ \cup Adrift]
  /\ said' = "restored"
  /\ UNCHANGED kind

-----------------------------------------------------------------------------
(* the user, in the agent *)

Scoped == Kinds \ {"codex", "hermes", "dumate"}

\* A session of AutoClaw names a model by its bare id.
Eligible(x, mine) ==
  {Ref(Official, Usual)} \cup
  {IF kind = "autoclaw" /\ x # "pick" THEN Ref(Bare, Only(e)) ELSE RefOf(e) : e \in mine}

\* The last step is AT-Switch's.
Act == Spend /\ spent' < MaxSteps /\ said' = "" /\ UNCHANGED <<kind, base, memory, binding>>

Choose(x) ==
  /\ Act
  /\ In(doc, x) # Absent
  /\ \E s \in Eligible(x, user.own) \ {In(doc, x)} :
       /\ doc' = Put(doc, x, s)
       /\ user' = [user EXCEPT !.chose[x] = s, !.adrift = @ \ {x}]

\* A new session, task or conversation starts on the default.
Open(s) ==
  /\ Act
  /\ kind \in Scoped /\ doc.scopes[s] = Absent
  /\ doc' = [doc EXCEPT !.scopes[s] = IF kind = "autoclaw" /\ Selects(doc.pick) /\ doc.pick.name # Official
                                      THEN Ref(Bare, doc.pick.model) ELSE doc.pick,
                        !.now = s]
  /\ user' = [user EXCEPT !.chose[s] = IF doc.pick \in OurSelections THEN Unset ELSE doc'.scopes[s]]

Return(s) ==
  /\ Act
  /\ doc.scopes[s] # Absent /\ doc.now # s
  /\ doc' = [doc EXCEPT !.now = s]
  /\ UNCHANGED user

\* DuMate's own provider can be overridden by the user, too.
Makes(mine) == {e \in Mine : (e.name = Built => kind = "dumate") /\ (e.name = NoName => kind = "codebuddy")} \ mine

Add(e) ==
  /\ Act
  /\ e \in Makes(user.own)
  /\ Called(doc.entries, e.name) = {} \/ kind \in {"autoclaw", "workbuddy", "codebuddy"}
  /\ doc' = [doc EXCEPT !.entries = @ \cup {e},
                        !.offered = IF @ = None THEN None ELSE @ \cup {Only(e)}]
  /\ user' = [user EXCEPT !.own = @ \cup {e}]

-----------------------------------------------------------------------------

Init ==
  /\ kind \in Kinds
  /\ \E mine \in SUBSET Makes({}), pick \in {Unset, Ref(Official, Usual)}, cut \in BOOLEAN :
       /\ cut => kind = "codebuddy"
       /\ doc = [entries |-> mine, pick |-> pick, scopes |-> [s \in Scopes |-> Absent],
                 now |-> None, global |-> Unset,
                 offered |-> IF cut THEN {Only(e) : e \in mine} ELSE None]
       /\ user = [own |-> mine, chose |-> [x \in Slots |-> IF x = "pick" THEN pick ELSE Absent],
                  taken |-> Nothing, adrift |-> {}]
  /\ base = None /\ memory = Nothing /\ binding = None
  /\ said = "" /\ spent = 0

Next ==
  \/ \E p \in Providers : Switch(p) \/ SwitchFails(p)
  \/ Restore
  \/ \E x \in Slots : Choose(x)
  \/ \E s \in Scopes : Open(s) \/ Return(s)
  \/ \E e \in Mine : Add(e)

Spec == Init /\ [][Next]_vars

-----------------------------------------------------------------------------

Ours(e) == e.key \in {p.key : p \in Providers}
TypeOK ==
  /\ kind \in Kinds
  /\ doc \in Documents /\ \A e \in doc.entries : e.models # {}
  /\ doc.now # None => doc.scopes[doc.now] # Absent
  /\ base \in {None} \cup Documents
  /\ memory \in [Slots -> Selections \cup {Absent}]
  /\ binding \in Providers \cup {None}
  /\ user \in [own : SUBSET Mine, chose : [Slots -> Selections \cup {Absent}],
               taken : [Slots -> Selections \cup {Absent}], adrift : SUBSET Slots]
  /\ said \in {"", "switched", "failed", "restored"}

\* The entry that a selection names.
Named(s) ==
  IF ~Selects(s) THEN {}
  ELSE IF s.name = Bare THEN {e \in doc.entries : s.model \in e.models}
  ELSE IF kind = "codebuddy"
       THEN {e \in doc.entries : CodeBuddyRef(e.name, Only(e)) = s}
       ELSE {e \in doc.entries : e.name = s.name /\ s.model \in e.models}

\* The selections that a switch promises to have moved: the default, and what
\* the agent shows next.
Moved ==
  CASE kind \in {"codex", "hermes", "zcode"} -> {"pick"}
    [] kind = "dumate" -> {"pick"}
    [] kind = "openclaw" -> {"pick"} \cup {s \in Scopes : Selects(doc.scopes[s]) /\ doc.scopes[s].name # Official}
    [] kind = "autoclaw" -> {"pick"} \cup {s \in Scopes \ Threads : Selects(doc.scopes[s])}
    [] OTHER -> Repointed

\* After a switch, what was moved is served with the credential and by the
\* endpoint of the binding, by that entry alone; and no entry of an earlier
\* binding is left.  The user may have a model with the same id (WorkBuddy and
\* AutoClaw tell them apart by nothing else); OpenClaw's entries of other
\* providers stay.
SwitchIsServed ==
  said = "switched" =>
    /\ \A x \in Moved :
         /\ \E e \in Named(In(doc, x)) : e.key = binding.key /\ e.url = binding.url /\ binding.model \in e.models
         /\ \A e \in Named(In(doc, x)) : Ours(e) => e.key = binding.key /\ e.url = binding.url
    /\ kind = "codebuddy" => doc.global = doc.pick /\ (doc.offered # None => binding.model \in doc.offered)
    /\ kind # "openclaw" => \A e \in doc.entries : Ours(e) => e.key = binding.key /\ e.url = binding.url
    /\ kind = "dumate" => \A e \in Called(doc.entries, Built) : e.key = binding.key
    /\ kind = "zcode" => \A s \in Scopes : Selects(doc.scopes[s]) /\ doc.scopes[s].name = AtSwitch => Named(doc.scopes[s]) # {}

\* What the health check says of a switch that nobody has touched since:
\* agreement with the record (mod.rs:522).
SwitchedIsHealthy ==
  said = "switched" => Applied(doc, binding) /\ (kind = "codebuddy" => CodeBuddyVerified(doc, binding))

\* The entries that the user has made are there, whatever AT-Switch did.
UsersEntriesStay ==
  \A e \in user.own :
    \/ \E x \in doc.entries : x = e \/ x = [e EXCEPT !.name = IF @ = NoName THEN Only(e) ELSE @]
    \/ kind = "openclaw" /\ \E p \in Providers : p.name = e.name
    \/ kind = "hermes" /\ base # None /\ e \notin base.entries
    \/ kind = "dumate" /\ e.name = Built /\ (binding # None \/ e \notin base.entries)

\* A selection back at what the user chose last, or had chosen when AT-Switch
\* took the agent over.
Returned(x) ==
  \/ In(doc, x) \in {user.chose[x], user.taken[x]}
  \/ user.chose[x] = Unset /\ In(doc, x) \in {Automatic, Unset}

\* What a restore leaves behind.  Codex, OpenClaw, AutoClaw, Hermes and DuMate
\* have the default of the first transaction ever, Codex its official model if
\* there was none; ZCode has no default, and its tasks, AutoClaw's sessions and
\* OpenClaw's agents stay on the model of AT-Switch; AionClaw stays as it is.
LeftBehind(x) ==
  CASE kind = "aionclaw" -> TRUE
    [] kind \in {"openclaw", "autoclaw", "zcode"} /\ x # "pick" -> In(doc, x) \in OurSelections
    [] kind = "zcode" /\ x = "pick" -> doc.pick = Unset
    [] kind = "codex" /\ base.pick = Unset -> doc.pick = Ref(Official, Usual)
    [] kind \in {"workbuddy", "codebuddy"} -> x \in user.adrift
    [] OTHER -> x = "pick" /\ doc.pick = base.pick

\* A restore returns the default and the scopes to what the user had chosen,
\* and leaves no entry of AT-Switch, but for what is said above and the entries
\* that Codex, OpenClaw and AionClaw keep.
RestoreReturnsNative ==
  said = "restored" =>
    /\ \A x \in Slots : Returned(x) \/ LeftBehind(x)
    /\ kind \notin {"codex", "openclaw", "aionclaw"} => ~\E e \in doc.entries : Ours(e)

=============================================================================
