---------------------------- MODULE AgentSwitch ----------------------------
(***************************************************************************)
(* agents/mod.rs: switching a file-backed agent to a provider, restoring   *)
(* it, and what the deletion of a provider and a restart do to it.  One    *)
(* switch writes in turn the agent's configuration file, what the agent    *)
(* keeps beside it (its companion), the binding in the database and the    *)
(* route in the proxy's memory.  Overwriting one file is one step here;    *)
(* module ConfigTransaction opens it up.                                   *)
(*                                                                         *)
(* The window runs one switch or restore at a time (App.tsx,               *)
(* agentOperationInFlight) and one deletion, but one of each may overlap.  *)
(***************************************************************************)
EXTENDS Naturals, FiniteSets

CONSTANTS
  Agents, Providers,
  Tokens,          \* local routing tokens; a new one is in use nowhere
  Kind,            \* what each agent keeps beside its configuration file
  MaxRev,          \* bound on the revisions of a token's reference
  EarlySnapshot,   \* TRUE: the window may get a snapshot while routes load
  Mishaps,         \* bounds on what happens: failing steps, deletions, crashes,
                   \* and deletions that overlap a switch
  Native,          \* what the agent has without AT-Switch
  NoToken, NoRoute, Unbound, Forgotten

\* plain: nothing (Codex, DuMate).  env: a credentials file (Hermes).
\* sidecar: session files (QClaw, AutoClaw, EasyClaw).  index: task index and
\* local storage (ZCode).  session: session database (WorkBuddy, and CodeBuddy
\* but for its global selection).  database: settings database (AionClaw).
Kinds == {"plain", "env", "sidecar", "index", "session", "database"}

ASSUME KindAssumption == Kind \in [Agents -> Kinds]
ASSUME BoundsAssumption ==
  /\ MaxRev \in Nat \ {0}
  /\ Mishaps \subseteq [fault : Nat, delete : Nat, crash : Nat, overlap : Nat]
  /\ EarlySnapshot \in BOOLEAN
ASSUME NullsAssumption ==
  /\ NoToken \notin Tokens /\ NoRoute \notin Providers
  /\ Native \notin [provider : Providers, token : Tokens \cup {NoToken}]
  /\ Forgotten \notin [provider : Providers, token : Tokens \cup {NoToken}] \cup {Native}
  /\ Unbound \notin [provider : Providers, rev : 0 .. MaxRev]

\* A setting without a token points at the provider itself.
Settings == [provider : Providers, token : Tokens \cup {NoToken}] \cup {Native}
\* A binding without a token revision is a direct one.
Bindings == [provider : Providers, rev : 0 .. MaxRev]

VARIABLES
  providers,   \* rows of the providers table
  binding,     \* row of each agent in agent_bindings
  memory,      \* original selection of each agent in agent_runtime_selections
  secret,      \* stored local tokens, by agent and revision
  routes,      \* the proxy's in-memory routes, by token
  file,        \* main configuration file of each agent
  companion,   \* what the agent keeps beside it
  sw, del,     \* the switch or restore, and the deletion, in flight
  boot,        \* restore_proxy_routes
  happened,    \* the mishaps so far
  amiss        \* what failures that no call makes up for have left behind:
               \* agents' files, selections and routes, and tokens

vars == <<providers, binding, memory, secret, routes, file, companion, sw, del, boot,
          happened, amiss>>
database == <<providers, binding, memory>>
disk == <<file, companion>>
history == <<happened, amiss>>

Idle == [pc |-> "idle"]

Init ==
  /\ providers = Providers
  /\ binding = [a \in Agents |-> Unbound]
  /\ memory = [a \in Agents |-> Forgotten]
  /\ secret = [a \in Agents |-> [r \in 1 .. MaxRev |-> NoToken]]
  /\ routes = [t \in Tokens |-> NoRoute]
  /\ file = [a \in Agents |-> Native]
  /\ companion = [a \in Agents |-> Native]
  /\ sw = Idle
  /\ del = Idle
  /\ boot = [pc |-> "start", todo |-> {}]
  /\ happened = [fault |-> 0, delete |-> 0, crash |-> 0, overlap |-> 0]
  /\ amiss = [file |-> {}, selection |-> {}, route |-> {}, token |-> {}]

HasToken(b) == b # Unbound /\ b.rev > 0
Token(a, b) == secret[a][b.rev]
TokenOf(a) == IF HasToken(binding[a]) THEN Token(a, binding[a]) ELSE NoToken

UiReady == boot.pc = "done" \/ (EarlySnapshot /\ boot.pc = "loading")

-----------------------------------------------------------------------------
(* apply_authorized and restore_native_authorized *)

\* "want" is what the agent shall have; "lost" is what a failing call could not
\* put back and, for the properties only, "found" is what it came upon.
Call(a, want, proxy) ==
  [pc |-> IF want = Native THEN "write" ELSE "token",
   agent |-> a, want |-> want, proxy |-> proxy, previous |-> binding[a],
   rev |-> 0, created |-> FALSE, file |-> Native, companion |-> Native,
   remembered |-> FALSE, undo |-> {}, lost |-> {},
   found |-> [file |-> file[a], companion |-> companion[a], memory |-> memory[a],
              binding |-> binding[a], token |-> TokenOf(a), routes |-> routes]]

Happens(kinds) ==
  /\ happened' = [x \in DOMAIN happened |-> IF x \in kinds THEN happened[x] + 1 ELSE happened[x]]
  /\ \E most \in Mishaps : \A x \in DOMAIN most : happened'[x] <= most[x]

Fault == Happens({"fault"})

Left(what, x) == amiss' = [amiss EXCEPT ![what] = @ \cup {x}]
Mended(what, x) == amiss' = [amiss EXCEPT ![what] = @ \ {x}]

\* The window keeps neither the deletion nor the switch from overlapping.
Overlapping(yes) ==
  IF yes THEN Happens({"overlap"}) ELSE UNCHANGED happened

Begin(a, want, proxy) ==
  /\ sw.pc = "idle"
  /\ UiReady
  /\ Overlapping(del.pc # "idle")
  /\ sw' = Call(a, want, proxy)
  /\ UNCHANGED <<database, secret, routes, disk, del, boot, amiss>>

\* 32 random bytes are nowhere in use.
InUse ==
  {t \in Tokens :
     \/ routes[t] # NoRoute
     \/ \E a \in Agents, r \in 1 .. MaxRev : secret[a][r] = t
     \/ \E a \in Agents, s \in Settings \ {Native} :
          s.token = t /\ s \in {file[a], companion[a], memory[a]}}

\* Tokens is the bound on those in use.
BeginSwitch(a, p, proxy) ==
  /\ p \in providers
  /\ proxy => Tokens \ InUse # {}
  /\ Begin(a, [provider |-> p, token |-> NoToken], proxy)

BeginRestore(a) == Begin(a, Native, FALSE)

Restoring == sw.want = Native

\* The provider's API key goes with the provider.
UseDirectKey ==
  /\ sw.pc = "token" /\ ~sw.proxy
  /\ sw.want.provider \in providers
  /\ sw' = [sw EXCEPT !.pc = "write"]
  /\ UNCHANGED <<database, secret, routes, disk, del, boot, history>>

Reusable(a) == HasToken(binding[a]) /\ Token(a, binding[a]) # NoToken

ReuseToken ==
  LET b == binding[sw.agent] IN
  /\ sw.pc = "token" /\ sw.proxy
  /\ Reusable(sw.agent)
  /\ sw' = [sw EXCEPT !.pc = "write", !.rev = b.rev, !.want.token = Token(sw.agent, b)]
  /\ UNCHANGED <<database, secret, routes, disk, del, boot, history>>

NextRev(a) == IF binding[a] = Unbound THEN 1 ELSE binding[a].rev + 1

NewToken ==
  LET r == NextRev(sw.agent) IN
  /\ sw.pc = "token" /\ sw.proxy
  /\ r <= MaxRev
  /\ \E t \in Tokens \ InUse :
       /\ secret' = [secret EXCEPT ![sw.agent][r] = t]
       /\ sw' = [sw EXCEPT !.pc = "write", !.rev = r, !.created = TRUE, !.want.token = t]
  /\ UNCHANGED <<database, routes, disk, del, boot>>

CreateToken == NewToken /\ ~Reusable(sw.agent) /\ UNCHANGED history

\* A token that cannot be read does not exist, says SecretStore::exists: its
\* secret and its route are left behind.
ReplaceToken ==
  /\ NewToken
  /\ Reusable(sw.agent)
  /\ Fault /\ Left("token", TokenOf(sw.agent))

\* apply_file of the main configuration, after its backup.
WriteFile ==
  /\ sw.pc = "write"
  /\ file' = [file EXCEPT ![sw.agent] = sw.want]
  /\ sw' = [sw EXCEPT !.pc = IF Restoring THEN "select" ELSE "companion",
                      !.file = file[sw.agent]]
  /\ UNCHANGED <<database, secret, routes, companion, del, boot, history>>

\* Only credentials and settings name the token; the others name the model.
Shown(a, setting) ==
  IF Kind[a] \in {"env", "database"} \/ setting = Native
    THEN setting ELSE [setting EXCEPT !.token = NoToken]

WriteCompanion(from, kinds, to) ==
  /\ sw.pc = from /\ ~Restoring
  /\ companion' = IF Kind[sw.agent] \in kinds
                    THEN [companion EXCEPT ![sw.agent] = Shown(sw.agent, sw.want)]
                    ELSE companion
  /\ sw' = [sw EXCEPT !.pc = to, !.companion = IF Kind[sw.agent] \in kinds
                                                 THEN companion[sw.agent] ELSE @]
  /\ UNCHANGED <<database, secret, routes, file, del, boot, history>>

\* ensure_env_api_key, or apply_file of each sidecar.
WriteBeside == WriteCompanion("companion", {"env", "sidecar"}, "verify")

Verified ==
  /\ sw.pc = "verify"
  /\ file[sw.agent] = sw.want
  /\ sw' = [sw EXCEPT !.pc = IF Kind[sw.agent] = "session" THEN "remember" ELSE "select"]
  /\ UNCHANGED <<database, secret, routes, disk, del, boot, history>>

\* remember_runtime_selection: INSERT OR IGNORE.
Remember ==
  LET new == memory[sw.agent] = Forgotten IN
  /\ sw.pc = "remember"
  /\ memory' = IF new THEN [memory EXCEPT ![sw.agent] = companion[sw.agent]] ELSE memory
  /\ sw' = [sw EXCEPT !.pc = "select", !.remembered = new]
  /\ UNCHANGED <<providers, binding, secret, routes, disk, del, boot, history>>

\* The activation of ZCode, WorkBuddy and CodeBuddy, and aionclaw::apply_config.
Select == WriteCompanion("select", {"index", "session", "database"}, "save")

\* Mutant: a selection nothing is remembered of.
OriginalUnwrapped(a) == IF Kind[a] = "session" THEN memory[a] ELSE companion[a]

\* The plan of a restore: a managed selection goes back to the original one.
Original(a) ==
  IF Kind[a] = "session" /\ companion[a] # Native
    THEN IF memory[a] # Forgotten THEN memory[a] ELSE Native
    ELSE companion[a]

RestoreSelection ==
  /\ sw.pc = "select" /\ Restoring
  /\ companion' = [companion EXCEPT ![sw.agent] = Original(sw.agent)]
  /\ sw' = [sw EXCEPT !.pc = "save", !.companion = companion[sw.agent]]
  /\ UNCHANGED <<database, secret, routes, file, del, boot, history>>

\* Mutant: the connection was opened without PRAGMA foreign_keys.
SaveBindingUnchecked ==
  /\ sw.pc = "save" /\ ~Restoring
  /\ binding' = [binding EXCEPT ![sw.agent] =
                   [provider |-> sw.want.provider, rev |-> sw.rev]]
  /\ Mended("file", sw.agent)
  /\ sw' = [sw EXCEPT !.pc = "route"]
  /\ UNCHANGED <<providers, memory, secret, routes, disk, del, boot, happened>>

\* save_agent_binding: the foreign key wants the provider to exist.
SaveBinding ==
  /\ sw.pc = "save" /\ ~Restoring
  /\ sw.want.provider \in providers
  /\ binding' = [binding EXCEPT ![sw.agent] =
                   [provider |-> sw.want.provider, rev |-> sw.rev]]
  /\ Mended("file", sw.agent)
  /\ sw' = [sw EXCEPT !.pc = "route"]
  /\ UNCHANGED <<providers, memory, secret, routes, disk, del, boot, happened>>

\* Mutant: the second statement of the transaction is missing.
ForgetBindingOnly ==
  /\ sw.pc = "save" /\ Restoring
  /\ binding' = [binding EXCEPT ![sw.agent] = Unbound]
  /\ Mended("file", sw.agent)
  /\ sw' = [sw EXCEPT !.pc = "route"]
  /\ UNCHANGED <<providers, memory, secret, routes, disk, del, boot, happened>>

\* delete_agent_binding_and_runtime_selections, in one transaction.
ForgetBinding ==
  /\ sw.pc = "save" /\ Restoring
  /\ binding' = [binding EXCEPT ![sw.agent] = Unbound]
  /\ memory' = [memory EXCEPT ![sw.agent] = Forgotten]
  /\ Mended("file", sw.agent)
  /\ sw' = [sw EXCEPT !.pc = "route"]
  /\ UNCHANGED <<providers, secret, routes, disk, del, boot, happened>>

RegisterRoute ==
  /\ sw.pc = "route" /\ sw.proxy
  /\ routes' = [routes EXCEPT ![sw.want.token] = sw.want.provider]
  /\ Mended("route", sw.agent)
  /\ sw' = [sw EXCEPT !.pc = "done"]
  /\ UNCHANGED <<database, secret, disk, del, boot, happened>>

\* Mutant: the secret is deleted but its route stays.
RouteKept ==
  /\ sw.pc = "route" /\ ~sw.proxy
  /\ sw' = [sw EXCEPT !.pc = IF HasToken(sw.previous) THEN "retire" ELSE "done"]
  /\ UNCHANGED <<database, secret, routes, disk, del, boot, history>>

\* A direct switch and a restore retire the token of the previous binding.
Unregister ==
  LET t == Token(sw.agent, sw.previous) IN
  /\ sw.pc = "route" /\ ~sw.proxy
  /\ IF HasToken(sw.previous)
       THEN /\ sw' = [sw EXCEPT !.pc = "retire"]
            /\ routes' = IF t = NoToken THEN routes ELSE [routes EXCEPT ![t] = NoRoute]
       ELSE sw' = [sw EXCEPT !.pc = "done"] /\ UNCHANGED routes
  /\ UNCHANGED <<database, secret, disk, del, boot, history>>

\* Its route stays if the token cannot be read.
RouteLeft ==
  LET t == Token(sw.agent, sw.previous) IN
  /\ sw.pc = "route" /\ ~sw.proxy
  /\ HasToken(sw.previous) /\ t # NoToken
  /\ Fault /\ Left("token", t)
  /\ sw' = [sw EXCEPT !.pc = "retire"]
  /\ UNCHANGED <<database, secret, routes, disk, del, boot>>

DeleteSecret(a, r) ==
  \/ secret' = [secret EXCEPT ![a][r] = NoToken] /\ UNCHANGED happened
  \/ Fault /\ UNCHANGED secret

RetireToken ==
  /\ sw.pc = "retire"
  /\ DeleteSecret(sw.agent, sw.previous.rev)
  /\ sw' = [sw EXCEPT !.pc = "done"]
  /\ UNCHANGED <<database, routes, disk, del, boot, amiss>>

Return ==
  /\ sw.pc \in {"done", "failed"}
  /\ sw' = Idle
  /\ UNCHANGED <<database, secret, routes, disk, del, boot, history>>

-----------------------------------------------------------------------------
(* A step of the call fails *)

\* Mutant: a failure to save the binding rolls nothing back.
UndoneBeforeSave(kind, pc) ==
  IF Restoring \/ pc \in {"token", "save"} THEN {} ELSE {"file", "companion", "memory", "token"}

\* What is put back, by the step that failed.  The activation of a session
\* undoes its own second layer, that of ZCode and AionClaw does not.
Undone(kind, pc) ==
  LET session == IF kind = "session" THEN {"companion"} ELSE {}
      sidecar == IF kind = "sidecar" THEN {"companion"} ELSE {}
  IN
  IF Restoring
  THEN CASE pc = "write" -> {}
         [] pc \in {"select", "save"} -> {"file"} \cup session
  ELSE CASE pc = "token" -> {}
         [] pc = "write" -> {"token"}
         [] pc \in {"companion", "verify"} -> {"file", "token"} \cup sidecar
         [] pc = "remember" -> {"file", "memory", "token"}
         [] pc = "select" ->
              IF kind = "database" THEN {"file"} ELSE {"file", "memory", "token"} \cup session
         [] pc = "save" -> {"file", "token"} \cup
              IF kind \in {"index", "session"} THEN {"companion", "memory"} ELSE {}

Must ==
  \/ sw.pc \in {"token", "save"} /\ ~Restoring /\ sw.want.provider \notin providers
  \/ sw.pc = "verify" /\ file[sw.agent] # sw.want

\* A step that did not come to its end knows what was beside the file as well.
TurnBack(lost) ==
  sw' = [sw EXCEPT !.pc = "undo", !.undo = Undone(Kind[sw.agent], sw.pc), !.lost = lost,
                   !.companion = IF sw.pc \in {"companion", "select"}
                                   THEN companion[sw.agent] ELSE @]

StepFails ==
  /\ sw.pc \in {"token", "write", "companion", "verify", "remember", "select", "save"}
  /\ IF Must THEN UNCHANGED happened ELSE Fault
  /\ TurnBack({})
  /\ UNCHANGED <<database, secret, routes, disk, del, boot, amiss>>

\* apply_file replaced the file and then could not read it back.
WriteFailsLate ==
  /\ sw.pc = "write"
  /\ Fault /\ Left("file", sw.agent)
  /\ TurnBack({"file"})
  /\ file' = [file EXCEPT ![sw.agent] = sw.want]
  /\ UNCHANGED <<database, secret, routes, companion, del, boot>>

\* WorkBuddy's second value is not remembered; the first one stays.
RememberFailsHalfway ==
  /\ sw.pc = "remember"
  /\ memory[sw.agent] = Forgotten
  /\ Fault
  /\ TurnBack({"memory"})
  /\ memory' = [memory EXCEPT ![sw.agent] = companion[sw.agent]]
  /\ UNCHANGED <<providers, binding, secret, routes, disk, del, boot, amiss>>

\* One of several sidecars, settings or values is written.
SelectFailsHalfway ==
  LET kind == Kind[sw.agent] IN
  /\ \/ sw.pc = "companion" /\ kind = "sidecar"
     \/ sw.pc = "select" /\ kind \in {"index", "session", "database"}
  /\ Fault
  /\ TurnBack({})
  /\ companion' = [companion EXCEPT ![sw.agent] =
                     IF Restoring THEN Original(sw.agent) ELSE Shown(sw.agent, sw.want)]
  /\ UNCHANGED <<database, secret, routes, file, del, boot, amiss>>

\* A sidecar is put back before the file, a selection after it.
Undo(what, before) ==
  /\ sw.pc = "undo"
  /\ what \in sw.undo
  /\ sw.undo \cap before = {}

PutBack(what) == sw' = [sw EXCEPT !.undo = @ \ {what}]

\* The errors of a rollback are dropped or reported; either way the call goes on.
NotPutBack(what) == sw' = [sw EXCEPT !.undo = @ \ what, !.lost = @ \cup what]

UndoFile ==
  /\ Undo("file", {}) /\ PutBack("file")
  /\ file' = [file EXCEPT ![sw.agent] = sw.file]
  /\ UNCHANGED <<database, secret, routes, companion, del, boot, history>>

FileLeft ==
  /\ Undo("file", {}) /\ NotPutBack({"file"})
  /\ Fault /\ Left("file", sw.agent)
  /\ UNCHANGED <<database, secret, routes, disk, del, boot>>

UndoCompanion ==
  /\ Undo("companion", {}) /\ PutBack("companion")
  /\ companion' = [companion EXCEPT ![sw.agent] = sw.companion]
  /\ UNCHANGED <<database, secret, routes, file, del, boot, history>>

\* CodeBuddy, and WorkBuddy that cannot be stopped, keep what they remember.
CompanionLeft ==
  /\ Undo("companion", {})
  /\ \E also \in {{}, {"memory"}} : NotPutBack(sw.undo \cap ({"companion"} \cup also))
  /\ Fault
  /\ UNCHANGED <<database, secret, routes, disk, del, boot, amiss>>

\* WorkBuddy forgets the original even when it was not put back.
UndoMemory ==
  /\ Undo("memory", {"file", "companion"}) /\ PutBack("memory")
  /\ memory' = IF sw.remembered THEN [memory EXCEPT ![sw.agent] = Forgotten] ELSE memory
  /\ IF sw.remembered /\ "companion" \in sw.lost
       THEN Left("selection", sw.agent) ELSE UNCHANGED amiss
  /\ UNCHANGED <<providers, binding, secret, routes, disk, del, boot, happened>>

MemoryLeft ==
  /\ Undo("memory", {"file", "companion"}) /\ NotPutBack({"memory"})
  /\ sw.remembered
  /\ Fault
  /\ UNCHANGED <<database, secret, routes, disk, del, boot, amiss>>

\* Mutant: whether the token is new is not looked at.
UndoAnyToken ==
  /\ Undo("token", {"file", "companion", "memory"}) /\ PutBack("token")
  /\ IF sw.rev > 0 THEN DeleteSecret(sw.agent, sw.rev) ELSE UNCHANGED <<secret, happened>>
  /\ UNCHANGED <<database, routes, disk, del, boot, amiss>>

\* cleanup_new_local_token: a reused token stays.
UndoToken ==
  /\ Undo("token", {"file", "companion", "memory"}) /\ PutBack("token")
  /\ IF sw.created THEN DeleteSecret(sw.agent, sw.rev) ELSE UNCHANGED <<secret, happened>>
  /\ UNCHANGED <<database, routes, disk, del, boot, amiss>>

Failed ==
  /\ sw.pc = "undo" /\ sw.undo = {}
  /\ sw' = [sw EXCEPT !.pc = "failed"]
  /\ UNCHANGED <<database, secret, routes, disk, del, boot, history>>

-----------------------------------------------------------------------------
(* delete_provider: the affected agents are looked up, the rows and then the *)
(* secrets deleted, and each affected agent gets its native files back.      *)

BoundTo(p) == {a \in Agents : binding[a] # Unbound /\ binding[a].provider = p}

BeginDelete(p) ==
  /\ del.pc = "idle"
  /\ UiReady
  /\ p \in providers
  /\ Happens({"delete"} \cup IF sw.pc = "idle" THEN {} ELSE {"overlap"})
  /\ del' = [pc |-> "rows", provider |-> p, tokens |-> {}, agent |-> {},
             affected |-> BoundTo(p)]
  /\ UNCHANGED <<database, secret, routes, disk, sw, boot, amiss>>

\* Mutant: the bindings are left to a cascade the table does not have.
DeleteRowsNotBindings ==
  /\ del.pc = "rows"
  /\ providers' = providers \ {del.provider}
  /\ del' = [del EXCEPT !.pc = "secrets"]
  /\ UNCHANGED <<binding, memory, secret, routes, disk, sw, boot, history>>

DeleteRows ==
  /\ del.pc = "rows"
  /\ providers' = providers \ {del.provider}
  /\ binding' = [a \in Agents |-> IF a \in BoundTo(del.provider) THEN Unbound ELSE binding[a]]
  /\ del' = [del EXCEPT !.pc = "secrets", !.tokens =
               {<<a, binding[a].rev>> : a \in {b \in BoundTo(del.provider) : HasToken(binding[b])}}]
  /\ UNCHANGED <<memory, secret, routes, disk, sw, boot, history>>

DeleteSecrets ==
  /\ del.pc = "secrets"
  /\ \/ \E x \in del.tokens :
          /\ DeleteSecret(x[1], x[2])
          /\ del' = [del EXCEPT !.tokens = @ \ {x}]
     \/ /\ del.tokens = {}
        /\ del' = [del EXCEPT !.pc = "files"]
        /\ UNCHANGED <<secret, history>>
  /\ UNCHANGED <<database, routes, disk, sw, boot, amiss>>

\* restore_native_after_provider_deletion: the main file ...
RestoreFile(a) ==
  /\ del.pc = "files"
  /\ a \in del.affected
  /\ file' = [file EXCEPT ![a] = Native]
  /\ del' = [del EXCEPT !.pc = "selection", !.agent = {a}, !.affected = @ \ {a}]
  /\ UNCHANGED <<database, secret, routes, companion, sw, boot, history>>

\* ... which may fail, before or after it is replaced, ...
RestoreSkipped(a) ==
  /\ del.pc = "files"
  /\ a \in del.affected
  /\ Fault
  /\ \E left \in {file[a], Native} : file' = [file EXCEPT ![a] = left]
  /\ del' = [del EXCEPT !.affected = @ \ {a}]
  /\ UNCHANGED <<database, secret, routes, companion, sw, boot, amiss>>

\* ... then the selection, and what is remembered of it, each of whose errors
\* are ignored.
RestoreRest(a) ==
  /\ del.pc = "selection"
  /\ a \in del.agent
  /\ \E back, forgotten \in BOOLEAN :
       /\ IF back /\ forgotten THEN UNCHANGED happened ELSE Fault
       /\ IF back THEN companion' = [companion EXCEPT ![a] = Original(a)] ELSE UNCHANGED companion
       /\ IF forgotten THEN memory' = [memory EXCEPT ![a] = Forgotten] ELSE UNCHANGED memory
       /\ IF forgotten /\ ~back THEN Left("selection", a) ELSE UNCHANGED amiss
  /\ del' = [del EXCEPT !.pc = "files", !.agent = {}]
  /\ UNCHANGED <<providers, binding, secret, routes, file, sw, boot>>

Deleted ==
  /\ del.pc = "files" /\ del.affected = {}
  /\ del' = Idle
  /\ UNCHANGED <<database, secret, routes, disk, sw, boot, history>>

-----------------------------------------------------------------------------
(* restore_proxy_routes, which the first snapshot runs, and restarts *)

LoadRoutes ==
  /\ boot.pc = "start"
  /\ boot' = [pc |-> "loading",
              todo |-> {<<a, binding[a]>> : a \in {b \in Agents : HasToken(binding[b])}}]
  /\ UNCHANGED <<database, secret, routes, disk, sw, del, history>>

\* A binding whose token or provider is gone is passed over.
RestoreRoute ==
  \E x \in boot.todo :
    LET t == Token(x[1], x[2]) IN
    /\ boot.pc = "loading"
    /\ boot' = [boot EXCEPT !.todo = @ \ {x}]
    /\ routes' = IF t # NoToken /\ x[2].provider \in providers
                   THEN [routes EXCEPT ![t] = x[2].provider] ELSE routes
    /\ UNCHANGED <<database, secret, disk, sw, del, history>>

\* So is one whose token or API key cannot be read, and for the rest of the run.
RoutePassedOver ==
  \E x \in boot.todo :
    /\ boot.pc = "loading"
    /\ Fault /\ Left("route", x[1])
    /\ boot' = [boot EXCEPT !.todo = @ \ {x}]
    /\ UNCHANGED <<database, secret, routes, disk, sw, del>>

RoutesRestored ==
  /\ boot.pc = "loading" /\ boot.todo = {}
  /\ boot' = [boot EXCEPT !.pc = "done"]
  /\ UNCHANGED <<database, secret, routes, disk, sw, del, history>>

Restart ==
  /\ Happens({"crash"})
  /\ sw' = Idle
  /\ del' = Idle
  /\ boot' = [pc |-> "start", todo |-> {}]
  /\ routes' = [t \in Tokens |-> NoRoute]
  /\ amiss' = [amiss EXCEPT !.route = {}, !.token = {}]
  /\ UNCHANGED <<database, secret, disk>>

SwitchStep ==
  \/ UseDirectKey \/ ReuseToken \/ CreateToken \/ ReplaceToken
  \/ WriteFile \/ WriteBeside \/ Verified
  \/ Remember \/ Select \/ RestoreSelection \/ SaveBinding \/ ForgetBinding
  \/ RegisterRoute \/ Unregister \/ RouteLeft \/ RetireToken \/ Return
  \/ StepFails \/ WriteFailsLate \/ RememberFailsHalfway \/ SelectFailsHalfway
  \/ UndoFile \/ FileLeft \/ UndoCompanion \/ CompanionLeft
  \/ UndoMemory \/ MemoryLeft \/ UndoToken \/ Failed

DeleteStep ==
  \/ DeleteRows \/ DeleteSecrets \/ Deleted
  \/ \E a \in Agents : RestoreFile(a) \/ RestoreSkipped(a) \/ RestoreRest(a)

Next ==
  \/ \E a \in Agents, p \in Providers, proxy \in BOOLEAN : BeginSwitch(a, p, proxy)
  \/ \E a \in Agents : BeginRestore(a)
  \/ \E p \in Providers : BeginDelete(p)
  \/ SwitchStep
  \/ DeleteStep
  \/ LoadRoutes \/ RestoreRoute \/ RoutePassedOver \/ RoutesRestored
  \/ Restart

Spec == Init /\ [][Next]_vars
-----------------------------------------------------------------------------
\* The type of every variable.
Found == [file : Settings, companion : Settings, memory : Settings \cup {Forgotten},
          binding : Bindings \cup {Unbound}, token : Tokens \cup {NoToken},
          routes : [Tokens -> Providers \cup {NoRoute}]]

TypeOK ==
  /\ providers \subseteq Providers
  /\ binding \in [Agents -> Bindings \cup {Unbound}]
  /\ memory \in [Agents -> Settings \cup {Forgotten}]
  /\ secret \in [Agents -> [1 .. MaxRev -> Tokens \cup {NoToken}]]
  /\ routes \in [Tokens -> Providers \cup {NoRoute}]
  /\ file \in [Agents -> Settings]
  /\ companion \in [Agents -> Settings]
  /\ \/ sw = Idle
     \/ sw \in [pc : {"token", "write", "companion", "verify", "remember", "select", "save",
                       "route", "retire", "undo", "done", "failed"},
                 agent : Agents, want : Settings, proxy : BOOLEAN,
                 previous : Bindings \cup {Unbound}, rev : 0 .. MaxRev, created : BOOLEAN,
                 file : Settings, companion : Settings, remembered : BOOLEAN,
                 undo : SUBSET {"file", "companion", "memory", "token"},
                 lost : SUBSET {"file", "companion", "memory"}, found : Found]
  /\ \/ del = Idle
     \/ del \in [pc : {"rows", "secrets", "files", "selection"}, provider : Providers,
                  tokens : SUBSET (Agents \X (1 .. MaxRev)), agent : SUBSET Agents,
                  affected : SUBSET Agents]
  /\ boot \in [pc : {"start", "loading", "done"}, todo : SUBSET (Agents \X Bindings)]
  /\ happened \in [fault : Nat, delete : Nat, crash : Nat, overlap : Nat]
  /\ amiss \in [file : SUBSET Agents, selection : SUBSET Agents, route : SUBSET Agents,
                token : SUBSET Tokens]

Settled == sw.pc \in {"idle", "done", "failed"} /\ del.pc = "idle"

\* No deletion has overlapped a switch or a restore.
InTurn == happened.overlap = 0

\* A switch or restore that reports an error has changed nothing but what its
\* own rollback failed to put back: not the agent's file, what is beside it and
\* what is remembered of it, each on its own, and in no case its binding, its
\* token or any route of the proxy.
FailedSwitchChangesNothing ==
  InTurn /\ sw.pc = "failed" =>
    LET a == sw.agent IN
    /\ "file" \in sw.lost \/ file[a] = sw.found.file
    /\ "companion" \in sw.lost \/ companion[a] = sw.found.companion
    /\ "memory" \in sw.lost \/ memory[a] = sw.found.memory
    /\ binding[a] = sw.found.binding /\ TokenOf(a) = sw.found.token
    /\ routes = sw.found.routes

\* Once the routes are restored, the token of a proxy binding leads to the
\* provider of that binding, at every moment but between the commit of a new
\* binding and the registration of its route, and unless the loading could not
\* read the token or the key.
RouteServesBinding ==
  InTurn /\ boot.pc = "done" =>
    \A a \in Agents : HasToken(binding[a]) =>
      \/ TokenOf(a) # NoToken /\ routes[TokenOf(a)] = binding[a].provider
      \/ sw.pc = "route" /\ sw.agent = a
      \/ a \in amiss.route

\* However a deletion and a switch to the same provider interleave, no agent
\* ends up bound to a provider that is gone.
BoundProvidersExist ==
  \A a \in Agents : binding[a] # Unbound => binding[a].provider \in providers

\* A token leads to a provider only as long as a binding uses the token; of a
\* deleted provider, or of a token that could not be read when it was replaced
\* or retired, a dead route may be left.
NoStrayRoute ==
  InTurn /\ Settled => \A t \in Tokens : routes[t] \in providers =>
    \/ \E a \in Agents : HasToken(binding[a]) /\ Token(a, binding[a]) = t
    \/ t \in amiss.token

\* The routes of the proxy are those of the proxy bindings.
RoutesMatchBindings == RouteServesBinding /\ NoStrayRoute

\* Unless the program was stopped in the middle of a switch, or the file could
\* not be put back, what the window shows an agent to be bound to is what the
\* agent's file says.
BindingMatchesFile ==
  InTurn /\ Settled /\ happened.crash = 0 => \A a \in Agents : binding[a] # Unbound =>
    \/ file[a] = [provider |-> binding[a].provider, token |-> TokenOf(a)]
    \/ a \in amiss.file

RestoredOf(a) ==
  file[a] = Native /\ companion[a] = Native /\ binding[a] = Unbound /\ memory[a] = Forgotten

\* A restore that succeeds leaves nothing of AT-Switch behind; what is
\* remembered to be put back is never what a switch wrote.  Excepted are agents
\* whose original selection was forgotten although it was not put back.
RestoreReturnsNative ==
  InTurn => \A a \in Agents \ amiss.selection :
    /\ memory[a] \in {Native, Forgotten}
    /\ sw.pc = "done" /\ Restoring /\ sw.agent = a => RestoredOf(a)

\* The restore after a deletion finds the agents of the deleted provider
\* unbound: it overwrites no file of another binding.
DeletionRestoresUnboundAgents ==
  [][InTurn => \A a \in Agents : RestoreFile(a) => binding[a] = Unbound]_vars
=============================================================================
