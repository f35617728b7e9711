# AT-Switch, specified and verified in TLA+

AT-Switch is a desktop program (Tauri: Rust behind, React in the window) that
points coding agents, such as Codex, Hermes, ZCode, WorkBuddy or AionClaw, at a
model provider of the user's choice. It does so by rewriting the agent's own
configuration, either *directly* (the provider's URL and key) or through a
*local proxy* that translates between three wire protocols. It promises to put
the native configuration back at any time.

This directory holds TLA+ modules of the parts of AT-Switch whose correctness
depends on the order in which things happen, TLC configurations that check them
on small instances, and proofs checked by TLAPS. Rust paths below are relative
to `src-tauri/src/`.

## 1. Inventory

| Component | State | Operations | What is hard | What makes it correct |
|---|---|---|---|---|
| Proxy supervisor (`proxy/server.rs` 95–307) | one runtime record behind an async mutex; the sockets and their tasks | start, stop, set_stopped_port, quit | every operation gives the lock up while it binds or joins, so calls interleave; the serve task reports its own end | the status is what the sockets are; no socket is leaked; stop ends |
| Commands and tray (`commands.rs`, `lib.rs`) | none of their own | start_proxy, stop_proxy, update_proxy_port, delete_provider, snapshot, quit | they read and write database and runtime one after the other | database and runtime agree between calls |
| Route store and requests (`proxy/server.rs` 41–100, 333–777) | token → route; counters; what each request has learnt | register, unregister, resolve, convert, send, answer | a request keeps the route it resolved while keys, providers and routes change; a client may leave at any step | a token leads to the provider its binding names; the key of a request belongs to its URL; the counters add up |
| Stream translation (`proxy/streaming.rs`) | the encoder's accumulated response | decode one event, encode canonical events, yield frames | any order of events, several per frame, cut off anywhere | a well-formed stream, nothing lost, nothing misplaced |
| Codecs (`proxy/codecs.rs`, `canonical.rs`) | none | decode and encode requests and replies | what one protocol puts in a message another spreads over several | the meaning of a conversation survives, or it is refused |
| Configuration transaction (`services/config_transaction.rs`) | baselines and backups, encrypted | baseline, apply_file, restore_backup | crashes, torn files, two transactions, upgrades, a key that cannot be read | a managed file can always be brought back to what it was |
| Secret store (`infrastructure/secrets.rs`) | OS entries, or one vault and its cache | get, put, delete, exists | the cache runs ahead of the OS | what was encrypted can be decrypted |
| Agent service (`agents/mod.rs`) | uses all of the stores | apply, restore, restore_proxy_routes, restore after a deletion | seven durable writes, each of which may fail, and their undoing | a failed switch changes nothing; a restore leaves nothing |
| Agent adapters (`agents/*.rs`) | entries, a default and per-session selections in the agent's files | write, verify, restore | telling AT-Switch's entries from the user's; selections in sessions that come and go | what is selected is served as the binding says; the user's entries stay; a restore returns selections |
| TRAE (`agents/trae.rs`, `trae_ui*`, `trae_bridge.cjs`) | a checkpoint with its history; rows and selections in TRAE | apply, restore, verify | every step is a call that may fail before or after its effect, and so may what undoes it | every row made is on record; a failure is compensated or recorded |
| ima (`agents/ima*`) | a checkpoint with a journal; an online account and a local file | apply, restore, recover | the account is changed from elsewhere; ids are known only from answers | recovery finds its own row and no other; the native preferences come back |
| Provider service (`services/provider_service.rs`) | rows, keys | save, delete, test, discover | a key lives outside the transaction; a test runs for minutes | a row always has its key; verified means tested |
| Database (`infrastructure/database.rs`) | SQLite | one transaction per call | only across calls | |
| Lifecycle (`agents/lifecycle.rs`) | a pause: what was stopped, and whether it has been opened again | pause, resume, drop | the application exits late, not at all, or is started by the user meanwhile | it is opened again, or the user is told |
| Discovery (`agents/locator.rs`) | none | probe | operating system calls | |
| Window (`src/App.tsx`) | snapshot, dialogs | the user's operations | which operations it lets overlap | |

How they interact: a command calls one service; the agent service calls the
configuration transaction, the adapters, the secret store, the database and the
route store in one fixed order; the proxy reads the route store for each
request. Tauri runs synchronous commands (saving a provider, updating settings)
on the main thread, one at a time, and the `async` ones (start, stop, switch,
test, delete) as tasks that interleave at their awaits and locks. The window
adds a flag of its own (`agentOperationInFlight`) that allows one switch or
restore at a time, and keeps its dialogs open while they are busy.

The hazards of each part, with the line where they bite and the properties that
would catch them, are listed in `PROJECT.json`.

## 2. Modules

| Module | Models | Composed or compared with |
|---|---|---|
| `ProxySupervisor` | `ProxySupervisor` with its commands and the tray | implements `LocalEndpoint` |
| `ProxySupervisor_proofs` | theorems about it | |
| `ConfigTransaction` | `config_transaction.rs` over the secret store | |
| `ConfigTransaction_proofs` | theorems about it | |
| `AgentSwitch` | `apply_authorized`, `restore_native_authorized`, `delete_provider`, `restore_proxy_routes` | |
| `AgentSwitch_proofs` | theorems about it | |
| `AgentFiles` | what nine adapters write, restore and verify | `Agents` |
| `TraeSwitch` | `agents/trae.rs` over TRAE's model service | `Agents` |
| `TraeSwitch_proofs` | theorems about it | |
| `ImaTypes` | what ima's account, its local preferences and the checkpoint hold | |
| `ImaBinding` | `agents/ima/binding.rs` over the account and the local file | `Agents` |
| `ImaBinding_proofs` | theorems about it | |
| `DesktopPause` | `DesktopAppPause` with what `agents/mod.rs` tells the user of it | `Agents` |
| `Agents` | TRAE, ima, the agents with files and their applications side by side | |
| `Agents_proofs` | theorems about it, and about `AgentFiles` and `DesktopPause` | |
| `ProtocolCodecs` | `codecs.rs`, as operators | used by `ProxyRequests` |
| `ProxyRequests` | `handle_proxy_request` with the route store, keys and provider edits | `Exchange` |
| `StreamTranslation` | decoders, the Responses encoder, `stream_response` | implements `ResponsesLifecycle`; `Exchange` |
| `Exchange` | requests and a translated stream side by side | |
| `Exchange_proofs` | theorems about it, and about `ProxyRequests` and `StreamTranslation` | |
| `ProviderCatalog` | save, merge, test and delete of `provider_service.rs` | |
| `ProviderCatalog_proofs` | theorems about it | |
| `MC…` | constants and symmetry for TLC | |

### ProxySupervisor

`runtime` is the record behind the mutex: status, port, the shutdown sender and
the join handle, the last two named by the listener they belong to. One action
is one critical section. `start` is `StartReturns`/`StartClaims` (the lock is
taken, Starting is set), `BindFails`/`BindSucceeds` (no lock is held) and
`Publish` (Running, sender and handle are stored). `stop` is
`StopReturns`/`StopClaims` (the sender fires and the handle is taken), `Joined`
and `StopCompletes`. The spawned task goes through `serving`, `draining` and
`drained` and then takes the lock for its own report (`TaskEnds`).
`update_proxy_port` is `SetPort`, `SavePort` and, if the database fails,
`UndoPort`. A caller is a slot of a call in flight; a run with one caller is a
user who waits, a run with two is what the commands themselves allow: the
window's buttons are disabled while it knows a call is running, but the tray's
quit and a second command are not held back by the supervisor.

`LocalEndpoint` is the promise: one port at a time, given up before the next,
halted only when the last client is served.

### ConfigTransaction

`archive` is the set of backup files in the order of creation, each torn or
complete and encrypted with some key. A transaction finds or makes the baseline
(`FindBaseline`, `BaselineMissing`, `Snapshot`), loads or generates the key
(`KeyLoaded`, `KeyGenerated`, `KeyStored`, `KeyNotStored`), creates and fills
each file in two steps (`BackupCreated`, `BackupFilled`: a crash in between
leaves a torn one), re-reads it (`BackupVerified`), replaces the configuration
(`FileReplaced`) and reads it back. `Commit` and `RolledBack` stand for the
rest of the switch, which succeeds or asks for the backup. `cache` and
`keychain` are the two copies of the key on macOS. `Edited` is the user or the
agent, who write the same file.

### AgentSwitch

One switch is one record `sw` whose `pc` is the next step of
`apply_authorized`: token, file, companion, verification, memory, selection,
binding, route, retirement of the old token. What must be undone is the set
`sw.undo`, which each step extends exactly when the code would roll it back, and
which the `Undo…` actions empty. `Kind` says what an agent keeps beside its
file, because the code treats these companions differently. Deletions and the
rebuilding of the routes (`boot`) run beside the switch. Overwriting one file is
atomic here; `ConfigTransaction` is what it expands to.

A step fails before its effect (`StepFails`) or half way (`WriteFailsLate`: the
file was replaced and cannot be read back; `RememberFailsHalfway`,
`SelectFailsHalfway`: one of several values was written). What undoes it fails as
well (`FileLeft`, `CompanionLeft`, `MemoryLeft`, a secret that cannot be deleted):
the code drops such an error or adds "manual recovery required" to the message,
and goes on either way. What a call could not put back is in `sw.lost`; what of
that outlives the call is in the history variable `amiss`, until a later call
makes up for it. A secret that cannot be read is, as in the code, a token that
does not exist (`ReplaceToken`), a retired route that is not unregistered
(`RouteLeft`), or a binding that gets no route until the next switch
(`RoutePassedOver`).

### AgentFiles

One operation is one step: the order of its writes is `AgentSwitch`'s and a
file's transaction is `ConfigTransaction`'s. A document is a set of entries, a
default, the selections of scopes (sessions, tasks, workspaces, agents) and what
CodeBuddy keeps besides. For each kind of agent there are `…Written`
(`build_config` and the activation of sessions), `…Native` (the restore's) and
`…Applied` (`verify_config`); `Written`, `NativeOf` and `Applied` choose among
them. The adapters differ in how they know their own entries: by a fixed name
(Codex, ZCode, Hermes), by a mark (WorkBuddy, CodeBuddy), by an id (AutoClaw) or by
the provider's display name (OpenClaw). `memory` is `agent_runtime_selections`.
The user enters models, selects them, and opens and reopens sessions between the
operations; `user` is a history variable: what was made (`own`), chosen last
(`chose`) and at the takeover (`taken`), and which scopes a restore leaves on the
managed model (`adrift`). An entry holds a set of models, because one entry of
DuMate's serves its aliases as well.

### TraeSwitch

`trae` is what TRAE holds: rows by display name, the selection of each composer,
picks by task. Each call over the bridge has the outcomes done, refused, failed
before its effect and failed after it (`Answered`), and stands for itself with
the one retry the code gives it. `saved` is the checkpoint in AT-Switch's
directory and `past` the rows of all its older versions, which the code reads as
well. `SwitchPlanned` reads TRAE and saves the plan, `Applying` is
`apply_ui_change`, `Reviewed` the second reading of the composer, `Activated`
the last save, `Committed` the binding. A task opened meanwhile is on record
and switched as well; when that save fails, the rollback puts it back with the rest
(trae.rs:446–458). `Compensation` undoes in the order of
`rollback_ui_change` and `RolledBack` writes what is left to be undone. Restore is
`RestoreBegins`, `Restoring`, `Forgotten` or `Reselecting`, `Cleaning`, `Cleaned`.

### ImaBinding

An operation is the list of its remaining steps, because recovery, rollback and
the two ways to finish a restore share them: a step that reads the account puts
the steps that follow from it in its place. `Answered` gives every request the
outcomes of a distributed call. `saved.pending` is the journal: what was before,
what is to be added, and the id once an answer has told it. `Fails` is
`finish_or_rollback`, `Undo` and what it puts on the list `recover_pending`. ima
is taken to refuse a second row of one configuration, as the conflicts that the client
handles say. Where the code finds several rows that a stopped switch may have
added it sets the preferences and gives up (binding.rs:1053–1074, the step
`undecided`); with such an ima that never happens.

### DesktopPause

An agent's application is one process, closed, running or leaving, which has
read the configuration at its start. `Scan`, `Quit`, `Gone`, `ForceExit` (Windows)
and `GivesUp` are `stop_desktop_app_if_running` on both platforms; an agent that
does not stop is changed while it runs, except ima, whose switch then fails
(`StopFails`). `Write` stands for the whole change with its undoing. `Resume` and
`Drop` open the application again after a success and a failure. `restart` is the
`needs_restart` that the window shows. A command line tool is never stopped and
always needs a restart. Several processes of one application are one here, and a
stop of AT-Switch in the middle, after which nobody opens the application, is
left out.

### ProtocolCodecs and ProxyRequests

A text is a sequence of pieces, so that joining two texts and losing one differ.
The canonical request is Anthropic's form; each protocol has a decoder and an
encoder, and `Rejected` is an error. What both sides copy is left out. A request
of `ProxyRequests` goes through `Arrive`, `Resolve` (the lock of the route store
is taken and given up), `Convert` (parse, translate, read the key and send:
nothing is awaited in between), `Answered` and `Body` or `Stream`. Switches are
`Register` and `Unregister`; `EditKey`, `EditUrl` and `DeleteKey` are the steps of
`ProviderCatalog` that requests can notice, each revision of a provider being
kept in `rows`, since a switch may register one it read earlier.

### StreamTranslation

An upstream event is decoded into a sequence of canonical events (`Decode`),
each consumed by the encoder action of its name (`MessageStart`, `TextDelta`,
`ToolCallStart`, …), whose frames are yielded one by one. The upstream may end
or break between any two events and the client may leave wherever the generator
waits. Between equal protocols the proxy passes bytes through, so the Responses
encoder has two upstream protocols. `ResponsesLifecycle` is what a client may
rely on: items are announced, extended, closed, and the response is completed
last. It is instantiated with the state a client can compute from the frames it
has received. What the properties collect from frames and events (`Selected`) is
a recursive function, so that they can be proved about as well as checked.

### ProviderCatalog

`save` is a record that goes through the key, the rows (one transaction), the
old key and the keys of merged rows. `test` holds, for each test in flight,
what was read before its first request. Provider names are all equal, so the
URL alone is a provider's identity. `passed` and `edited` are history variables.

## 3. Runs

All bounds are small on purpose; what each must be large enough for is said
here.

| Run | Question | Bounds |
|---|---|---|
| `proxy_sequential` | is the status true, and the whole one endpoint, for a user who waits? | 2 ports, 2 listeners (one may still drain while the next binds), 2 connections |
| `proxy_overlapping` | what holds whatever overlaps, and does everything end? | 2 callers, 3 listeners (two may be lost to later ones), 1 connection, failing servers |
| `config` | can a managed file be had back, and is a baseline ever managed content? | 2 transactions, 2 paths, 2 keys (so that a lost one shows), 4 files; the histories of `Installations`: new, with a crash; upgraded with two older backups; a secret store that fails once |
| `switch` | failures, restarts and deletions between any two steps | 2 agents, 2 providers, 4 tokens; one of the histories of `FewMishaps`: 2 faults (a step, and one that undoes it) and a deletion; 1 fault, a deletion and a restart; 3 faults (a step and two that undo it, or a restore after them); a deletion that a switch overlaps |
| `agents` | what is left in an agent's own files or account? | 3 operations (takeover, second switch, restore); TRAE: 2 providers, 2 tasks, 2 keys, 2 faults (a call and its compensation) or 1 crash, 2 acts of the user; ima: 2 configurations, 4 ids, 1 fault, 1 crash, 2 acts; files: nine kinds, 5 steps, the last AT-Switch's; an application: 5 agents, 2 platforms, 2 changes, 2 failures, 2 acts of the user |
| `exchange` | what becomes of a request and of a stream? | 2 requests, 2 agents, 2 edits (a key and a URL, or a key and a route); bodies with parallel calls, results, instructions in every place, choices of every form, native tools; 4 stream events, two tool indices that arrive out of order |
| `catalog` | keys, merging and verification | 2 providers, 2 URLs, 2 keys, 2 models, 4 saves (two rows, an edit that makes them equal, the merge), 1 test, 1 failure or restart |

`Agents` and `Exchange` compose modules that share no state: a behaviour is one
of TRAE's, of ima's, of a file's or of an application's (`acting`), and one of
requests or of a stream. `MCAgents` and `MCExchange` only give them constants.
`Agents` instantiates the proof modules of TRAE and ima, which extend the modules
themselves, so that their theorems can be cited in the proofs of the composition.

Five runs are expected to find a violation of something the repository says;
each is a finding in `PROJECT.json`:

- `config_upgrade_locked`: `earliest_matching_backup` passes over a backup it
  cannot read for whatever reason. If the secret store is locked for a moment
  when an upgraded installation first switches, managed content becomes the
  baseline, which `config_transaction.rs` 273–275 says the search avoids.
- `switch_sidecar`: the session files of QClaw, AutoClaw and EasyClaw are not
  restored if the binding cannot be saved, against CHANGELOG.md line 34.
- `switch_while_loading`: the first snapshot's rebuilding of the routes uses the
  bindings it read at its start, and overwrites the route of a switch made in
  between. The code comment at `agents/mod.rs` 1197 excludes that.
- `catalog_edited`: a test marks the row it finds when it ends, which may have
  been saved with another key, protocol or capability since.
- `codebuddy_health`: a switch writes and verifies `name:id` in CodeBuddy's
  workspaces, the health check (`agents/mod.rs` 1651) looks for the bare id. A
  switch that nobody has touched is then reported as changed from outside, with
  the advice to switch again, which cannot help.

### What the passing runs exempt

The antecedents and exceptions of a property are part of what it says. They are:

- `ManagedIsRecoverable` speaks of histories with a calm secret store
  (`left.calm`). A failing vault write and a later loss (the cached key was used
  but is not there), a failing read or two first transactions at once (a second
  key replaces the first), or a torn baseline on an upgraded installation (it is
  found by name and never replaced) violate it.
- `DeletionRestoresUnboundAgents` and most of `switch` speak of deletions that
  no switch overlaps (`InTurn`): a deletion looks up the agents it affects first
  and restores their files last, so an agent switched in between loses its new
  configuration. `BoundProvidersExist` is claimed of all histories.
- With `Kind` one of `Env` or `Index` (both in `MCAgentSwitch`),
  `FailedSwitchChangesNothing` fails: Hermes' `.env` line stays, and ZCode's
  first layer is forgotten when the second cannot be written. With
  `DatabaseKind`, `RestoreReturnsNative` fails: the restore of AionClaw puts one
  of its two layers back. The run therefore has an agent without a companion and
  one with sessions, and the theorems about the two properties are of such agents
  (`OneLayer`).
- What a failing rollback leaves behind is exempt from the properties of
  `switch`, each time for what was left and nothing else:
  `FailedSwitchChangesNothing` for the file, the companion and the remembered
  selection that the call itself could not put back (`sw.lost`; never for the
  binding, the token or the routes); `BindingMatchesFile` for an agent whose file
  was left, until it is bound or restored again (`amiss.file`);
  `RestoreReturnsNative` for an agent whose original selection was forgotten
  although it was not put back (`amiss.selection`), which WorkBuddy's rollback does
  (`agents/mod.rs` 1790–1813 and 2128–2155) and a deletion whose restore failed
  (1560–1594): the next switch then remembers the managed selection as the
  original, and no restore returns the user's.
- What a secret store that cannot be read for a moment leaves behind is exempt
  from `RoutesMatchBindings`: an agent without a route, because its token or key
  was unreadable when the routes were loaded (`amiss.route`; 706 and 717 pass
  over it, and `proxy_routes_restored` stays set, so that nothing looks again
  before its next switch or the next start); and the route of a token that was
  unreadable when it was replaced or retired (`amiss.token`; 2163, 1227 and 1447),
  which goes on leading to its provider until the next start.
- `UsageIsReported` speaks of the usage that a provider's events carry before its
  end (`Figures`), without what the code loses: the usage of an Anthropic
  `message_start` (`streaming.rs` 239–242 reads the model only), and what a chat
  provider sends in or after the chunk of its end, since the decoder emits the end
  first and a completed encoder ignores everything after. A chunk with
  `"usage": null` counts as an empty usage, which replaces the counts before it
  (`streaming.rs` 150); providers that send null in every chunk but the last are
  reported in full only if that last one precedes the end.
- With two callers `PortChangesAtRest` and the other properties of one caller
  at a time fail: `update_proxy_port` checks the status and saves the port in
  two steps.

`NothingIsDropped` compares the two readings of a translated request by the order
of calls and results, by what each side said, and by instructions, tools, the
choice of a tool and the limit of tokens; and what is lost it states as such, so
that it holds of just these losses and no others: native tools of Responses, of
which the instructions then say that they are not available; the mark of a result
as an error, which only Anthropic's form has; a choice that is more than a word,
which goes to a Responses provider in the form it came in (`codecs.rs` 424–426),
which that provider may refuse; the absence of a limit, where Anthropic demands
one; and the tokens read from a cache, which only an answer to a client of
Anthropic's names (650–654, 689–693). It does not compare the text of a message
with the calls and results beside it, because the Chat encoder puts the text first
and gives parallel calls of Responses a message each. Finish reasons are left out.

What a restore leaves behind in the files (`LeftBehind`, `Adrift` and the
exceptions of `UsersEntriesStay` in `AgentFiles`), against the general promise of
README.md line 58:

- Codex, OpenClaw, AutoClaw, Hermes and DuMate return the default of the first
  transaction ever, so a native choice made between two takeovers is lost. Codex
  without a default gets the official provider.
- OpenClaw's scopes and entry stay, and an entry of the user's with the
  provider's name is overwritten. The sessions of AutoClaw and OpenClaw and the
  tasks of ZCode stay on the managed model; ZCode's default is removed, as
  ZCODE_INTEGRATION.md 68–70 says. AionClaw's database stays.
- In WorkBuddy and CodeBuddy a session opened while the agent was managed has
  the managed model as what a second switch remembers of it (`agents/mod.rs`
  1720–1733), so that the restore selects a model that is gone. Sessions on the
  model of an earlier binding stay on it. A model of the user's with the managed
  id is taken for it. CodeBuddy's global selection is cleared, not put back, and
  stays after a failed switch.
- Hermes gets its whole baseline back, without what the user added since. An
  override of DuMate's own provider that was made after the baseline is lost.

TRAE: a commit that fails and a stop before the rollback is on record, a task
opened while a call fails, and two failed calls may leave a row that no record
names as to be removed (`record_rollback_checkpoint`, `trae.rs` 1117–1145), or
an unfinished operation after a successful switch (691–694). A restore whose
commit fails selects the managed model for the defaults only (801–828). A task
opened while managed has the managed model as its baseline. A replaced key of a
model that TRAE already has is not written to it when the row is found by name
(278–288), against the test at `trae.rs` 3273. `VerifiedIsServed` promises that the
models of a healthy binding exist if nothing failed or at most two calls did and
nothing stopped, and that they are the checkpoint's in those cases and after one
stop: with a third failed call, or a failed call and a stop, a rollback may remove
the row that the health check goes on reading from the checkpoint, and with two
stops, if a task was opened too, the active model may be another row of the same
model.

ima: a row that a failed second switch added beside a managed one stays
(`Beside`); a row of the user's that is being managed may be modified back by
recovery (`Undone`); a row that the user adds, or changes, to just what an
interrupted switch was about to make is taken for that switch's and deleted
(`ByHand`); a first switch after a restore that is interrupted is only undone by
the next restore, with what the user preferred since left alone
(`RestoreReturnsNative`); the baseline is taken when a switch is first tried, not when
it first succeeds (IMA_INTEGRATION.md 152); an interrupted restore that is
finished from its journal returns to that journal's state and may leave the id
of a row that is gone (1101–1128); recovery does not get past a preference whose
row has been deleted since.

`AppIsAsTold` claims nothing of an operation during which the user starts or quits
the application: one that is started between the scan and the write has read the
old configuration, and the window says that nothing needs a restart. It exempts
an operation that fails after the application was asked to quit and did not in
time: it may exit later and is not opened again, which nobody says. And it exempts
CodeBuddy when it cannot be opened: `needs_restart` is overwritten with
`needs_manual_restart` (`agents/mod.rs` 1278, 1501), which knows of WorkBuddy's
launch only, against the comment at 1254 that a failed restart also means
"needs to be restarted by hand".

`catalog` has one protocol and one set of capabilities, for the state space;
`catalog_edited` has two of the latter. Deadlock is not checked where the system
may rest for good: a proxy that has quit, a stream that has ended, an agent or a
catalog whose bounds are used up.

### Fairness

Two specifications are fair. `ProxySupervisor!FairSpec` is weakly fair to every
step of a caller that is inside a call and to every step of a server task:
tokio polls each task that can make progress, and none of these steps waits for
a person. Nothing is assumed of users, clients or sockets; a client that keeps
its connection open does keep `stop` waiting, and `NothingHangs` says so.
`StreamTranslation!FairSpec`, and `Exchange!ExchangeSpec` in behaviours of a
stream, are weakly fair to the transcoding steps (`Transcode`), because the
response body is polled as long as the client reads; it assumes nothing of the
provider, and a client may leave instead.

## 4. Proofs

TLAPS checks, for every value of the constants that meets the assumptions:

`ProxySupervisor_proofs`

- `TypeCorrect` (`TypeOK`).
- `ListenersStayHeld` (`ListenersAreHeld`), from `NoListenerIsLeaked` and
  `StopsJoinEndingTasks`, for any number of overlapping calls. The
  invariant has to say more than the properties do: sender and task of the
  runtime are one listener's or both absent (`SenderWithTask`), because `stop`
  takes both in one critical section; without it, a stop could take the task of
  one listener and the sender of another.
- `SocketsMatchStatusForOneCaller` (from one theorem for each of its three
  parts), `OnSavedPortForOneCaller`, `PortChangesAtRestForOneCaller`, and `SupervisorImplementsEndpoint`, the
  refinement of `LocalEndpoint`, for a single caller. Their inductive invariant
  ties the caller's location to the status and to the only listener that may
  live: a start that is binding sees none, a stop that joins waits for the only
  one. That is what a second caller would destroy.

`ProviderCatalog_proofs`

- `CatalogTypeCorrect`, and `EveryProviderHasItsKey` (`KeyOfEveryProvider`):
  wherever the program stops or fails, the key that a row names is stored. The
  inductive invariant says what each location of a save and a deletion knows of
  the rows: the reference a save is about to name is stored; one it deletes
  belongs to no row, because it is of an older revision or of a row that the
  transaction has removed; and no other save or deletion runs.
- `NoKeyOutlivesItsProvider` (`NoKeyIsLeftBehind`): in a history without a fault,
  every stored key is accounted for (`Accounted`): its row names it, or the save
  under way is about to name it or to delete it, or the deletion is. The
  disjuncts but the first end with the call. That the save deletes the keys of the
  rows it merged needs their revisions to be still those it noted at its start
  (`RevsNamed`).
- `VerifiedHasPassed` (`VerifiedIsTestedUnlessEdited`): a test is of the key, the
  endpoint and the features its row still has, unless the row was saved since it
  began (`TestsCurrent`); that is what the mark at its end relies on without
  looking. The key is covered because no step deletes or replaces the one a row
  names (`NamedKeyStays`, from `KeyInv`).
- `VerifyingIsTesting` (`VerifyingHasATest`), by itself with the types: only the
  start of a test makes the mark, and a save keeps it where it was.
- `MergeLosesNothing` (`MergeKeepsModels`), from the same invariant and one more
  fact (`NothingToLose`): from its start to its transaction a save holds every
  model of the rows it is to merge, which only tests touch meanwhile, and they
  write no more than a status. The catalog takes the latest of several entries
  for a model; that there is a latest one rests on the well-foundedness of the
  natural numbers.

`AgentSwitch_proofs`

- `SwitchTypeCorrect` (`TypeOK`). The types alone are not inductive; `PathOK` adds
  what a restore never comes to (it takes no token and verifies nothing), that
  only a binding with a token has one to retire, and that a new token has a
  revision to be deleted under.
- `BoundToExisting` (`BoundProvidersExist`): only the commit of a binding and the
  deletion of the rows touch either side of the relation, and each restores it
  alone, which is why no overlap breaks it.
- `DeletionOverwritesNoBinding` (`DeletionRestoresUnboundAgents`): while nothing
  overlaps, the agents that a deletion looked up at its beginning are those whose
  bindings its transaction deletes, and nobody binds them again meanwhile.
- `BindingsAreWritten` (`BindingMatchesFile`), of any number of failures, those of the
  undoing included, but for an agent whose file such a failure has left
  (`amiss.file`). The invariant says at each location
  of a call what the call knows of its agent: the binding it found is the one in
  the database until its own is saved (`CallBinding`), the token it is going to
  name is stored under the reference it is going to name (`CallToken`), no two
  references name one token (`SecretsDistinct`), and the file is what was found or
  what is wanted, with what was found kept for the undoing (`CallFile`). A deletion
  that overlaps nothing deletes only references that no binding names
  (`DeletedTokens`).
- `RoutesServeBindings` (`RoutesMatchBindings`) with `~EarlySnapshot`, which says
  that the window calls nothing before the first snapshot has rebuilt the routes:
  every binding has its route or is about to get it (`Served`), every route has
  its binding or is about to be replaced (`Owned`), or an unreadable secret has
  kept it from that (`amiss.route`, `amiss.token`). `switch_while_loading` shows that
  the hypothesis is needed.
- `FailureLeavesEverything` (`FailedSwitchChangesNothing`) with `~EarlySnapshot` and
  `OneLayer`, which says that every agent is of kind plain or session: until the
  binding is saved everything outside the file, the memory and the companion is
  as found, and each of those is as found, in `sw.undo` with its former value, or
  in `sw.lost` because its undoing has failed (`CallFile`, `CallMemory`,
  `CallCompanion`). A companion in two layers (`index`, `database`), one that is
  not undone (`env`) or one that is not returned (`sidecar`; run `switch_sidecar`)
  breaks this.
- `RestoredIsNative` (`RestoreReturnsNative`) with `OneLayer`: what is remembered of
  an agent was taken while its companion was native (`NativeInv`), and a switch of
  an agent that is remembered takes nothing again; so that only an agent that was
  forgotten while its companion was managed (`amiss.selection`) is excepted.

`ConfigTransaction_proofs`

- `ConfigTypeCorrect` (`TypeOK`), with what each location of a call has in hand: the
  slot of the backup it fills, the name it was given, the key it encrypts with
  (`TypeInv`, `NamesInv`: a path has one baseline of a name, and one under its own
  name only if the agent's legacy one is of another path).
- `BaselinesAreNative` (`BaselineIsNative`) with `OnlyCalmReads`, which says that in
  histories with backups of an older version no read of the secret store fails:
  `config_upgrade_locked` shows that it is needed. The invariant
  (`OriginInv`) says that managed content never comes without its origin: where a
  file or a backup holds it, there is a baseline already or an older backup of
  native content that the search for a baseline would take first; and that a
  call past `baseline()` has one. That the search takes the first one rests on the
  well-foundedness of the natural numbers (`Earliest`).
- `ManagedStaysRecoverable` (`ManagedIsRecoverable`) and `RollbackAlwaysPossible`
  (`RollbackStaysPossible`), of calm histories as the properties are: cache, store
  and every backup agree on one key (`CalmKeys`), and the baseline of what is
  managed is complete (`CalmBaselines`). The legacy baseline has to be complete as
  well, because `baseline()` looks at it before it takes the path's own.

`Exchange_proofs`, of requests

- `RequestsCarryTheirKey` (`CredentialsMatch`): the invariant says that a route,
  and what a request has taken from it, was made of one saved version of its
  provider, which stays in the history when newer ones are saved, and that what
  is stored under a reference never changes: only deletions can make it differ
  from what the row says.
- `RequestsAreCounted` (`CountsAgree`), for any finite set of requests: each step
  moves one request into or out of those under way, and each outcome increments
  one of the counters that tell how requests ended, or none (`Accounts`).
- `ExchangeCarriesKeys`, `ExchangeCounts` and `ExchangeTranslates` say the same, and
  all of what follows, of `ExchangeSpec`, whose behaviours are behaviours of either
  (`ExchangeIsProxy`, `ExchangeIsStream`).

`Exchange_proofs`, of a stream, from `ConstantsAssumption`: the value for what is absent
is none of the values it stands beside. Tools, pieces, usages, ids and events are
any, finitely or infinitely many.

- `StreamTypeOK` (`TypeOK`) and `FramesNumbered` (`FramesAreNumbered`). What was sent
  and what waits to be yielded is one sequence of frames (`All`). `StreamInv` says
  that it is `Valid`, each of its frames one that may follow those before it,
  numbered, and, where it is final, a repetition of what was said; and while the
  stream is translated it is `Live`: the encoder's counters, indexes, texts and
  arguments are those of the frames it has produced, also of the ones not yet sent.
  Each canonical event keeps this (one lemma per encoder action); `yield` only
  moves the border between the two parts, and what the client has is a prefix of
  a valid sequence (`ValidPrefix`).
- `StreamImplementsLifecycle`: the refinement of `ResponsesLifecycle`, whose state is
  computed from the frames sent. Each frame that may follow a valid prefix is one
  step (`EveryFrameIsAStep`); all other actions stutter.
- `FinalFramesRepeat` (`FinalIsAccumulated`, the part of `ClientHasWhatWasSent` about
  final frames): `complete()` repeats what was said, in order of the output index.
- `ClientHasEverything` (`ClientHasWhatWasSent`) and `UsageReported` (`UsageIsReported`)
  need what relates the provider to the encoder (`InputInv`): between two reads the
  encoder holds exactly what the provider said up to its end (`Held`); while an
  event is being consumed, all but what its remaining canonical events will add
  (`Between`). Once a response is completed, nothing that follows is held, which
  is why a usage in the same chat chunk as the end is lost; and the usage held is
  the last one that is read, which an Anthropic start's is not (`UsageRead`).

`ImaBinding_proofs`, from `ImaAssumption`: there is an id to give, and the values for
a model of ima's, for no preference and for what is absent are none of the others.

- `ImaTypeOK` (`TypeOK`). It needs what the lists of steps look like (`Planned`): their
  steps come in one order (`Sorted`), which steps occur together (`Shape`), and what
  they need has been prepared (`Stage`, `Record`): a journal before anything is
  changed, a row before it is selected, the former row before it is made anew. Each
  action is first reduced to what it does to the list (`Pops`, `UndoTo`, ...), and that
  is shown to keep the plan. With it goes that ima has one row of each configuration
  (`Distinct`), by which recovery is never left with two rows to choose from.
- `ImaUsersRowsStay` (`UsersRowsStay`, the part of `UsersEntriesStay` about ima): the
  invariant (`OwnOK`) says that every row the records call AT-Switch's own was added
  by it, that ids are never given twice, and that a row which is new since the
  journal and not AT-Switch's is neither of the input the journal announces nor of
  the one it remembers, so that recovery, which knows its rows by their inputs, finds
  no other. A row of exactly that input added by hand after an interruption counts as
  AT-Switch's in the model (`ByHand`), because the code cannot tell them apart.
- `ImaFailedIsCompensated` (`FailedIsCompensated`, ima's part of the one `agents`
  checks), of operations that found no journal. The invariant (`Compensating`) relates
  the account to what it was when the operation began: nothing is done before the
  journal is written (`Untouched`); from then on the journal tells how the account was
  (`JournalOf`), or there is nothing left to undo (`Undoable`); and while it is being
  undone, what has been left behind is as it was (`Undoing`). The requests of recovery
  may fail without a failure being reported, so that its end alone shows little: after
  every change of the preferences there remains a wait for them to be what they were,
  without which recovery does not end (`Awaiting`). A preference that was stale before
  cannot come to name a row that is new, as ids are never given twice (`Follows`).
- `ImaRestoreReturnsNative` (`RestoreReturnsNative`, ima's part). The selection of before
  the first switch is on record from then on (`BaseKnown`). A restore does not end before it
  is decided that there is a row taken over, since recovery puts one on record again
  (`Deciding`); from there on what is left to do names the models that the selection
  names, all of which exist (`Returning`). It holds as well when the managed row is
  gone: an exception for that, which the property had, was not needed.

`TraeSwitch_proofs`, from `Assumptions`: there are finitely many models and tasks
and at least one of each, a composer besides the first, a key, and a number for
every row that the bounded number of operations can add; and the values for the
automatic model, for no task, no pick and what is absent are none of the others.
The numbers of faults, stops and acts of the user are not bounded in the proofs.

- `TraeTypeOK`, `TraeOnRecord`, `TraeFailedSwitch`, `TraeRestoreReturnsNative` and
  `TraeVerifiedIsServed` follow from one inductive invariant (`IInv`), which says of
  every phase what its remaining calls are going to make of TRAE. What can be seen of
  TRAE is a set of cells: the selection of each label, the pick of each task, and
  whether there is a row of each name. Each call writes some of them, `WillBe` is
  what a list of calls leaves in a cell, and `Becomes(cells, trae, todo, aim)` says that
  it is what the aim has there. A call that took effect and whose answer was lost
  leaves the cell as the calls after it will, so that the formula survives it
  whether the call is repeated, retried or passed over. A switch is on its way to the
  selection of its row (`Forward`); its rollback, to what TRAE was when the switch was
  planned (`Backward`); a restore, to the baseline (`Returning`).
- Around that stand: every checkpoint's rows are in the history and its baseline is
  that of before the first takeover (`Held`; during a rollback the one saved may lack
  the task whose save failed); each model has one row of AT-Switch's or
  the user's, and those of before the takeover stay (`Found`); a plan agrees with the
  checkpoint that was saved for it and with the state it was made in (`PlanOK`); a
  rollback that is complete has undone the switch, or what failed to be undone is
  on record (`Undone`).
- The exceptions of the properties are counted, and so is their proof: with at most
  one mishap (a failed call or a task opened) every row of AT-Switch's in TRAE is
  owned by the checkpoint saved (`Accounted`); with at most two failures and no stop,
  what is selected exists (`Healthy`), and then, or after one stop alone, any row of the
  active model is the active row (`Active`, and `WasActive` for the state that a rollback
  returns to). The second failure makes that hard: after the first the active row
  may be lost, but then its name is on no record either and has the first number, so
  that the next row made for its model gets that very name (`Lasts`). `Lasting` says
  so of every phase, with what a rollback of which a call failed can lose at most.
  That the oldest matching record is taken rests on a set of numbers having a
  smallest member (`HasMin`).

`Agents_proofs`, from `AgentsAssumption`: what TRAE and the files take for granted.
Of the agents with files that is: the fixed names (`at-switch`, DuMate's own
provider, the official one) are nobody's display name, an entry of the user's has
one model, no mark and a credential that no provider of AT-Switch's has (an entry of
some adapters counts as AT-Switch's by its credential alone, `Ours`), and the
values for no selection, an automatic and an absent one are told from references.
The code forbids none of this to a user; entries made so are outside of the theorems.

- `FilesAreSafe` (`SwitchIsServed`, `UsersEntriesStay`, `RestoreReturnsNative` and the
  types, of `AgentFiles`). The invariant (`FilesInv`) says for every adapter which entries
  are its own (`Told`: by mark, by name, or by credential), also in the documents of
  the first transaction, which hold none; which of the user's are there or covered by
  one of AT-Switch's (`Kept`); which adapters never touch a scope (`Scopeless`); what
  stands in the selections that a restore leaves alone (`Left`); that what WorkBuddy and
  CodeBuddy remember is what the first switch found (`Remembers`), and that every
  selection of theirs is managed, the user's, or known to be adrift (`Accounted`). The
  last two are what makes a restore provable: it returns what is remembered, and
  what is not remembered either was not AT-Switch's or is in `user.adrift`.
- `AppsAreAsTold` (`AppIsAsTold`, of `DesktopPause`): a pause is held exactly when the
  application would stop; without the user there is no other process than the one
  that was found, so that it is gone for as long as the pause is held.
- `AgentsTypeOK`, `FailuresAreCompensated`, `RestoresReturnNative`, `SwitchesAreServed`,
  `EntriesStay` and `RowsStay` state every property that the run `agents` checks of the
  composition (`TypeOK`, `FailedIsCompensated`, `RestoreReturnsNative`, `SwitchIsServed`,
  `UsersEntriesStay`, `UsersRowsStay`), for every value of the constants. A behaviour is
  one agent's: `acting` never changes and the variables of the others stand still
  (`OneActs`), so that a behaviour in which TRAE or ima acts is one of `TraeSwitch` or
  `ImaBinding` (`TraeActs`, `ImaActs`), whose theorems are cited.

Only model-checked:

- `NothingIsDropped`: what a codec does to a conversation of any length needs
  induction over that conversation.
- `NothingHangs` and `EndIsDelivered`: liveness needs fairness and ENABLED, which are
  out of the prover's reach.
- the five runs that are expected to find a violation.

## 5. Not modelled

- The chat and Messages stream encoders, which keep next to no state, and the
  cutting of bytes into frames.
- The syntax of configuration files, and the fields an adapter sets besides the
  model (reasoning, context length).
- The debugging port and the helper process of TRAE, ima's authentication, and
  an answer of TRAE that takes effect after its timeout was compensated.
- `secrets.rs` with its legacy entries, settings, migrations, the login item.
- Discovery of agents: operating system calls.
- Rendering, and the reducer that drops late snapshots.

## 6. Plan

1. `SecretVault`: legacy entries, cache and the whole vault under one lock, and
   a refinement to a plain map from references to secrets, which
   `ConfigTransaction` and `ProviderCatalog` assume.
2. The window's snapshot reducer (late snapshots, revisions).
3. A reference reading of a conversation that is defined without recursion, about
   which `NothingIsDropped` could be proved.
