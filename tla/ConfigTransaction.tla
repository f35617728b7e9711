------------------------- MODULE ConfigTransaction -------------------------
(***************************************************************************)
(* services/config_transaction.rs: how AT-Switch overwrites a file that    *)
(* belongs to an agent.  A switch or a restore first makes sure that the   *)
(* agent has a baseline (the file as it was before AT-Switch first wrote   *)
(* it), then backs up the present content, replaces the file, reads it     *)
(* back, and may put the backup back when a later step of the switch       *)
(* fails.  Baselines and backups are encrypted with one key, kept in the   *)
(* operating system's secret store (infrastructure/secrets.rs).            *)
(*                                                                         *)
(* Every action makes at most one durable change, so a crash may fall      *)
(* between any two of them.                                                *)
(***************************************************************************)
EXTENDS Naturals, Sequences

CONSTANTS
  Agents, Paths,   \* an agent's configuration may move to another path
  Native,          \* contents the user or the agent itself wrote
  Managed,         \* contents that point at an AT-Switch provider
  Keys,            \* backup keys that may be generated
  Callers,         \* transactions that may be in flight at once
  Vault,           \* TRUE: macOS, one vault behind a cache; FALSE: one entry per secret
  MaxArchive,      \* bound on the backup files
  Histories,       \* what came before, and bounds on what goes wrong
  Absent,          \* a file that does not exist
  NoKey,           \* no secret is stored
  Unloaded         \* the vault has not been read since the program started

Contents == Native \cup Managed \cup {Absent}

ASSUME DataAssumption ==
  /\ Native # {} /\ Managed # {} /\ Native \cap Managed = {}
  /\ Absent \notin Native \cup Managed
ASSUME KeysAssumption == Keys # {} /\ NoKey \notin Keys /\ Unloaded \notin Keys \cup {NoKey}
ASSUME BoundsAssumption == MaxArchive \in Nat /\ Vault \in BOOLEAN

\* callers and paths: those there are.  firstUse: no backup key has been generated yet.  inherited: the backups of
\* an older release, which made no baselines.  The rest bounds the failing
\* reads and writes of the secret store and the crashes.
ASSUME HistoriesAssumption == \A h \in Histories :
  /\ h.callers \subseteq Callers /\ h.paths \subseteq Paths
  /\ h.firstUse \in BOOLEAN /\ {h.read, h.write, h.crash} \subseteq Nat
  /\ h.inherited \in Seq([agent : Agents, path : h.paths, content : Contents])
  /\ h.firstUse => h.inherited = <<>>
  /\ \A i \in DOMAIN h.inherited : h.inherited[i].content \in Managed =>
       \E j \in 1 .. i - 1 : /\ h.inherited[j].agent = h.inherited[i].agent
                             /\ h.inherited[j].path = h.inherited[i].path
                             /\ h.inherited[j].content \notin Managed

VARIABLES
  files,     \* the configuration file of each agent at each path
  archive,   \* the backup files, in the order of their creation
  keychain,  \* the backup key the operating system has stored
  cache,     \* the backup key in the vault's cache, which a restart empties
  fresh,     \* keys that have not been generated yet
  pc, op,    \* where each transaction is, and its local variables
  left       \* faults that may still happen; calm: the history has none

vars == <<files, archive, keychain, cache, fresh, pc, op, left>>

\* A backup file: its name decides whether create_new finds it there.
Legacy == [kind |-> "baseline", path |-> Absent]
Scoped(p) == [kind |-> "scoped", path |-> p]
Operation == [kind |-> "operation", path |-> Absent]

BackedUp(backups, a, p) ==
  \E i \in DOMAIN backups : backups[i].agent = a /\ backups[i].path = p

Init ==
  \E h \in Histories :
    /\ files \in [Agents -> [h.paths -> Contents]]
    /\ \A a \in Agents, p \in h.paths : files[a][p] \in Managed <=> BackedUp(h.inherited, a, p)
    /\ keychain \in IF h.firstUse THEN {NoKey} ELSE Keys
    /\ fresh = Keys \ {keychain}
    /\ cache = Unloaded
    /\ archive = [i \in DOMAIN h.inherited |->
                    [agent |-> h.inherited[i].agent, name |-> Operation,
                     path |-> h.inherited[i].path, content |-> h.inherited[i].content,
                     key |-> keychain, complete |-> TRUE]]
    /\ pc = [c \in h.callers |-> "idle"]
    /\ op = [c \in h.callers |-> Absent]
    /\ left = [read |-> h.read, write |-> h.write, crash |-> h.crash,
               calm |-> h.inherited = <<>> /\ h.read + h.write = 0 /\ \E c \in Callers : h.callers = {c}]

Goto(c, from, to) == pc[c] = from /\ pc' = [pc EXCEPT ![c] = to]
Return(c, from) == Goto(c, from, "idle") /\ op' = [op EXCEPT ![c] = Absent]

-----------------------------------------------------------------------------
(* The secret store *)

Cached == Vault /\ cache # Unloaded

\* The key a later read returns if nothing goes wrong, now or after a restart.
LiveKey == IF Cached THEN cache ELSE keychain

\* What SecretStore::get answers: the key, or NoKey for any error.  The vault
\* is read once; the cached key, stored or not, is what later reads return.
Get(k) ==
  \/ /\ k = LiveKey
     /\ cache' = IF Vault THEN LiveKey ELSE cache
     /\ UNCHANGED left
  \/ /\ ~Cached
     /\ left.read > 0
     /\ k = NoKey
     /\ left' = [left EXCEPT !.read = @ - 1]
     /\ UNCHANGED cache

\* No file to read, no need for the key.
GetToRead(S, k) == IF S = {} THEN k = NoKey /\ UNCHANGED <<cache, left>> ELSE Get(k)

\* A backup decrypts only if it was written to the end, with this key.
Decrypts(k, i) == archive[i].complete /\ archive[i].key = k /\ k # NoKey

-----------------------------------------------------------------------------
(* baseline() *)

Begin(c, a, p, m, restore) ==
  /\ Goto(c, "idle", "baseline")
  /\ op' = [op EXCEPT ![c] = [restore |-> restore, agent |-> a, path |-> p, new |-> m,
              name |-> Operation, content |-> Absent, key |-> NoKey, slot |-> 0]]
  /\ UNCHANGED <<files, archive, keychain, cache, fresh, left>>

Named(a, name) == {i \in DOMAIN archive : archive[i].agent = a /\ archive[i].name = name}

\* The baseline file that counts for this path: the legacy one, unless it is
\* there and was made for another path.
BaselineName(a, p) ==
  IF \A i \in Named(a, Legacy) : archive[i].path = p THEN Legacy ELSE Scoped(p)

\* The legacy file is read to find that out, and the scoped one after it.
BaselineFiles(a, p) == Named(a, Legacy) \cup Named(a, BaselineName(a, p))

WithTarget(c, i) ==
  IF op[c].restore THEN [op[c] EXCEPT !.new = archive[i].content] ELSE op[c]

FindBaseline(c) ==
  LET a == op[c].agent  p == op[c].path IN
  \E k \in Keys \cup {NoKey} :
    /\ Goto(c, "baseline", "read")
    /\ Get(k)
    /\ \A i \in BaselineFiles(a, p) : Decrypts(k, i)
    /\ \E i \in Named(a, BaselineName(a, p)) : op' = [op EXCEPT ![c] = WithTarget(c, i)]
    /\ UNCHANGED <<files, archive, keychain, fresh>>

\* Torn, or not decrypted by the key that get() answers: the call fails.
BaselineUnreadable(c) ==
  \E k \in Keys \cup {NoKey} :
    /\ Return(c, "baseline")
    /\ Get(k)
    /\ \E i \in BaselineFiles(op[c].agent, op[c].path) : ~Decrypts(k, i)
    /\ UNCHANGED <<files, archive, keychain, fresh>>

BaselineMissing(c) ==
  LET a == op[c].agent  p == op[c].path IN
  /\ Goto(c, "baseline", "snapshot")
  /\ Named(a, BaselineName(a, p)) = {}
  /\ \E k \in Keys \cup {NoKey} :
       /\ GetToRead(Named(a, Legacy), k)
       /\ \A i \in Named(a, Legacy) : Decrypts(k, i)
  /\ op' = [op EXCEPT ![c].name = BaselineName(a, p)]
  /\ UNCHANGED <<files, archive, keychain, fresh>>

\* earliest_matching_backup: what cannot be decrypted is skipped.
Candidates(a) == {i \in DOMAIN archive : archive[i].agent = a /\ archive[i].name # Legacy}
Matching(a, p, k) == {i \in Candidates(a) : archive[i].path = p /\ Decrypts(k, i)}
\* Mutant: the latest backup, which is more likely to be managed.
Latest(S) == CHOOSE i \in S : \A j \in S : j <= i
Earliest(S) == CHOOSE i \in S : \A j \in S : i <= j

Snapshot(c) ==
  LET a == op[c].agent  p == op[c].path IN
  \E k \in Keys \cup {NoKey} :
    /\ Goto(c, "snapshot", "key")
    /\ GetToRead(Candidates(a), k)
    /\ op' = [op EXCEPT ![c].content =
                IF Matching(a, p, k) # {} THEN archive[Earliest(Matching(a, p, k))].content
                                          ELSE files[a][p]]
    /\ UNCHANGED <<files, archive, keychain, fresh>>

-----------------------------------------------------------------------------
(* write_encrypted_backup() and the verification after it *)

KeyLoaded(c) ==
  \E k \in Keys :
    /\ Get(k)
    /\ Goto(c, "key", "create")
    /\ op' = [op EXCEPT ![c].key = k]
    /\ UNCHANGED <<files, archive, keychain, fresh>>

\* exists() is false for a missing key and for any error: a new one is made.
KeyGenerated(c) ==
  \E n \in fresh :
    /\ Get(NoKey)
    /\ Goto(c, "key", "put")
    /\ op' = [op EXCEPT ![c].key = n]
    /\ fresh' = fresh \ {n}
    /\ UNCHANGED <<files, archive, keychain>>

CacheAfterPut(k) == IF Vault THEN k ELSE cache

\* Mutant: the vault is changed in the cache only.
KeyCached(c) ==
  /\ Goto(c, "put", "create")
  /\ cache' = CacheAfterPut(op[c].key)
  /\ UNCHANGED <<files, archive, keychain, fresh, op, left>>

KeyStored(c) ==
  /\ Goto(c, "put", "create")
  /\ keychain' = op[c].key
  /\ cache' = CacheAfterPut(op[c].key)
  /\ UNCHANGED <<files, archive, fresh, op, left>>

\* The vault's put() changes the cache before it persists the vault.
KeyNotStored(c) ==
  /\ left.write > 0
  /\ Return(c, "put")
  /\ left' = [left EXCEPT !.write = @ - 1]
  /\ cache' = CacheAfterPut(op[c].key)
  /\ UNCHANGED <<files, archive, keychain, fresh>>

\* create_new refuses a file that is there; an operation's name is unique.
NameIsFree(a, name) == name = Operation \/ Named(a, name) = {}

BackupCreated(c) ==
  /\ Goto(c, "create", "fill")
  /\ Len(archive) < MaxArchive
  /\ NameIsFree(op[c].agent, op[c].name)
  /\ archive' = Append(archive,
       [agent |-> op[c].agent, name |-> op[c].name, path |-> op[c].path,
        content |-> op[c].content, key |-> op[c].key, complete |-> FALSE])
  /\ op' = [op EXCEPT ![c].slot = Len(archive) + 1]
  /\ UNCHANGED <<files, keychain, cache, fresh, left>>

BackupExists(c) ==
  /\ Return(c, "create")
  /\ ~NameIsFree(op[c].agent, op[c].name)
  /\ UNCHANGED <<files, archive, keychain, cache, fresh, left>>

\* Mutant: neither synced nor read back before it is relied on.
BackupTrusted(c) ==
  /\ Goto(c, "fill", IF op[c].name = Operation THEN "write" ELSE "verify")
  /\ archive' = [archive EXCEPT ![op[c].slot].complete = (op[c].name # Operation)]
  /\ UNCHANGED <<files, keychain, cache, fresh, op, left>>

BackupFilled(c) ==
  /\ Goto(c, "fill", "verify")
  /\ archive' = [archive EXCEPT ![op[c].slot].complete = TRUE]
  /\ UNCHANGED <<files, keychain, cache, fresh, op, left>>

BackupVerified(c) ==
  \E k \in Keys :
    /\ Goto(c, "verify", IF op[c].name = Operation THEN "write" ELSE "read")
    /\ Get(k)
    /\ Decrypts(k, op[c].slot)
    /\ op' = IF op[c].name = Operation
               THEN op ELSE [op EXCEPT ![c] = WithTarget(c, op[c].slot)]
    /\ UNCHANGED <<files, archive, keychain, fresh>>

BackupNotVerified(c) ==
  \E k \in Keys \cup {NoKey} :
    /\ Return(c, "verify")
    /\ Get(k)
    /\ ~Decrypts(k, op[c].slot)
    /\ UNCHANGED <<files, archive, keychain, fresh>>

-----------------------------------------------------------------------------
(* apply_file() and restore_backup() *)

\* A restore of a file that was not there writes one without managed entries.
ReadOriginal(c) ==
  /\ Goto(c, "read", "key")
  /\ \E new \in Contents \ {Absent} :
       /\ op[c].new # Absent => new = op[c].new
       /\ op[c].new = Absent => new \in Native
       /\ op' = [op EXCEPT ![c].new = new, ![c].name = Operation,
                           ![c].content = files[op[c].agent][op[c].path]]
  /\ UNCHANGED <<files, archive, keychain, cache, fresh, left>>

\* Mutant: the content lands a directory too high.
SetDirectory(c, content) == files' = [files EXCEPT ![op[c].agent] = content]
SetFile(c, content) ==
  files' = [files EXCEPT ![op[c].agent][op[c].path] = content]

FileReplaced(c) ==
  /\ Goto(c, "write", "check")
  /\ SetFile(c, op[c].new)
  /\ UNCHANGED <<archive, keychain, cache, fresh, op, left>>

FileAsWritten(c) == files[op[c].agent][op[c].path] = op[c].new

ReadBack(c) ==
  /\ Goto(c, "check", "applied")
  /\ FileAsWritten(c)
  /\ UNCHANGED <<files, archive, keychain, cache, fresh, op, left>>

\* Someone else has written the file meanwhile: the backup goes back.
ReadBackDiffers(c) ==
  /\ Return(c, "check")
  /\ ~FileAsWritten(c)
  /\ SetFile(c, op[c].content)
  /\ UNCHANGED <<archive, keychain, cache, fresh, left>>

\* The later steps of the switch (module AgentSwitch) succeed, or one fails
\* and asks for the backup.
Commit(c) ==
  /\ Return(c, "applied")
  /\ UNCHANGED <<files, archive, keychain, cache, fresh, left>>

RolledBack(c) ==
  \E k \in Keys :
    /\ Return(c, "applied")
    /\ Get(k)
    /\ Decrypts(k, op[c].slot)
    /\ SetFile(c, archive[op[c].slot].content)
    /\ UNCHANGED <<archive, keychain, fresh>>

\* An I/O error anywhere ends the call where it is.
Fails(c) ==
  /\ pc[c] \notin {"idle", "put"}
  /\ Return(c, pc[c])
  /\ UNCHANGED <<files, archive, keychain, cache, fresh, left>>

-----------------------------------------------------------------------------
(* The environment *)

\* The user edits an unmanaged file; an agent rewrites a managed one.
Edited(a, p, content) ==
  /\ content \in IF files[a][p] \in Managed THEN Managed ELSE Native
  /\ files' = [files EXCEPT ![a][p] = content]
  /\ UNCHANGED <<archive, keychain, cache, fresh, pc, op, left>>

\* The put() of any other secret persists the whole vault.
VaultPersisted ==
  /\ Cached
  /\ cache # NoKey
  /\ keychain' = cache
  /\ UNCHANGED <<files, archive, cache, fresh, pc, op, left>>

Restart ==
  /\ left.crash > 0
  /\ left' = [left EXCEPT !.crash = @ - 1]
  /\ pc' = [c \in DOMAIN pc |-> "idle"]
  /\ op' = [c \in DOMAIN pc |-> Absent]
  /\ cache' = Unloaded
  /\ UNCHANGED <<files, archive, keychain, fresh>>

Step(c) ==
  \/ FindBaseline(c) \/ BaselineUnreadable(c) \/ BaselineMissing(c) \/ Snapshot(c)
  \/ KeyLoaded(c) \/ KeyGenerated(c) \/ KeyStored(c) \/ KeyNotStored(c)
  \/ BackupCreated(c) \/ BackupExists(c) \/ BackupFilled(c)
  \/ BackupVerified(c) \/ BackupNotVerified(c)
  \/ ReadOriginal(c) \/ FileReplaced(c) \/ ReadBack(c) \/ ReadBackDiffers(c)
  \/ Commit(c) \/ RolledBack(c) \/ Fails(c)

Next ==
  \/ \E c \in DOMAIN pc : Step(c)
  \/ \E c \in DOMAIN pc, a \in Agents : \E p \in DOMAIN files[a] :
       \/ \E m \in Managed : Begin(c, a, p, m, FALSE)
       \/ Begin(c, a, p, Absent, TRUE)
  \/ \E a \in Agents : \E p \in DOMAIN files[a], content \in Contents : Edited(a, p, content)
  \/ VaultPersisted
  \/ Restart

Spec == Init /\ [][Next]_vars
-----------------------------------------------------------------------------
Calls ==
  [restore : BOOLEAN, agent : Agents, path : Paths, new : Contents,
   name : {Legacy, Operation} \cup {Scoped(p) : p \in Paths},
   content : Contents, key : Keys \cup {NoKey}, slot : Nat]

\* A caller without locals can be told from one in a call.
ASSUME IdleAssumption == Absent \notin Calls

\* The type of every variable, and locals only for a caller in a call.
TypeOK ==
  /\ files \in [Agents -> UNION {[P -> Contents] : P \in SUBSET Paths}]
  /\ archive \in Seq([agent : Agents, name : {Legacy, Operation} \cup {Scoped(p) : p \in Paths},
                      path : Paths, content : Contents,
                      key : Keys \cup {NoKey}, complete : BOOLEAN])
  /\ keychain \in Keys \cup {NoKey}
  /\ cache \in Keys \cup {NoKey, Unloaded}
  /\ fresh \subseteq Keys
  /\ pc \in [DOMAIN pc -> {"idle", "baseline", "snapshot", "key", "put", "create",
                         "fill", "verify", "read", "write", "check", "applied"}]
  /\ op \in [DOMAIN pc -> Calls \cup {Absent}] /\ DOMAIN pc \subseteq Callers
  /\ \A c \in DOMAIN pc : pc[c] = "idle" <=> op[c] = Absent
  /\ left \in [read : Nat, write : Nat, crash : Nat, calm : BOOLEAN]

\* A baseline never holds managed content: whatever two transactions, a crash,
\* an edit or an upgrade do, it is what the file was before AT-Switch took over.
BaselineIsNative ==
  \A i \in DOMAIN archive :
    archive[i].name # Operation => archive[i].content \notin Managed

\* On a new installation, with one transaction at a time and a secret store
\* that answers, the native content of a managed file can be had back, now and
\* after a restart: baseline() will find it, or find the backup to make it from.
BeingWritten(i) == \E c \in DOMAIN pc : pc[c] = "fill" /\ op[c].slot = i

Recoverable(a, p) ==
  /\ \A i \in BaselineFiles(a, p) : Decrypts(keychain, i) \/ BeingWritten(i)
  /\ Named(a, BaselineName(a, p)) = {} => Matching(a, p, keychain) # {}

ManagedIsRecoverable ==
  left.calm => \A a \in Agents : \A p \in DOMAIN files[a] : files[a][p] \in Managed => Recoverable(a, p)

\* There, from the moment the file may be replaced until the call returns, the backup
\* of what was read decrypts, so that the call can still be rolled back.
RollbackStaysPossible ==
  left.calm => \A c \in DOMAIN pc : pc[c] \in {"write", "check", "applied"} =>
    /\ Decrypts(LiveKey, op[c].slot)
    /\ archive[op[c].slot].content = op[c].content
=============================================================================
