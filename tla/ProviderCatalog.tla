-------------------------- MODULE ProviderCatalog --------------------------
(***************************************************************************)
(* services/provider_service.rs and the provider rows of the database:     *)
(* saving, merging, testing and deleting the providers of models.  A save  *)
(* puts a new API key under a new reference, commits the row that names    *)
(* it, and only then deletes the key the row named before.  A connection   *)
(* test runs for as long as the provider takes to answer, while its row    *)
(* may be saved again or deleted.                                          *)
(*                                                                         *)
(* The window saves or deletes one provider at a time (its dialogs cannot  *)
(* be left while they are busy).  All providers here have one name, so     *)
(* those with the same URL have the same identity.                         *)
(***************************************************************************)
EXTENDS Naturals, FiniteSets

CONSTANTS
  MaxProviders,  \* bound on the ids that may be generated
  MaxRev,        \* bound on the revisions of a key
  Urls,
  Protocols,
  Keys,          \* API keys
  Models,
  Features,      \* modality, streaming and tool support of a model
  Agents,
  Testers,       \* connection tests that may be in flight at once
  MaxSaves, MaxTests, MaxFaults,  \* bounds on what happens; a restart is a fault
  Absent, NoKey, Unbound

Providers == 1 .. MaxProviders
Connections == Urls \X Protocols
Catalogs == UNION {[S -> Features] : S \in (SUBSET Models) \ {{}}}

Statuses == {"draft_unverified", "verifying", "verified", "failed", "stale"}

\* A row of providers, with its rows of models.
ModelRows == [features : Features, status : Statuses]
Rows == [connection : Connections, rev : 1 .. MaxRev,
         models : UNION {[S -> ModelRows] : S \in (SUBSET Models) \ {{}}}]

ASSUME BoundsAssumption == {MaxProviders, MaxRev, MaxSaves, MaxTests, MaxFaults} \subseteq Nat
ASSUME NullsAssumption == NoKey \notin Keys /\ Unbound \notin Providers /\ Absent \notin Rows

VARIABLES
  rows,      \* providers and their models, by provider id
  next,      \* the next new id
  binding,   \* provider of each agent in agent_bindings
  secrets,   \* stored keys, by provider and revision
  save, del, \* the save and the deletion in flight
  test,      \* the tests in flight
  passed,    \* history: what has passed a test
  edited,    \* history: models whose provider was saved during their test
  left       \* bounds on what may still happen

vars == <<rows, next, binding, secrets, save, del, test, passed, edited, left>>
database == <<rows, next, binding>>
history == <<passed, edited>>

Idle == [pc |-> "idle"]

Init ==
  /\ rows = [p \in Providers |-> Absent]
  /\ next = 1
  /\ binding = [a \in Agents |-> Unbound]
  /\ secrets = [p \in Providers |-> [r \in 1 .. MaxRev |-> NoKey]]
  /\ save = Idle
  /\ del = Idle
  /\ test = [t \in Testers |-> Idle]
  /\ passed = {}
  /\ edited = {}
  /\ left = [save |-> MaxSaves, test |-> MaxTests, fault |-> MaxFaults]

Known == {p \in Providers : rows[p] # Absent}
Stored(p, r) == IF r = 0 THEN NoKey ELSE secrets[p][r]
Fault == left.fault > 0 /\ left' = [left EXCEPT !.fault = @ - 1]

DeleteKey(p, r) ==
  \/ secrets' = [secrets EXCEPT ![p][r] = NoKey] /\ UNCHANGED left
  \/ Fault /\ UNCHANGED secrets

-----------------------------------------------------------------------------
(* save *)

\* provider_secret_metadata: the revision the row names, 0 for none.
Revision(p) == IF rows[p] = Absent THEN 0 ELSE rows[p].rev

Saving(p, duplicates, connection, key, models) ==
  [pc |-> "key", id |-> p, duplicates |-> duplicates, connection |-> connection,
   key |-> key, models |-> models, old |-> Revision(p), rev |-> Revision(p),
   revs |-> [d \in duplicates |-> Revision(d)]]

BeginSave ==
  /\ save.pc = "idle" /\ del.pc = "idle"
  /\ left.save > 0
  /\ left' = [left EXCEPT !.save = @ - 1]
  /\ UNCHANGED <<rows, binding, secrets, del, test, history>>

SaveEdited(p, connection, key, models) ==
  /\ BeginSave
  /\ p \in Known
  /\ save' = Saving(p, {}, connection, key, models)
  /\ UNCHANGED next

Matches(connection) == {p \in Known : rows[p].connection[1] = connection[1]}
Newest(S) == CHOOSE p \in S : \A q \in S : q <= p

\* Mutant: one of the matches stands for all of them.
MergedWithOne(S, models) ==
  LET one == CHOOSE p \in S : TRUE IN
  [m \in DOMAIN rows[one].models \cup DOMAIN models |->
     IF m \in DOMAIN models THEN models[m] ELSE rows[one].models[m].features]

\* merge_model_catalog for each match, then merge_model_drafts: the last counts.
Merged(S, models) ==
  LET Having(m) == {p \in S : m \in DOMAIN rows[p].models} IN
  [m \in DOMAIN models \cup UNION {DOMAIN rows[p].models : p \in S} |->
     IF m \in DOMAIN models THEN models[m] ELSE rows[Newest(Having(m))].models[m].features]

\* A new provider, unless some have its identity: then the oldest gets it all.
SaveNew(connection, key, models) ==
  LET S == Matches(connection) IN
  /\ BeginSave
  /\ \/ /\ S = {}
        /\ next \in Providers
        /\ next' = next + 1
        /\ save' = Saving(next, {}, connection, key, models)
     \/ /\ UNCHANGED next
        /\ \E p \in S :
             /\ \A q \in S : p <= q
             /\ save' = Saving(p, S \ {p}, connection, key, Merged(S, models))

\* Mutant: a key that is left out need not be stored.
KeepKeyUnchecked ==
  /\ save.pc = "key"
  /\ save.key \in {NoKey, Stored(save.id, save.old)}
  /\ save' = [save EXCEPT !.pc = "rows"]
  /\ UNCHANGED <<database, secrets, del, test, history, left>>

\* The key is left out or is the stored one.
KeepKey ==
  /\ save.pc = "key"
  /\ Stored(save.id, save.old) # NoKey
  /\ save.key \in {NoKey, Stored(save.id, save.old)}
  /\ save' = [save EXCEPT !.pc = "rows"]
  /\ UNCHANGED <<database, secrets, del, test, history, left>>

\* A new key, or a store that cannot be read to find out that it is not.
PutKey ==
  /\ save.pc = "key"
  /\ save.key # NoKey
  /\ save.old < MaxRev
  /\ secrets' = [secrets EXCEPT ![save.id][save.old + 1] = save.key]
  /\ save' = [save EXCEPT !.pc = "rows", !.rev = save.old + 1]
  /\ UNCHANGED <<database, del, test, history, left>>

\* The key is left out and not found, be it missing or unreadable for a moment, or
\* it cannot be put.
KeyMissing ==
  /\ save.pc = "key"
  /\ save' = Idle
  /\ UNCHANGED <<database, secrets, del, test, history, left>>

\* Mutant: a new key does not make a tested model stale.
SameEndpoint(p) ==
  rows[p] # Absent /\ rows[p].connection = save.connection

SameConnection(p) ==
  rows[p] # Absent /\ rows[p].connection = save.connection /\ rows[p].rev = save.rev

SavedStatus(p, m) ==
  IF rows[p] = Absent \/ m \notin DOMAIN rows[p].models THEN "draft_unverified"
  ELSE LET previous == rows[p].models[m] IN
       IF SameConnection(p) /\ previous.features = save.models[m] THEN previous.status
       ELSE IF previous.status # "draft_unverified" THEN "stale" ELSE "draft_unverified"

UnderTest(p) == {<<p, test[t].model>> : t \in {u \in Testers : test[u].pc # "idle" /\ test[u].id = p}}

\* save_provider_merging, one transaction.
SaveRows ==
  LET p == save.id IN
  /\ save.pc = "rows"
  /\ rows' = [q \in Providers |->
       IF q = p THEN [connection |-> save.connection, rev |-> save.rev,
                      models |-> [m \in DOMAIN save.models |->
                         [features |-> save.models[m], status |-> SavedStatus(p, m)]]]
       ELSE IF q \in save.duplicates THEN Absent ELSE rows[q]]
  /\ binding' = [a \in Agents |-> IF binding[a] \in save.duplicates THEN p ELSE binding[a]]
  /\ edited' = edited \cup UnderTest(p)
  /\ save' = [save EXCEPT !.pc = "old"]
  /\ UNCHANGED <<next, secrets, del, test, passed, left>>

\* Mutant: the reference is deleted whether it is new or not.
SaveFailsForgettingKey ==
  /\ save.pc = "rows"
  /\ Fault
  /\ secrets' = [secrets EXCEPT ![save.id][save.rev] = NoKey]
  /\ save' = Idle
  /\ UNCHANGED <<database, del, test, history>>

\* The transaction fails: a key that was put for it goes again.
SaveFails ==
  /\ save.pc = "rows"
  /\ Fault
  /\ secrets' = IF save.rev # save.old THEN [secrets EXCEPT ![save.id][save.rev] = NoKey]
                                       ELSE secrets
  /\ save' = Idle
  /\ UNCHANGED <<database, del, test, history>>

\* Mutant: the key the row named before is never deleted.
OldKeyKept ==
  /\ save.pc = "old"
  /\ save' = [save EXCEPT !.pc = "merged"]
  /\ UNCHANGED <<database, secrets, del, test, history, left>>

DropOldKey ==
  /\ save.pc = "old"
  /\ IF save.old \in {0, save.rev} THEN UNCHANGED <<secrets, left>>
                                   ELSE DeleteKey(save.id, save.old)
  /\ save' = [save EXCEPT !.pc = "merged"]
  /\ UNCHANGED <<database, del, test, history>>

DropMergedKey ==
  /\ save.pc = "merged"
  /\ \E d \in save.duplicates :
       /\ DeleteKey(d, save.revs[d])
       /\ save' = [save EXCEPT !.duplicates = @ \ {d}]
  /\ UNCHANGED <<database, del, test, history>>

Saved ==
  /\ save.pc = "merged" /\ save.duplicates = {}
  /\ save' = Idle
  /\ UNCHANGED <<database, secrets, del, test, history, left>>

-----------------------------------------------------------------------------
(* delete *)

DeleteRows(p) ==
  /\ save.pc = "idle" /\ del.pc = "idle"
  /\ p \in Known
  /\ del' = [pc |-> "key", id |-> p, rev |-> rows[p].rev]
  /\ rows' = [rows EXCEPT ![p] = Absent]
  /\ binding' = [a \in Agents |-> IF binding[a] = p THEN Unbound ELSE binding[a]]
  /\ UNCHANGED <<next, secrets, save, test, history, left>>

DropKey ==
  /\ del.pc = "key"
  /\ DeleteKey(del.id, del.rev)
  /\ del' = Idle
  /\ UNCHANGED <<database, save, test, history>>

-----------------------------------------------------------------------------
(* test *)

HasModel(p, m) == rows[p] # Absent /\ m \in DOMAIN rows[p].models

\* What is going to be tested is read once, before the first request.
BeginTest(t, p, m) ==
  /\ test[t].pc = "idle"
  /\ HasModel(p, m)
  /\ Stored(p, rows[p].rev) # NoKey
  /\ left.test > 0
  /\ left' = [left EXCEPT !.test = @ - 1]
  /\ test' = [test EXCEPT ![t] =
       [pc |-> "begun", id |-> p, model |-> m, connection |-> rows[p].connection,
        key |-> Stored(p, rows[p].rev), features |-> rows[p].models[m].features]]
  /\ UNCHANGED <<database, secrets, save, del, history>>

\* mark_model_verification and what the test does next.
Mark(t, from, status, to) ==
  /\ test[t].pc = from
  /\ HasModel(test[t].id, test[t].model)
  /\ rows' = [rows EXCEPT ![test[t].id].models[test[t].model].status = status]
  /\ test' = [test EXCEPT ![t] = to]
  /\ UNCHANGED <<next, binding, secrets, save, del, edited, left>>

StartTest(t) == Mark(t, "begun", "verifying", [test[t] EXCEPT !.pc = "running"]) /\ UNCHANGED passed

TestPasses(t) ==
  /\ Mark(t, "running", "verified", Idle)
  /\ passed' = passed \cup {[key |-> test[t].key, connection |-> test[t].connection,
                             model |-> test[t].model, features |-> test[t].features]}

\* Mutant: the error of the request is returned at once.
TestFailsUnmarked(t) ==
  /\ test[t].pc = "running"
  /\ test' = [test EXCEPT ![t] = Idle]
  /\ UNCHANGED <<database, secrets, save, del, history, left>>

TestFails(t) == Mark(t, "running", "failed", Idle) /\ UNCHANGED passed

\* The model is gone: the test ends with an error.
ModelGone(t) ==
  /\ test[t].pc # "idle"
  /\ ~HasModel(test[t].id, test[t].model)
  /\ test' = [test EXCEPT ![t] = Idle]
  /\ UNCHANGED <<database, secrets, save, del, history, left>>

\* The status cannot be written.
MarkFails(t) ==
  /\ test[t].pc # "idle"
  /\ Fault
  /\ test' = [test EXCEPT ![t] = Idle]
  /\ UNCHANGED <<database, secrets, save, del, history>>

-----------------------------------------------------------------------------
(* The rest of the program *)

\* A switch binds an agent (module AgentSwitch).
Bind(a, p) ==
  /\ p \in Known
  /\ binding' = [binding EXCEPT ![a] = p]
  /\ UNCHANGED <<rows, next, secrets, save, del, test, history, left>>

Restart ==
  /\ Fault
  /\ save' = Idle
  /\ del' = Idle
  /\ test' = [t \in Testers |-> Idle]
  /\ UNCHANGED <<database, secrets, history>>

SaveStep ==
  \/ KeepKey \/ PutKey \/ KeyMissing \/ SaveRows \/ SaveFails
  \/ DropOldKey \/ DropMergedKey \/ Saved

Next ==
  \/ \E c \in Connections, key \in Keys \cup {NoKey}, models \in Catalogs :
       SaveNew(c, key, models) \/ \E p \in Providers : SaveEdited(p, c, key, models)
  \/ SaveStep
  \/ \E p \in Providers : DeleteRows(p)
  \/ DropKey
  \/ \E t \in Testers :
       \/ \E p \in Providers, m \in Models : BeginTest(t, p, m)
       \/ StartTest(t) \/ TestPasses(t) \/ TestFails(t) \/ ModelGone(t) \/ MarkFails(t)
  \/ \E a \in Agents, p \in Providers : Bind(a, p)
  \/ Restart

Spec == Init /\ [][Next]_vars
-----------------------------------------------------------------------------
Revisions == UNION {[S -> 0 .. MaxRev] : S \in SUBSET Providers}
Saves ==
  [pc : {"key", "rows", "old", "merged"}, id : Providers, duplicates : SUBSET Providers,
   connection : Connections, key : Keys \cup {NoKey}, models : Catalogs,
   old : 0 .. MaxRev, rev : 0 .. MaxRev, revs : Revisions]
Deletions == [pc : {"key"}, id : Providers, rev : 1 .. MaxRev]
Tests == [pc : {"begun", "running"}, id : Providers, model : Models,
          connection : Connections, key : Keys, features : Features]

\* The type of every variable: the rows, the keys, and the calls in flight.
TypeOK ==
  /\ rows \in [Providers -> Rows \cup {Absent}]
  /\ next \in 1 .. MaxProviders + 1
  /\ binding \in [Agents -> Providers \cup {Unbound}]
  /\ secrets \in [Providers -> [1 .. MaxRev -> Keys \cup {NoKey}]]
  /\ save \in Saves \cup {Idle}
  /\ del \in Deletions \cup {Idle}
  /\ test \in [Testers -> Tests \cup {Idle}]
  /\ passed \subseteq [key : Keys, connection : Connections, model : Models, features : Features]
  /\ edited \subseteq Providers \X Models
  /\ left \in [save : Nat, test : Nat, fault : Nat]

\* At every moment, whatever fails and wherever the program stops, the key that
\* a saved provider names is stored.
KeyOfEveryProvider == \A p \in Known : Stored(p, rows[p].rev) # NoKey

\* If nothing fails, no key outlives the provider that named it.
NoKeyIsLeftBehind ==
  save.pc = "idle" /\ del.pc = "idle" /\ left.fault = MaxFaults =>
    \A p \in Providers, r \in 1 .. MaxRev :
      secrets[p][r] # NoKey => p \in Known /\ rows[p].rev = r

Tested(p, m) ==
  [key |-> Stored(p, rows[p].rev), connection |-> rows[p].connection,
   model |-> m, features |-> rows[p].models[m].features] \in passed

IsVerified(p, m) == HasModel(p, m) /\ rows[p].models[m].status = "verified"

\* A model that is called verified has passed a test with the key, at the
\* endpoint and with the features its provider has now.
VerifiedIsTested == \A p \in Providers, m \in Models : IsVerified(p, m) => Tested(p, m)

\* That is so for every model whose provider is not saved during its test,
\* however many other saves, merges and tests there are.
VerifiedIsTestedUnlessEdited ==
  \A p \in Providers, m \in Models : IsVerified(p, m) => Tested(p, m) \/ <<p, m>> \in edited

\* A model is shown as being verified only during a test of it, unless the
\* program was stopped, or its database failed, in the middle of one.
VerifyingHasATest ==
  left.fault = MaxFaults =>
    \A p \in Providers, m \in Models :
      HasModel(p, m) /\ rows[p].models[m].status = "verifying" =>
        \E t \in Testers : test[t].pc = "running" /\ test[t].id = p /\ test[t].model = m

\* Providers of the same identity are merged without loss: every model of a
\* merged row and every agent bound to it is found again under the one kept.
MergeKeepsModels ==
  [][\A p \in Providers : SaveRows /\ p \in save.duplicates =>
       /\ DOMAIN rows[p].models \subseteq DOMAIN rows'[save.id].models
       /\ \A a \in Agents : binding[a] = p => binding'[a] = save.id]_vars
=============================================================================
