----------------------- MODULE ProviderCatalog_proofs -----------------------
(* Theorems about ProviderCatalog, for every value of its constants. *)
EXTENDS ProviderCatalog, WellFoundedInduction, TLAPS

-----------------------------------------------------------------------------
(* The operators *)

\* Every bounded set of numbers that is not empty has a smallest member ...
LEMMA HasMin == ASSUME NEW S \in SUBSET Nat, S # {} PROVE \E p \in S : \A q \in S : p <= q
<1>1. IsWellFoundedOn(OpToRel(<, Nat), Nat)
  BY NatLessThanWellFounded, Zenon
<1>2. PICK x \in S : \A y \in S : ~(<<y, x>> \in OpToRel(<, Nat))
  BY <1>1, WFMin, Zenon
<1>3. \A y \in S : ~(y < x)
  BY <1>2 DEF OpToRel
<1> QED BY <1>3

\* ... and a largest one, which is what Newest chooses.
LEMMA NewestIsMember == ASSUME NEW S \in SUBSET Providers, S # {} PROVE Newest(S) \in S
<1> DEFINE T == {n \in Nat : MaxProviders - n \in S}
<1>1. \A q \in S : MaxProviders - q \in T
  BY BoundsAssumption DEF Providers
<1>2. T # {}
  BY <1>1
<1>3. PICK n \in T : \A m \in T : n <= m
  BY <1>2, HasMin
<1>4. \A q \in S : q <= MaxProviders - n
  BY BoundsAssumption, <1>1, <1>3 DEF Providers
<1> QED BY <1>3, <1>4 DEF Newest

\* A row's fields.
LEMMA RowFields ==
  ASSUME TypeOK, NEW p \in Known
  PROVE  /\ p \in Providers /\ rows[p] \in Rows
         /\ rows[p].connection \in Connections /\ rows[p].rev \in 1 .. MaxRev
         /\ DOMAIN rows[p].models \in (SUBSET Models) \ {{}}
         /\ \A m \in DOMAIN rows[p].models : rows[p].models[m] \in ModelRows
<1>1. p \in Providers /\ rows[p] \in Rows
  BY DEF TypeOK, Known
<1>2. rows[p].models \in UNION {[S -> ModelRows] : S \in (SUBSET Models) \ {{}}}
  BY <1>1 DEF Rows
<1> QED BY <1>1, <1>2 DEF Rows

\* A merged catalog is a catalog.
LEMMA MergedIsCatalog ==
  ASSUME TypeOK, NEW S \in SUBSET Known, NEW models \in Catalogs
  PROVE  Merged(S, models) \in Catalogs
<1> DEFINE Having(m) == {p \in S : m \in DOMAIN rows[p].models}
           D == DOMAIN models \cup UNION {DOMAIN rows[p].models : p \in S}
           Value(m) == IF m \in DOMAIN models THEN models[m]
                       ELSE rows[Newest(Having(m))].models[m].features
<1>1. PICK C \in (SUBSET Models) \ {{}} : models \in [C -> Features]
  BY DEF Catalogs
<1>2. D \in (SUBSET Models) \ {{}}
  <2>1. \A p \in S : DOMAIN rows[p].models \subseteq Models
    BY RowFields
  <2> QED BY <1>1, <2>1
<1>3. ASSUME NEW m \in D PROVE Value(m) \in Features
  <2>1. CASE m \in DOMAIN models
    BY <1>1, <2>1
  <2>2. CASE m \notin DOMAIN models
    <3>1. Having(m) \in SUBSET Providers /\ Having(m) # {}
      BY <2>2, <1>3 DEF Known
    <3>2. Newest(Having(m)) \in Having(m)
      BY <3>1, NewestIsMember
    <3>3. rows[Newest(Having(m))].models[m] \in ModelRows
      BY <3>2, RowFields
    <3> QED BY <2>2, <3>3 DEF ModelRows
  <2> QED BY <2>1, <2>2
<1>4. Merged(S, models) = [m \in D |-> Value(m)]
  BY DEF Merged
<1> HIDE DEF D, Value
<1>5. [m \in D |-> Value(m)] \in [D -> Features]
  BY <1>3
<1> QED BY <1>2, <1>4, <1>5 DEF Catalogs

LEMMA RevisionType == ASSUME TypeOK, NEW p \in Providers PROVE Revision(p) \in 0 .. MaxRev
BY BoundsAssumption, RowFields DEF Revision, Known

\* A new save is one.
LEMMA SavingType ==
  ASSUME TypeOK, NEW p \in Providers, NEW D \in SUBSET Providers,
         NEW connection \in Connections, NEW key \in Keys \cup {NoKey}, NEW models \in Catalogs
  PROVE  Saving(p, D, connection, key, models) \in Saves
<1>1. Revision(p) \in 0 .. MaxRev /\ \A d \in D : Revision(d) \in 0 .. MaxRev
  BY RevisionType
<1>2. [d \in D |-> Revision(d)] \in Revisions
  BY <1>1 DEF Revisions
<1> QED BY <1>1, <1>2 DEF Saving, Saves

LEMMA SavedStatusType ==
  ASSUME TypeOK, save \in Saves, NEW p \in Providers, NEW m \in DOMAIN save.models
  PROVE  SavedStatus(p, m) \in Statuses
<1>1. CASE rows[p] = Absent \/ m \notin DOMAIN rows[p].models
  BY <1>1 DEF SavedStatus, Statuses
<1>2. CASE rows[p] # Absent /\ m \in DOMAIN rows[p].models
  <2>1. rows[p].models[m] \in ModelRows
    BY <1>2, RowFields DEF Known
  <2> QED BY <1>2, <2>1 DEF SavedStatus, ModelRows, Statuses
<1> QED BY <1>1, <1>2

-----------------------------------------------------------------------------
(* The invariant *)

\* A save or a deletion, never both.
OneAtATime == save.pc = "idle" \/ del.pc = "idle"

\* Until its transaction a save knows the revision that the row names.
OldIsNamed ==
  /\ save.pc \in {"key", "rows"} => save.old = Revision(save.id)
  /\ save.pc = "key" => save.rev = save.old

\* What the transaction is going to name is stored, and it is either what the
\* row names already or the next revision.
RevIsStored ==
  save.pc = "rows" =>
    /\ save.rev \in 1 .. MaxRev /\ secrets[save.id][save.rev] # NoKey
    /\ save.rev \in {save.old, save.old + 1}

\* After the transaction the row names it.
RevIsNamed == save.pc = "old" => save.id \in Known /\ rows[save.id].rev = save.rev

\* The rows whose keys are deleted are gone: a merged one is not the one kept.
MergedAreGone ==
  /\ save.pc # "idle" => save.id \notin save.duplicates
  /\ save.pc \in {"old", "merged"} => save.duplicates \cap Known = {}
DeletedIsGone == del.pc = "key" => del.id \notin Known

KeyInv ==
  /\ KeyOfEveryProvider
  /\ OneAtATime
  /\ OldIsNamed
  /\ RevIsStored
  /\ RevIsNamed
  /\ MergedAreGone
  /\ DeletedIsGone

-----------------------------------------------------------------------------
(* Type correctness *)

LEMMA TypeInit == Init => TypeOK
BY BoundsAssumption DEF Init, TypeOK, Providers, Idle

LEMMA SaveNewTyped ==
  ASSUME TypeOK, NEW connection \in Connections, NEW key \in Keys \cup {NoKey},
         NEW models \in Catalogs, SaveNew(connection, key, models)
  PROVE  TypeOK'
<1> DEFINE S == Matches(connection)
<1>1. S \in SUBSET Known /\ S \in SUBSET Providers
  BY DEF Matches, Known
<1>2. save' \in Saves
  <2>1. CASE next \in Providers /\ save' = Saving(next, {}, connection, key, models)
    BY <2>1, SavingType
  <2>2. ASSUME NEW p \in S, save' = Saving(p, S \ {p}, connection, key, Merged(S, models))
        PROVE  save' \in Saves
    <3>1. Merged(S, models) \in Catalogs
      BY <1>1, MergedIsCatalog
    <3> QED BY <1>1, <2>2, <3>1, SavingType
  <2> QED BY <2>1, <2>2 DEF SaveNew
<1>3. next' \in 1 .. MaxProviders + 1
  BY BoundsAssumption DEF SaveNew, TypeOK, Providers
<1>4. left' \in [save : Nat, test : Nat, fault : Nat]
  BY DEF SaveNew, BeginSave, TypeOK
<1> QED BY <1>2, <1>3, <1>4 DEF SaveNew, BeginSave, TypeOK, history

LEMMA SaveEditedTyped ==
  ASSUME TypeOK, NEW p \in Providers, NEW connection \in Connections,
         NEW key \in Keys \cup {NoKey}, NEW models \in Catalogs,
         SaveEdited(p, connection, key, models)
  PROVE  TypeOK'
<1>1. save' \in Saves
  BY SavingType DEF SaveEdited
<1>2. left' \in [save : Nat, test : Nat, fault : Nat]
  BY DEF SaveEdited, BeginSave, TypeOK
<1> QED BY <1>1, <1>2 DEF SaveEdited, BeginSave, TypeOK, history

LEMMA Budget == ASSUME TypeOK, Fault PROVE left' \in [save : Nat, test : Nat, fault : Nat]
BY DEF TypeOK, Fault

LEMMA DeleteKeyTyped ==
  ASSUME TypeOK, NEW p \in Providers, NEW r, DeleteKey(p, r)
  PROVE  /\ secrets' \in [Providers -> [1 .. MaxRev -> Keys \cup {NoKey}]]
         /\ left' \in [save : Nat, test : Nat, fault : Nat]
<1>1. CASE secrets' = [secrets EXCEPT ![p][r] = NoKey] /\ UNCHANGED left
  <2> DEFINE of == [secrets[p] EXCEPT ![r] = NoKey]
  <2>1. of \in [1 .. MaxRev -> Keys \cup {NoKey}]
    BY DEF TypeOK
  <2>2. secrets' = [secrets EXCEPT ![p] = of]
    BY <1>1
  <2> HIDE DEF of
  <2> QED BY <1>1, <2>1, <2>2 DEF TypeOK
<1>2. CASE Fault /\ UNCHANGED secrets
  BY <1>2, Budget DEF TypeOK
<1> QED BY <1>1, <1>2 DEF DeleteKey

\* What the transaction of a save makes of the rows.
LEMMA SavedRow ==
  ASSUME TypeOK, KeyInv, SaveRows
  PROVE  rows' \in [Providers -> Rows \cup {Absent}] /\ rows'[save.id] # Absent
<1>1. save \in Saves /\ save.id \in Providers
  BY DEF SaveRows, TypeOK, Saves, Idle
<1>2. PICK C \in (SUBSET Models) \ {{}} : save.models \in [C -> Features]
  BY <1>1 DEF Saves, Catalogs
<1> DEFINE Status(m) == SavedStatus(save.id, m)
           Row == [connection |-> save.connection, rev |-> save.rev,
                   models |-> [m \in DOMAIN save.models |->
                      [features |-> save.models[m], status |-> Status(m)]]]
<1>3. save.rev \in 1 .. MaxRev
  BY DEF SaveRows, KeyInv, RevIsStored
<1>4. \A m \in C : Status(m) \in Statuses /\ save.models[m] \in Features
  BY <1>1, <1>2, SavedStatusType
<1>5. rows' = [q \in Providers |-> IF q = save.id THEN Row
                 ELSE IF q \in save.duplicates THEN Absent ELSE rows[q]]
  BY DEF SaveRows
<1> HIDE DEF Status
<1>6. Row.models \in [C -> ModelRows]
  BY <1>2, <1>4 DEF ModelRows
<1>7. Row \in Rows
  BY <1>1, <1>3, <1>6 DEF Rows, Saves
<1> HIDE DEF Row
<1> QED BY <1>1, <1>5, <1>7, NullsAssumption DEF TypeOK

LEMMA SaveStepTyped == ASSUME TypeOK, KeyInv, SaveStep PROVE TypeOK'
<1>1. save.pc # "idle" => save \in Saves
  BY DEF TypeOK, Idle
<1>2. ASSUME KeepKey PROVE TypeOK'
  <2>1. save' \in Saves
    BY <1>1, <1>2 DEF KeepKey, Saves
  <2> QED BY <1>2, <2>1 DEF KeepKey, TypeOK, database, history
<1>3. ASSUME PutKey PROVE TypeOK'
  <2>1. save \in Saves /\ save.old + 1 \in 1 .. MaxRev /\ save.old + 1 \in 0 .. MaxRev
    BY <1>1, <1>3, BoundsAssumption DEF PutKey, Saves
  <2>2. save' \in Saves
    BY <1>3, <2>1 DEF PutKey, Saves
  <2>3. secrets' \in [Providers -> [1 .. MaxRev -> Keys \cup {NoKey}]]
    BY <1>3, <2>1 DEF PutKey, Saves, TypeOK
  <2> QED BY <1>3, <2>2, <2>3 DEF PutKey, TypeOK, database, history
<1>4. ASSUME KeyMissing PROVE TypeOK'
  BY <1>4 DEF KeyMissing, TypeOK, database, history
<1>5. ASSUME SaveRows PROVE TypeOK'
  <2>1. save \in Saves
    BY <1>1, <1>5 DEF SaveRows
  <2>6. rows' \in [Providers -> Rows \cup {Absent}]
    BY <1>5, SavedRow
  <2>7. binding' \in [Agents -> Providers \cup {Unbound}]
    BY <1>5, <2>1 DEF SaveRows, Saves, TypeOK
  <2>8. edited' \subseteq Providers \X Models
    BY <1>5, <2>1 DEF SaveRows, UnderTest, Saves, TypeOK, Tests, Idle
  <2>9. save' \in Saves
    BY <1>5, <2>1 DEF SaveRows, Saves
  <2> QED BY <1>5, <2>6, <2>7, <2>8, <2>9 DEF SaveRows, TypeOK
<1>6. ASSUME SaveFails PROVE TypeOK'
  <2>1. save \in Saves
    BY <1>1, <1>6 DEF SaveFails
  <2>2. secrets' \in [Providers -> [1 .. MaxRev -> Keys \cup {NoKey}]]
    BY <1>6, <2>1 DEF SaveFails, Saves, TypeOK
  <2> QED BY <1>6, <2>2, Budget DEF SaveFails, TypeOK, database, history
<1>7. ASSUME DropOldKey PROVE TypeOK'
  <2>1. save \in Saves /\ save.id \in Providers
    BY <1>1, <1>7 DEF DropOldKey, Saves
  <2>2. save' \in Saves
    BY <1>7, <2>1 DEF DropOldKey, Saves
  <2>3. /\ secrets' \in [Providers -> [1 .. MaxRev -> Keys \cup {NoKey}]]
        /\ left' \in [save : Nat, test : Nat, fault : Nat]
    BY <1>7, <2>1, DeleteKeyTyped DEF DropOldKey, TypeOK
  <2> QED BY <1>7, <2>2, <2>3 DEF DropOldKey, TypeOK, database, history
<1>8. ASSUME DropMergedKey PROVE TypeOK'
  <2>1. save \in Saves
    BY <1>1, <1>8 DEF DropMergedKey
  <2>2. PICK d \in save.duplicates :
             DeleteKey(d, save.revs[d]) /\ save' = [save EXCEPT !.duplicates = @ \ {d}]
    BY <1>8 DEF DropMergedKey
  <2>3. save' \in Saves /\ d \in Providers
    BY <2>1, <2>2 DEF Saves
  <2>4. /\ secrets' \in [Providers -> [1 .. MaxRev -> Keys \cup {NoKey}]]
        /\ left' \in [save : Nat, test : Nat, fault : Nat]
    BY <2>2, <2>3, DeleteKeyTyped
  <2> QED BY <1>8, <2>3, <2>4 DEF DropMergedKey, TypeOK, database, history
<1>9. ASSUME Saved PROVE TypeOK'
  BY <1>9 DEF Saved, TypeOK, database, history
<1> QED BY <1>2, <1>3, <1>4, <1>5, <1>6, <1>7, <1>8, <1>9 DEF SaveStep

LEMMA DeleteTyped ==
  ASSUME TypeOK, NEW p \in Providers, DeleteRows(p) PROVE TypeOK'
<1>1. rows[p].rev \in 1 .. MaxRev
  BY RowFields DEF DeleteRows
<1>2. del' \in Deletions
  BY <1>1 DEF DeleteRows, Deletions
<1>3. rows' \in [Providers -> Rows \cup {Absent}]
  BY DEF DeleteRows, TypeOK
<1>4. binding' \in [Agents -> Providers \cup {Unbound}]
  BY DEF DeleteRows, TypeOK
<1> QED BY <1>2, <1>3, <1>4 DEF DeleteRows, TypeOK, history

LEMMA DropKeyTyped == ASSUME TypeOK, DropKey PROVE TypeOK'
<1>1. del.id \in Providers
  BY DEF DropKey, TypeOK, Deletions, Idle
<1>2. /\ secrets' \in [Providers -> [1 .. MaxRev -> Keys \cup {NoKey}]]
      /\ left' \in [save : Nat, test : Nat, fault : Nat]
  BY <1>1, DeleteKeyTyped DEF DropKey
<1> QED BY <1>2 DEF DropKey, TypeOK, database, history

LEMMA BeginTestTyped ==
  ASSUME TypeOK, NEW t \in Testers, NEW p \in Providers, NEW m \in Models, BeginTest(t, p, m)
  PROVE  TypeOK'
<1>1. p \in Known /\ m \in DOMAIN rows[p].models
  BY DEF BeginTest, HasModel, Known
<1>2. /\ rows[p].connection \in Connections /\ rows[p].rev \in 1 .. MaxRev
      /\ rows[p].models[m] \in ModelRows
  BY <1>1, RowFields
<1>3. Stored(p, rows[p].rev) \in Keys
  <2>1. Stored(p, rows[p].rev) # NoKey
    BY DEF BeginTest
  <2>2. secrets[p] \in [1 .. MaxRev -> Keys \cup {NoKey}]
    BY DEF TypeOK
  <2>3. Stored(p, rows[p].rev) \in Keys \cup {NoKey}
    BY <1>2, <2>2 DEF Stored
  <2> QED BY <2>1, <2>3
<1>4. test' \in [Testers -> Tests \cup {Idle}]
  BY <1>2, <1>3 DEF BeginTest, Tests, ModelRows, TypeOK
<1>5. left' \in [save : Nat, test : Nat, fault : Nat]
  BY DEF BeginTest, TypeOK
<1> QED BY <1>4, <1>5 DEF BeginTest, TypeOK, database, history

\* A test writes one status, in one row.
LEMMA MarkTyped ==
  ASSUME TypeOK, NEW t \in Testers, NEW from \in {"begun", "running"}, NEW status \in Statuses,
         NEW to, Mark(t, from, status, to)
  PROVE  /\ test[t] \in Tests
         /\ rows' \in [Providers -> Rows \cup {Absent}]
         /\ \A p \in Providers : rows[p] = Absent <=> rows'[p] = Absent
         /\ \A p \in Known : /\ rows'[p].rev = rows[p].rev
                            /\ DOMAIN rows'[p].models = DOMAIN rows[p].models
<1> DEFINE p == test[t].id
           m == test[t].model
           Model == [rows[p].models[m] EXCEPT !.status = status]
           Catalog == [rows[p].models EXCEPT ![m] = Model]
           Row == [rows[p] EXCEPT !.models = Catalog]
<1>1. test[t] \in Tests
  BY DEF Mark, TypeOK, Idle
<1>2. p \in Known /\ p \in Providers /\ m \in DOMAIN rows[p].models
  BY <1>1 DEF Mark, HasModel, Known, Tests
<1>3. rows' = [rows EXCEPT ![p] = Row]
  BY DEF Mark
<1>4. Model \in ModelRows
  BY <1>2, RowFields DEF ModelRows
<1> HIDE DEF Model
<1>5. PICK S \in (SUBSET Models) \ {{}} : rows[p].models \in [S -> ModelRows]
  BY <1>2, RowFields DEF Rows
<1>6. Catalog \in [S -> ModelRows] /\ DOMAIN Catalog = DOMAIN rows[p].models
  BY <1>4, <1>5
<1> HIDE DEF Catalog
<1>7. rows[p] \in Rows
  BY <1>2, RowFields
<1>8. /\ Row \in Rows /\ Row.rev = rows[p].rev
      /\ DOMAIN Row.models = DOMAIN rows[p].models
  BY <1>6, <1>7 DEF Rows
<1> HIDE DEF Row, p
<1>9. rows' \in [Providers -> Rows \cup {Absent}]
  BY <1>3, <1>8 DEF TypeOK
<1>10. Row # Absent /\ rows[p] # Absent
  BY <1>7, <1>8, NullsAssumption
<1>11. \A q \in Providers : rows'[q] = IF q = p THEN Row ELSE rows[q]
  BY <1>2, <1>3 DEF TypeOK
<1> QED BY <1>1, <1>8, <1>9, <1>10, <1>11 DEF Known

LEMMA TestStepTyped ==
  ASSUME TypeOK, NEW t \in Testers,
         StartTest(t) \/ TestPasses(t) \/ TestFails(t) \/ ModelGone(t) \/ MarkFails(t)
  PROVE  TypeOK'
<1>1. CASE StartTest(t)
  <2>1. test[t] \in Tests /\ rows' \in [Providers -> Rows \cup {Absent}]
    BY <1>1, MarkTyped DEF StartTest, Statuses
  <2>2. test' \in [Testers -> Tests \cup {Idle}]
    BY <1>1, <2>1 DEF StartTest, Mark, TypeOK, Tests
  <2> QED BY <1>1, <2>1, <2>2 DEF StartTest, Mark, TypeOK
<1>2. CASE TestPasses(t)
  <2>1. test[t] \in Tests /\ rows' \in [Providers -> Rows \cup {Absent}]
    BY <1>2, MarkTyped DEF TestPasses, Statuses
  <2>2. test' \in [Testers -> Tests \cup {Idle}]
    BY <1>2 DEF TestPasses, Mark, TypeOK
  <2>3. passed' \subseteq [key : Keys, connection : Connections, model : Models, features : Features]
    BY <1>2, <2>1 DEF TestPasses, TypeOK, Tests
  <2> QED BY <1>2, <2>1, <2>2, <2>3 DEF TestPasses, Mark, TypeOK
<1>3. CASE TestFails(t)
  <2>1. test[t] \in Tests /\ rows' \in [Providers -> Rows \cup {Absent}]
    BY <1>3, MarkTyped DEF TestFails, Statuses
  <2>2. test' \in [Testers -> Tests \cup {Idle}]
    BY <1>3 DEF TestFails, Mark, TypeOK
  <2> QED BY <1>3, <2>1, <2>2 DEF TestFails, Mark, TypeOK
<1>4. CASE ModelGone(t)
  BY <1>4 DEF ModelGone, TypeOK, database, history
<1>5. CASE MarkFails(t)
  BY <1>5, Budget DEF MarkFails, TypeOK, database, history
<1> QED BY <1>1, <1>2, <1>3, <1>4, <1>5

LEMMA OtherTyped ==
  ASSUME TypeOK, Restart \/ \E a \in Agents, p \in Providers : Bind(a, p) PROVE TypeOK'
<1>1. CASE Restart
  BY <1>1, Budget DEF Restart, TypeOK, database, history
<1>2. CASE \E a \in Agents, p \in Providers : Bind(a, p)
  BY <1>2 DEF Bind, TypeOK, history
<1> QED BY <1>1, <1>2

LEMMA TypeNext == TypeOK /\ KeyInv /\ [Next]_vars => TypeOK'
<1> SUFFICES ASSUME TypeOK, KeyInv, [Next]_vars PROVE TypeOK'
  OBVIOUS
<1>1. CASE UNCHANGED vars
  BY <1>1 DEF vars, TypeOK
<1>2. CASE Next
  BY <1>2, SaveNewTyped, SaveEditedTyped, SaveStepTyped, DeleteTyped, DropKeyTyped,
     BeginTestTyped, TestStepTyped, OtherTyped DEF Next
<1> QED BY <1>1, <1>2

-----------------------------------------------------------------------------
(* Every provider has its key *)

LEMMA KeyInit == Init => KeyInv
BY DEF Init, Idle, KeyInv, KeyOfEveryProvider, OneAtATime, OldIsNamed, RevIsStored,
       RevIsNamed, MergedAreGone, DeletedIsGone, Known

\* The key of a row, with the definition of Stored expanded.
LEMMA NamedKey ==
  ASSUME TypeOK
  PROVE  KeyOfEveryProvider <=> \A p \in Known : secrets[p][rows[p].rev] # NoKey
<1>1. \A p \in Known : rows[p].rev \in 1 .. MaxRev
  BY RowFields
<1>2. \A p \in Known : Stored(p, rows[p].rev) = secrets[p][rows[p].rev]
  BY <1>1, BoundsAssumption DEF Stored
<1> QED BY <1>2 DEF KeyOfEveryProvider

LEMMA BeginSaveKeeps ==
  ASSUME TypeOK, KeyInv, NEW p \in Providers, NEW D \in SUBSET Providers,
         NEW connection, NEW key, NEW models, BeginSave, p \notin D,
         save' = Saving(p, D, connection, key, models)
  PROVE  KeyInv'
<1>1. /\ save'.pc = "key" /\ save'.id = p /\ save'.duplicates = D
      /\ save'.old = Revision(p) /\ save'.rev = Revision(p)
  BY DEF Saving
<1>2. UNCHANGED <<rows, secrets, del>> /\ del.pc = "idle"
  BY DEF BeginSave
<1>3. OldIsNamed'
  BY <1>1, <1>2 DEF OldIsNamed, Revision
<1>4. KeyOfEveryProvider' /\ DeletedIsGone'
  BY <1>2 DEF KeyInv, KeyOfEveryProvider, DeletedIsGone, Known, Stored
<1> QED BY <1>1, <1>2, <1>3, <1>4 DEF KeyInv, OneAtATime, RevIsStored, RevIsNamed, MergedAreGone

LEMMA SaveNewKeeps ==
  ASSUME TypeOK, KeyInv, NEW connection, NEW key, NEW models, SaveNew(connection, key, models)
  PROVE  KeyInv'
<1> DEFINE S == Matches(connection)
<1>1. BeginSave /\ S \in SUBSET Providers
  BY DEF SaveNew, Matches, Known
<1>2. CASE next \in Providers /\ save' = Saving(next, {}, connection, key, models)
  BY <1>1, <1>2, BeginSaveKeeps
<1>3. ASSUME NEW p \in S, save' = Saving(p, S \ {p}, connection, key, Merged(S, models))
      PROVE  KeyInv'
  BY <1>1, <1>3, BeginSaveKeeps
<1> QED BY <1>2, <1>3 DEF SaveNew

LEMMA KeyStepKeeps ==
  ASSUME TypeOK, KeyInv, KeepKey \/ PutKey \/ KeyMissing PROVE KeyInv'
<1>1. save \in Saves /\ save.id \in Providers /\ save.old \in 0 .. MaxRev
  BY DEF TypeOK, Saves, Idle, KeepKey, PutKey, KeyMissing
<1>2. CASE KeepKey
  <2>1. /\ save.pc = "key" /\ save'.pc = "rows" /\ save'.id = save.id
        /\ save'.duplicates = save.duplicates /\ save'.old = save.old /\ save'.rev = save.rev
        /\ UNCHANGED <<rows, secrets, del>>
    BY <1>1, <1>2 DEF KeepKey, Saves, database
  <2>2. Stored(save.id, save.rev) # NoKey
    BY <1>2, <2>1 DEF KeepKey, KeyInv, OldIsNamed
  <2>3. RevIsStored'
    BY <1>1, <2>1, <2>2, BoundsAssumption DEF RevIsStored, Stored, KeyInv, OldIsNamed
  <2> QED BY <2>1, <2>3 DEF KeyInv, KeyOfEveryProvider, OneAtATime, OldIsNamed, RevIsNamed,
            MergedAreGone, DeletedIsGone, Known, Stored, Revision
<1>3. CASE PutKey
  <2>1. /\ save.pc = "key" /\ save'.pc = "rows" /\ save'.id = save.id
        /\ save'.duplicates = save.duplicates /\ save'.old = save.old
        /\ save'.rev = save.old + 1 /\ save.old + 1 \in 1 .. MaxRev
        /\ UNCHANGED <<rows, del>>
    BY <1>1, <1>3, BoundsAssumption DEF PutKey, Saves, database
  <2>2. \A p \in Providers, r \in 1 .. MaxRev :
          secrets'[p][r] = IF p = save.id /\ r = save.old + 1 THEN save.key ELSE secrets[p][r]
    BY <1>1, <1>3, <2>1 DEF PutKey, TypeOK
  <2>3. save.key # NoKey
    BY <1>3 DEF PutKey
  <2>4. RevIsStored'
    BY <1>1, <2>1, <2>2, <2>3 DEF RevIsStored
  <2>5. KeyOfEveryProvider'
    <3>1. \A p \in Known : secrets[p][rows[p].rev] # NoKey
      BY NamedKey DEF KeyInv
    <3>2. \A p \in Known : p \in Providers /\ rows[p].rev \in 1 .. MaxRev
      BY RowFields
    <3> QED BY <2>1, <2>2, <2>3, <3>1, <3>2, BoundsAssumption DEF KeyOfEveryProvider, Stored, Known
  <2> QED BY <2>1, <2>4, <2>5 DEF KeyInv, OneAtATime, OldIsNamed, RevIsNamed,
            MergedAreGone, DeletedIsGone, Known, Revision
<1>4. CASE KeyMissing
  BY <1>4 DEF KeyMissing, database, Idle, KeyInv, KeyOfEveryProvider, OneAtATime, OldIsNamed,
     RevIsStored, RevIsNamed, MergedAreGone, DeletedIsGone, Known, Stored
<1> QED BY <1>2, <1>3, <1>4

LEMMA SaveRowsKeeps == ASSUME TypeOK, KeyInv, SaveRows PROVE KeyInv'
<1> DEFINE id == save.id
<1>1. /\ save \in Saves /\ id \in Providers /\ save.pc = "rows"
      /\ save.duplicates \in SUBSET Providers
  BY DEF TypeOK, Saves, Idle, SaveRows
<1>2. /\ save'.pc = "old" /\ save'.id = id /\ save'.rev = save.rev
      /\ save'.duplicates = save.duplicates /\ UNCHANGED <<secrets, del>>
  BY <1>1 DEF SaveRows, Saves
<1>3. rows' \in [Providers -> Rows \cup {Absent}]
  BY SavedRow
<1>4. /\ rows'[id].rev = save.rev
      /\ \A q \in Providers \ {id} : rows'[q] = IF q \in save.duplicates THEN Absent ELSE rows[q]
  BY <1>1 DEF SaveRows
<1>5. \A q \in Providers : rows'[q] = Absent <=> (q # id /\ (q \in save.duplicates \/ rows[q] = Absent))
  <2>1. \A q \in Providers \ {id} : rows'[q] = Absent <=> (q \in save.duplicates \/ rows[q] = Absent)
    BY <1>4
  <2>2. rows'[id] # Absent
    BY SavedRow
  <2> QED BY <1>1, <2>1, <2>2
<1>6. KeyOfEveryProvider'
  <2>1. ASSUME NEW q \in Providers, rows'[q] # Absent PROVE Stored(q, rows[q].rev)' # NoKey
    <3>1. CASE q = id
      BY <1>1, <1>2, <1>4, <3>1, BoundsAssumption DEF KeyInv, RevIsStored, Stored
    <3>2. CASE q # id
      <4>1. rows'[q] = rows[q] /\ q \in Known
        BY <1>4, <1>5, <2>1, <3>2 DEF Known
      <4> QED BY <1>2, <4>1 DEF KeyInv, KeyOfEveryProvider, Stored
    <3> QED BY <3>1, <3>2
  <2> QED BY <2>1 DEF KeyOfEveryProvider, Known
<1>7. RevIsNamed'
  BY <1>1, <1>2, <1>4, <1>5 DEF RevIsNamed, Known
<1>8. MergedAreGone'
  BY <1>1, <1>2, <1>5 DEF MergedAreGone, KeyInv, Known
<1>9. OneAtATime' /\ DeletedIsGone' /\ OldIsNamed' /\ RevIsStored'
  BY <1>1, <1>2 DEF KeyInv, OneAtATime, DeletedIsGone, OldIsNamed, RevIsStored
<1> QED BY <1>6, <1>7, <1>8, <1>9 DEF KeyInv

LEMMA SaveFailsKeeps == ASSUME TypeOK, KeyInv, SaveFails PROVE KeyInv'
<1>1. /\ save \in Saves /\ save.id \in Providers /\ save.pc = "rows"
      /\ save' = Idle /\ UNCHANGED <<rows, del>>
  BY DEF TypeOK, Saves, Idle, SaveFails, database
<1>2. \A p \in Providers, r \in 1 .. MaxRev :
        secrets'[p][r] # secrets[p][r] => p = save.id /\ r = save.rev /\ save.rev # save.old
  BY <1>1 DEF SaveFails, TypeOK
<1>3. KeyOfEveryProvider'
  <2>1. ASSUME NEW p \in Known PROVE Stored(p, rows[p].rev)' # NoKey
    <3>1. rows[p].rev \in 1 .. MaxRev /\ p \in Providers
      BY RowFields
    <3>2. p = save.id => rows[p].rev = save.old
      BY <1>1 DEF KeyInv, OldIsNamed, Revision, Known
    <3>3. secrets'[p][rows[p].rev] = secrets[p][rows[p].rev]
      BY <1>2, <3>1, <3>2
    <3>4. secrets[p][rows[p].rev] # NoKey
      BY NamedKey DEF KeyInv
    <3> QED BY <1>1, <3>1, <3>3, <3>4, BoundsAssumption DEF Stored
  <2> QED BY <1>1, <2>1 DEF KeyOfEveryProvider, Known
<1> QED BY <1>1, <1>3 DEF KeyInv, Idle, OneAtATime, OldIsNamed, RevIsStored, RevIsNamed,
          MergedAreGone, DeletedIsGone, Known

\* Deleting a key that no row names keeps the invariant's main part.
LEMMA DeleteKeyKeeps ==
  ASSUME TypeOK, KeyOfEveryProvider, NEW p \in Providers, NEW r, DeleteKey(p, r),
         p \in Known => rows[p].rev # r, UNCHANGED rows
  PROVE  KeyOfEveryProvider'
<1>1. ASSUME NEW q \in Known PROVE Stored(q, rows[q].rev)' # NoKey
  <2>1. rows[q].rev \in 1 .. MaxRev /\ q \in Providers
    BY RowFields
  <2>2. secrets'[q][rows[q].rev] = secrets[q][rows[q].rev]
    <3>1. secrets \in [Providers -> [1 .. MaxRev -> Keys \cup {NoKey}]]
      BY DEF TypeOK
    <3>2. CASE q # p
      BY <2>1, <3>1, <3>2 DEF DeleteKey
    <3>3. CASE q = p
      BY <2>1, <3>1, <3>3 DEF DeleteKey
    <3> QED BY <3>2, <3>3
  <2>3. secrets[q][rows[q].rev] # NoKey
    BY NamedKey
  <2> QED BY <2>1, <2>2, <2>3, BoundsAssumption DEF Stored
<1> QED BY <1>1 DEF KeyOfEveryProvider, Known

LEMMA CleanupKeeps ==
  ASSUME TypeOK, KeyInv, DropOldKey \/ DropMergedKey \/ Saved PROVE KeyInv'
<1>1. save \in Saves /\ save.id \in Providers /\ save.duplicates \in SUBSET Providers
  BY DEF TypeOK, Saves, Idle, DropOldKey, DropMergedKey, Saved
<1>2. CASE DropOldKey
  <2>1. /\ save.pc = "old" /\ save'.pc = "merged" /\ save'.id = save.id
        /\ save'.duplicates = save.duplicates /\ UNCHANGED <<rows, del>>
    BY <1>1, <1>2 DEF DropOldKey, Saves, database
  <2>2. CASE UNCHANGED secrets
    BY <2>1, <2>2 DEF KeyInv, KeyOfEveryProvider, OneAtATime, OldIsNamed, RevIsStored, RevIsNamed,
       MergedAreGone, DeletedIsGone, Known, Stored
  <2>3. CASE DeleteKey(save.id, save.old) /\ save.old # save.rev
    <3>1. KeyOfEveryProvider'
      BY <1>1, <2>1, <2>3, DeleteKeyKeeps DEF KeyInv, RevIsNamed
    <3> QED BY <2>1, <3>1 DEF KeyInv, OneAtATime, OldIsNamed, RevIsStored, RevIsNamed,
              MergedAreGone, DeletedIsGone, Known
  <2> QED BY <1>2, <2>2, <2>3 DEF DropOldKey
<1>3. CASE DropMergedKey
  <2>1. PICK d \in save.duplicates :
             DeleteKey(d, save.revs[d]) /\ save' = [save EXCEPT !.duplicates = @ \ {d}]
    BY <1>3 DEF DropMergedKey
  <2>2. /\ save.pc = "merged" /\ save'.pc = "merged" /\ save'.id = save.id
        /\ save'.duplicates = save.duplicates \ {d} /\ UNCHANGED <<rows, del>>
    BY <1>1, <1>3, <2>1 DEF DropMergedKey, Saves, database
  <2>3. d \in Providers /\ d \notin Known
    BY <1>1, <2>1, <2>2 DEF KeyInv, MergedAreGone
  <2>4. KeyOfEveryProvider'
    BY <2>1, <2>2, <2>3, DeleteKeyKeeps DEF KeyInv
  <2> QED BY <2>2, <2>4 DEF KeyInv, OneAtATime, OldIsNamed, RevIsStored, RevIsNamed,
            MergedAreGone, DeletedIsGone, Known
<1>4. CASE Saved
  BY <1>4 DEF Saved, database, Idle, KeyInv, KeyOfEveryProvider, OneAtATime, OldIsNamed,
     RevIsStored, RevIsNamed, MergedAreGone, DeletedIsGone, Known, Stored
<1> QED BY <1>2, <1>3, <1>4

LEMMA DeletionKeeps ==
  ASSUME TypeOK, KeyInv, DropKey \/ \E p \in Providers : DeleteRows(p) PROVE KeyInv'
<1>1. ASSUME NEW p \in Providers, DeleteRows(p) PROVE KeyInv'
  <2>1. /\ save.pc = "idle" /\ UNCHANGED <<save, secrets>> /\ del'.pc = "key" /\ del'.id = p
    BY <1>1 DEF DeleteRows
  <2>2. \A q \in Providers : rows'[q] = IF q = p THEN Absent ELSE rows[q]
    BY <1>1 DEF DeleteRows, TypeOK
  <2>3. KeyOfEveryProvider'
    BY <2>1, <2>2 DEF KeyInv, KeyOfEveryProvider, Known, Stored
  <2> QED BY <2>1, <2>2, <2>3 DEF KeyInv, OneAtATime, OldIsNamed, RevIsStored, RevIsNamed,
            MergedAreGone, DeletedIsGone, Known
<1>2. CASE DropKey
  <2>1. /\ del.pc = "key" /\ del.id \in Providers /\ del' = Idle /\ save.pc = "idle"
        /\ UNCHANGED <<rows, save>>
    BY <1>2 DEF DropKey, TypeOK, Deletions, Idle, KeyInv, OneAtATime, database
  <2>2. KeyOfEveryProvider'
    BY <1>2, <2>1, DeleteKeyKeeps DEF DropKey, KeyInv, DeletedIsGone
  <2> QED BY <2>1, <2>2 DEF KeyInv, Idle, OneAtATime, OldIsNamed, RevIsStored, RevIsNamed,
            MergedAreGone, DeletedIsGone, Known
<1> QED BY <1>1, <1>2

\* A test writes no more than a status.
LEMMA TestKeeps ==
  ASSUME TypeOK, KeyInv, NEW t \in Testers,
         StartTest(t) \/ TestPasses(t) \/ TestFails(t)
  PROVE  KeyInv'
<1>1. /\ \A p \in Providers : rows[p] = Absent <=> rows'[p] = Absent
      /\ \A p \in Known : rows'[p].rev = rows[p].rev
  BY MarkTyped DEF StartTest, TestPasses, TestFails, Statuses
<1>2. UNCHANGED <<save, del, secrets>>
  BY DEF StartTest, TestPasses, TestFails, Mark
<1>3. Known' = Known /\ \A p \in Providers : Revision(p)' = Revision(p)
  BY <1>1 DEF Known, Revision
<1>4. save.pc # "idle" => save.id \in Providers
  BY DEF TypeOK, Saves, Idle
<1> QED BY <1>1, <1>2, <1>3, <1>4 DEF KeyInv, KeyOfEveryProvider, OneAtATime, OldIsNamed, RevIsStored,
          RevIsNamed, MergedAreGone, DeletedIsGone, Stored

LEMMA OtherKeeps ==
  ASSUME TypeOK, KeyInv, UNCHANGED <<rows, secrets>>,
         UNCHANGED <<save, del>> \/ (save' = Idle /\ del' = Idle)
  PROVE  KeyInv'
BY DEF KeyInv, Idle, KeyOfEveryProvider, OneAtATime, OldIsNamed, RevIsStored, RevIsNamed,
       MergedAreGone, DeletedIsGone, Stored, Known, Revision

LEMMA KeyNext == TypeOK /\ KeyInv /\ [Next]_vars => KeyInv'
<1> SUFFICES ASSUME TypeOK, KeyInv, [Next]_vars PROVE KeyInv'
  OBVIOUS
<1>1. ASSUME NEW c \in Connections, NEW key, NEW models, SaveNew(c, key, models) PROVE KeyInv'
  BY <1>1, SaveNewKeeps
<1>2. ASSUME NEW p \in Providers, NEW c, NEW key, NEW models, SaveEdited(p, c, key, models)
      PROVE  KeyInv'
  BY <1>2, BeginSaveKeeps DEF SaveEdited
<1>3. CASE SaveStep
  BY <1>3, KeyStepKeeps, SaveRowsKeeps, SaveFailsKeeps, CleanupKeeps DEF SaveStep
<1>4. CASE DropKey \/ \E p \in Providers : DeleteRows(p)
  BY <1>4, DeletionKeeps
<1>5. ASSUME NEW t \in Testers, StartTest(t) \/ TestPasses(t) \/ TestFails(t) PROVE KeyInv'
  BY <1>5, TestKeeps
<1>6. ASSUME NEW t \in Testers, NEW p, NEW m,
             BeginTest(t, p, m) \/ ModelGone(t) \/ MarkFails(t)
      PROVE  KeyInv'
  BY <1>6, OtherKeeps DEF BeginTest, ModelGone, MarkFails, database
<1>7. ASSUME NEW a, NEW p, Bind(a, p) PROVE KeyInv'
  BY <1>7, OtherKeeps DEF Bind
<1>8. CASE Restart
  BY <1>8, OtherKeeps DEF Restart, database
<1>9. CASE UNCHANGED vars
  BY <1>9, OtherKeeps DEF vars
<1> QED BY <1>1, <1>2, <1>3, <1>4, <1>5, <1>6, <1>7, <1>8, <1>9 DEF Next

-----------------------------------------------------------------------------
(* A merge loses nothing *)

\* Until its transaction a save holds every model of the rows it is to merge.
NothingToLose ==
  save.pc \in {"key", "rows"} =>
    \A d \in save.duplicates : d \in Known /\ DOMAIN rows[d].models \subseteq DOMAIN save.models

LEMMA MergeNext == TypeOK /\ KeyInv /\ NothingToLose /\ [Next]_vars => NothingToLose'
<1> SUFFICES ASSUME TypeOK, KeyInv, NothingToLose, [Next]_vars PROVE NothingToLose'
  OBVIOUS
<1>1. save.pc # "idle" => save \in Saves
  BY DEF TypeOK, Idle
<1>2. ASSUME NEW c \in Connections, NEW key, NEW models, SaveNew(c, key, models)
      PROVE  NothingToLose'
  <2> DEFINE S == Matches(c)
  <2>1. S \in SUBSET Known /\ UNCHANGED rows
    BY <1>2 DEF SaveNew, BeginSave, Matches
  <2>2. CASE save' = Saving(next, {}, c, key, models)
    BY <2>2 DEF Saving, NothingToLose
  <2>3. ASSUME NEW p \in S, save' = Saving(p, S \ {p}, c, key, Merged(S, models))
        PROVE  NothingToLose'
    <3>1. save'.duplicates = S \ {p} /\ save'.models = Merged(S, models)
      BY <2>3 DEF Saving
    <3>2. \A d \in S : DOMAIN rows[d].models \subseteq DOMAIN Merged(S, models)
      BY DEF Merged
    <3> HIDE DEF S
    <3> QED BY <2>1, <3>1, <3>2 DEF NothingToLose, Known
  <2> QED BY <1>2, <2>2, <2>3 DEF SaveNew
<1>3. ASSUME NEW p \in Providers, NEW c, NEW key, NEW models, SaveEdited(p, c, key, models)
      PROVE  NothingToLose'
  BY <1>3 DEF SaveEdited, Saving, NothingToLose
<1>4. CASE KeepKey \/ PutKey
  <2>1. /\ save'.duplicates = save.duplicates /\ save'.models = save.models
        /\ save.pc = "key" /\ UNCHANGED rows
    BY <1>1, <1>4 DEF KeepKey, PutKey, Saves, database
  <2> QED BY <2>1 DEF NothingToLose, Known
<1>5. CASE SaveRows \/ DropOldKey \/ DropMergedKey
  <2>1. save'.pc \in {"old", "merged"}
    BY <1>1, <1>5 DEF SaveRows, DropOldKey, DropMergedKey, Saves
  <2> QED BY <2>1 DEF NothingToLose
<1>6. CASE KeyMissing \/ SaveFails \/ Saved \/ Restart
  BY <1>6 DEF KeyMissing, SaveFails, Saved, Restart, Idle, NothingToLose
<1>7. ASSUME NEW p \in Providers, DeleteRows(p) PROVE NothingToLose'
  BY <1>7 DEF DeleteRows, NothingToLose
<1>8. ASSUME NEW t \in Testers, StartTest(t) \/ TestPasses(t) \/ TestFails(t) PROVE NothingToLose'
  <2>1. /\ \A p \in Providers : rows[p] = Absent <=> rows'[p] = Absent
        /\ \A p \in Known : DOMAIN rows'[p].models = DOMAIN rows[p].models
    BY <1>8, MarkTyped DEF StartTest, TestPasses, TestFails, Statuses
  <2>2. UNCHANGED save
    BY <1>8 DEF StartTest, TestPasses, TestFails, Mark
  <2> QED BY <2>1, <2>2 DEF NothingToLose, Known
<1>9. ASSUME UNCHANGED <<rows, save>> PROVE NothingToLose'
  BY <1>9 DEF NothingToLose, Known
<1>10. CASE \/ DropKey
            \/ \E t \in Testers : \/ \E p \in Providers, m \in Models : BeginTest(t, p, m)
                                  \/ ModelGone(t) \/ MarkFails(t)
            \/ \E a \in Agents, p \in Providers : Bind(a, p)
            \/ UNCHANGED vars
  BY <1>9, <1>10 DEF DropKey, BeginTest, ModelGone, MarkFails, Bind, vars, database
<1> QED BY <1>2, <1>3, <1>4, <1>5, <1>6, <1>7, <1>8, <1>10 DEF Next, SaveStep

LEMMA MergeStep ==
  ASSUME TypeOK, NothingToLose, NEW p \in Providers, SaveRows, p \in save.duplicates
  PROVE  /\ DOMAIN rows[p].models \subseteq DOMAIN rows'[save.id].models
         /\ \A a \in Agents : binding[a] = p => binding'[a] = save.id
<1>1. save.pc = "rows" /\ save.id \in Providers
  BY DEF SaveRows, TypeOK, Saves, Idle
<1>2. DOMAIN rows'[save.id].models = DOMAIN save.models
  BY <1>1 DEF SaveRows
<1>3. DOMAIN rows[p].models \subseteq DOMAIN save.models
  BY <1>1 DEF NothingToLose
<1>4. \A a \in Agents : binding[a] = p => binding'[a] = save.id
  BY DEF SaveRows
<1> QED BY <1>2, <1>3, <1>4

-----------------------------------------------------------------------------
(* What the tests know, and the keys no row names *)

FaultsCounted == left.fault <= MaxFaults

\* Until its transaction a save knows the revisions that are going to be merged.
RevsNamed ==
  save.pc # "idle" =>
    /\ save.duplicates \subseteq DOMAIN save.revs
    /\ save.pc \in {"key", "rows"} => \A d \in save.duplicates : save.revs[d] = Revision(d)

\* A test is of what the row still says, unless a save came in between.
Current(t) ==
  LET p == test[t].id m == test[t].model IN
  /\ test[t].key = Stored(p, rows[p].rev)
  /\ test[t].connection = rows[p].connection
  /\ test[t].features = rows[p].models[m].features

TestsCurrent ==
  \A t \in Testers : test[t].pc # "idle" /\ HasModel(test[t].id, test[t].model) =>
    Current(t) \/ <<test[t].id, test[t].model>> \in edited

\* A stored key is named by its row or about to be named by it or to be deleted.
Accounted(p, r) ==
  \/ p \in Known /\ rows[p].rev = r
  \/ save.pc = "rows" /\ p = save.id /\ r = save.rev
  \/ save.pc = "old" /\ p = save.id /\ r = save.old /\ save.old # save.rev
  \/ save.pc \in {"old", "merged"} /\ p \in save.duplicates /\ r = save.revs[p]
  \/ del.pc = "key" /\ p = del.id /\ r = del.rev

KeysAccounted ==
  left.fault = MaxFaults =>
    \A p \in Providers, r \in 1 .. MaxRev : secrets[p][r] # NoKey => Accounted(p, r)

-----------------------------------------------------------------------------
(* What a step changes *)

\* A fault is counted off.
LEMMA FaultsStep ==
  ASSUME TypeOK, FaultsCounted, [Next]_vars
  PROVE  FaultsCounted' /\ (left'.fault = MaxFaults => left.fault = MaxFaults /\ ~Fault)
<1>0. left \in [save : Nat, test : Nat, fault : Nat] /\ MaxFaults \in Nat
  BY BoundsAssumption DEF TypeOK
<1>1. CASE Fault
  BY <1>0, <1>1 DEF Fault, FaultsCounted
<1>2. CASE UNCHANGED left \/ left' = [left EXCEPT !.save = @ - 1] \/ left' = [left EXCEPT !.test = @ - 1]
  <2>1. left'.fault = left.fault
    BY <1>0, <1>2
  <2>2. ~Fault
    BY <1>0, <2>1 DEF Fault
  <2> QED BY <2>1, <2>2 DEF FaultsCounted
<1>3. \/ UNCHANGED left \/ Fault
      \/ left' = [left EXCEPT !.save = @ - 1] \/ left' = [left EXCEPT !.test = @ - 1]
  <2>1. CASE SaveStep \/ DropKey \/ Restart \/ UNCHANGED vars \/ (\E p \in Providers : DeleteRows(p))
    BY <2>1 DEF SaveStep, KeepKey, PutKey, KeyMissing, SaveRows, SaveFails, DropOldKey, DropMergedKey, Saved,
                DropKey, DeleteKey, DeleteRows, Restart, vars
  <2>2. ASSUME NEW t \in Testers, NEW p \in Providers, NEW m \in Models,
               BeginTest(t, p, m) \/ StartTest(t) \/ TestPasses(t) \/ TestFails(t) \/ ModelGone(t) \/ MarkFails(t)
        PROVE  UNCHANGED left \/ Fault \/ left' = [left EXCEPT !.test = @ - 1]
    BY <2>2 DEF BeginTest, StartTest, TestPasses, TestFails, Mark, ModelGone, MarkFails
  <2>3. ASSUME NEW c \in Connections, NEW key \in Keys \cup {NoKey}, NEW models \in Catalogs,
               SaveNew(c, key, models) \/ \E p \in Providers : SaveEdited(p, c, key, models)
        PROVE  left' = [left EXCEPT !.save = @ - 1]
    BY <2>3 DEF SaveNew, SaveEdited, BeginSave
  <2>4. ASSUME NEW t \in Testers,
               StartTest(t) \/ TestPasses(t) \/ TestFails(t) \/ ModelGone(t) \/ MarkFails(t)
        PROVE  UNCHANGED left \/ Fault
    BY <2>4 DEF StartTest, TestPasses, TestFails, Mark, ModelGone, MarkFails
  <2> QED BY <2>1, <2>2, <2>3, <2>4 DEF Next, Bind
<1> QED BY <1>1, <1>2, <1>3

\* Rows change by the transactions of a save and a deletion and by the marks
\* of tests.
LEMMA RowsMove ==
  ASSUME [Next]_vars
  PROVE  \/ rows' = rows \/ SaveRows \/ (\E p \in Providers : DeleteRows(p))
         \/ \E t \in Testers : StartTest(t) \/ TestPasses(t) \/ TestFails(t)
BY DEF Next, vars, database, SaveNew, SaveEdited, BeginSave, SaveStep, KeepKey, PutKey, KeyMissing, SaveFails,
       DropOldKey, DropMergedKey, Saved, DropKey, BeginTest, ModelGone, MarkFails, Bind, Restart

\* The rows after a save's transaction.
LEMMA SaveRowsDoes ==
  ASSUME TypeOK, SaveRows
  PROVE  /\ save \in Saves /\ save.id \in Providers /\ save.pc = "rows"
         /\ save' = [save EXCEPT !.pc = "old"] /\ UNCHANGED <<secrets, del, test, passed, left>>
         /\ rows'[save.id].connection = save.connection /\ rows'[save.id].rev = save.rev
         /\ DOMAIN rows'[save.id].models = DOMAIN save.models
         /\ \A m \in DOMAIN save.models : /\ rows'[save.id].models[m].features = save.models[m]
                                          /\ rows'[save.id].models[m].status = SavedStatus(save.id, m)
         /\ \A q \in Providers \ {save.id} : rows'[q] = IF q \in save.duplicates THEN Absent ELSE rows[q]
         /\ edited' = edited \cup UnderTest(save.id)
<1>1. save \in Saves /\ save.id \in Providers
  BY DEF SaveRows, TypeOK, Saves, Idle
<1> DEFINE Status(m) == SavedStatus(save.id, m)
           Row == [connection |-> save.connection, rev |-> save.rev,
                   models |-> [m \in DOMAIN save.models |->
                      [features |-> save.models[m], status |-> Status(m)]]]
<1>2. rows' = [q \in Providers |-> IF q = save.id THEN Row
                 ELSE IF q \in save.duplicates THEN Absent ELSE rows[q]]
  BY DEF SaveRows
<1>3. rows'[save.id] = Row /\ \A q \in Providers \ {save.id} : rows'[q] = IF q \in save.duplicates THEN Absent ELSE rows[q]
  BY <1>1, <1>2
<1> HIDE DEF Status
<1>4. /\ rows'[save.id].connection = save.connection /\ rows'[save.id].rev = save.rev
      /\ DOMAIN rows'[save.id].models = DOMAIN save.models
      /\ \A m \in DOMAIN save.models : /\ rows'[save.id].models[m].features = save.models[m]
                                       /\ rows'[save.id].models[m].status = Status(m)
  BY <1>3
<1> HIDE DEF Row
<1> QED BY <1>1, <1>3, <1>4 DEF SaveRows, Status

\* The rows after a mark.
LEMMA MarkDoes ==
  ASSUME TypeOK, NEW t \in Testers, NEW from \in {"begun", "running"}, NEW status \in Statuses,
         NEW to, Mark(t, from, status, to)
  PROVE  /\ test[t] \in Tests /\ test[t].pc = from /\ HasModel(test[t].id, test[t].model)
         /\ test' = [test EXCEPT ![t] = to] /\ UNCHANGED <<secrets, save, del, edited, left>>
         /\ \A q \in Providers : rows'[q] = Absent <=> rows[q] = Absent
         /\ \A q \in Known :
              /\ rows'[q].connection = rows[q].connection /\ rows'[q].rev = rows[q].rev
              /\ DOMAIN rows'[q].models = DOMAIN rows[q].models
              /\ \A m \in DOMAIN rows[q].models :
                   /\ rows'[q].models[m].features = rows[q].models[m].features
                   /\ rows'[q].models[m].status = IF q = test[t].id /\ m = test[t].model THEN status
                                                  ELSE rows[q].models[m].status
<1> DEFINE p == test[t].id
           n == test[t].model
           Model == [rows[p].models[n] EXCEPT !.status = status]
           Catalog == [rows[p].models EXCEPT ![n] = Model]
           Row == [rows[p] EXCEPT !.models = Catalog]
<1>1. test[t] \in Tests /\ test[t].pc = from
  BY DEF Mark, TypeOK, Idle
<1>2. p \in Known /\ p \in Providers /\ n \in DOMAIN rows[p].models
  BY <1>1 DEF Mark, HasModel, Known, Tests
<1>3. rows' = [rows EXCEPT ![p] = Row]
  BY DEF Mark
<1>4. rows[p].models[n] \in ModelRows
  BY <1>2, RowFields
<1>5. Model.features = rows[p].models[n].features /\ Model.status = status
  BY <1>4 DEF ModelRows
<1> HIDE DEF Model
<1>6. PICK S \in (SUBSET Models) \ {{}} : rows[p].models \in [S -> ModelRows]
  BY <1>2, RowFields DEF Rows
<1>7. /\ DOMAIN Catalog = DOMAIN rows[p].models
      /\ \A m \in DOMAIN rows[p].models : Catalog[m] = IF m = n THEN Model ELSE rows[p].models[m]
  BY <1>6
<1> HIDE DEF Catalog
<1>8. rows[p] \in Rows
  BY <1>2, RowFields
<1>9. Row.rev = rows[p].rev /\ Row.connection = rows[p].connection /\ Row.models = Catalog
  BY <1>8 DEF Rows
<1> HIDE DEF Row, p
<1>10. \A q \in Providers : rows'[q] = IF q = p THEN Row ELSE rows[q]
  BY <1>2, <1>3 DEF TypeOK
<1>11. \A q \in Known : q \in Providers
  BY DEF Known
<1>12. \A q \in Providers : rows'[q] = Absent <=> rows[q] = Absent
  BY MarkTyped
<1>13. HasModel(p, n) /\ test' = [test EXCEPT ![t] = to] /\ UNCHANGED <<secrets, save, del, edited, left>>
  BY DEF Mark, p
<1>14. ASSUME NEW q \in Known
       PROVE  /\ rows'[q].connection = rows[q].connection /\ rows'[q].rev = rows[q].rev
              /\ DOMAIN rows'[q].models = DOMAIN rows[q].models
              /\ \A m \in DOMAIN rows[q].models :
                   /\ rows'[q].models[m].features = rows[q].models[m].features
                   /\ rows'[q].models[m].status = IF q = p /\ m = n THEN status ELSE rows[q].models[m].status
  <2>1. CASE q = p
    BY <1>5, <1>7, <1>9, <1>10, <1>11, <2>1
  <2>2. CASE q # p
    BY <1>10, <1>11, <2>2
  <2> QED BY <2>1, <2>2
<1> QED BY <1>1, <1>12, <1>13, <1>14 DEF p

LEMMA KeyDropped ==
  ASSUME TypeOK, NEW p \in Providers, NEW r, DeleteKey(p, r)
  PROVE  /\ \A q \in Providers, s \in 1 .. MaxRev : secrets'[q][s] = secrets[q][s] \/ (q = p /\ s = r)
         /\ ~Fault => \A s \in 1 .. MaxRev : s = r => secrets'[p][s] = NoKey
<1>0. secrets \in [Providers -> [1 .. MaxRev -> Keys \cup {NoKey}]]
  BY DEF TypeOK
<1>1. CASE UNCHANGED secrets /\ Fault
  BY <1>1
<1>2. CASE secrets' = [secrets EXCEPT ![p][r] = NoKey]
  <2>1. \A q \in Providers \ {p} : secrets'[q] = secrets[q]
    BY <1>0, <1>2
  <2> DEFINE old == secrets[p]
  <2>2. secrets'[p] = [old EXCEPT ![r] = NoKey] /\ old \in [1 .. MaxRev -> Keys \cup {NoKey}]
    BY <1>0, <1>2
  <2> HIDE DEF old
  <2>3. \A s \in 1 .. MaxRev : secrets'[p][s] = IF s = r THEN NoKey ELSE old[s]
    BY <2>2
  <2> QED BY <2>1, <2>3 DEF old
<1> QED BY <1>1, <1>2 DEF DeleteKey

\* The key that a row names stays as long as the row does.
LEMMA NamedKeyStays ==
  ASSUME TypeOK, KeyInv, [Next]_vars, NEW p \in Known
  PROVE  secrets'[p][rows[p].rev] = secrets[p][rows[p].rev]
<1>0. p \in Providers /\ rows[p].rev \in 1 .. MaxRev
  BY RowFields
<1>1. CASE secrets' = secrets
  BY <1>1
<1>2. CASE PutKey
  <2>1. save \in Saves /\ save.id \in Providers /\ save.pc = "key" /\ save.old \in 0 .. MaxRev
    BY <1>2 DEF PutKey, TypeOK, Saves, Idle
  <2>2. \A q \in Providers, r \in 1 .. MaxRev : secrets'[q][r] = secrets[q][r] \/ (q = save.id /\ r = save.old + 1)
    BY <1>2, <2>1 DEF PutKey, TypeOK
  <2>3. p = save.id => rows[p].rev = save.old
    BY <2>1 DEF KeyInv, OldIsNamed, Revision, Known
  <2> QED BY <1>0, <2>1, <2>2, <2>3
<1>3. CASE SaveFails
  <2>1. save.pc = "rows" /\ save.id \in Providers
    BY <1>3 DEF SaveFails, TypeOK, Saves, Idle
  <2>2. \A q \in Providers, r \in 1 .. MaxRev :
          secrets'[q][r] = secrets[q][r] \/ (q = save.id /\ r = save.rev /\ save.rev # save.old)
    BY <1>3, <2>1 DEF SaveFails, TypeOK
  <2>3. p = save.id => rows[p].rev = save.old
    BY <2>1 DEF KeyInv, OldIsNamed, Revision, Known
  <2> QED BY <1>0, <2>2, <2>3
<1>4. ASSUME NEW q \in Providers, NEW r, DeleteKey(q, r), q \in Known => rows[q].rev # r
      PROVE  secrets'[p][rows[p].rev] = secrets[p][rows[p].rev]
  <2>1. secrets'[p][rows[p].rev] = secrets[p][rows[p].rev] \/ (p = q /\ rows[p].rev = r)
    BY <1>0, <1>4, KeyDropped
  <2> QED BY <1>4, <2>1
<1>5. CASE DropOldKey
  <2>1. save.pc = "old" /\ save.id \in Providers
    BY <1>5 DEF DropOldKey, TypeOK, Saves, Idle
  <2>2. CASE DeleteKey(save.id, save.old) /\ save.old # save.rev
    <3>1. rows[save.id].rev # save.old
      BY <2>1, <2>2 DEF KeyInv, RevIsNamed
    <3> QED BY <1>4, <2>1, <2>2, <3>1
  <2> QED BY <1>1, <1>5, <2>2 DEF DropOldKey
<1>6. CASE DropMergedKey
  <2>1. save.pc = "merged" /\ save.duplicates \in SUBSET Providers
    BY <1>6 DEF DropMergedKey, TypeOK, Saves, Idle
  <2>2. PICK d \in save.duplicates : DeleteKey(d, save.revs[d])
    BY <1>6 DEF DropMergedKey
  <2>3. d \notin Known
    BY <2>1, <2>2 DEF KeyInv, MergedAreGone
  <2> QED BY <1>4, <2>1, <2>2, <2>3
<1>7. CASE DropKey
  <2>1. del.pc = "key" /\ del.id \in Providers /\ DeleteKey(del.id, del.rev)
    BY <1>7 DEF DropKey, TypeOK, Deletions, Idle
  <2>2. del.id \notin Known
    BY <2>1 DEF KeyInv, DeletedIsGone
  <2> QED BY <1>4, <2>1, <2>2
<1>8. secrets' = secrets \/ PutKey \/ SaveFails \/ DropOldKey \/ DropMergedKey \/ DropKey
  BY DEF Next, vars, SaveNew, SaveEdited, BeginSave, SaveStep, KeepKey, KeyMissing, SaveRows, Saved, DeleteRows,
         BeginTest, StartTest, TestPasses, TestFails, Mark, ModelGone, MarkFails, Bind, Restart
<1> QED BY <1>1, <1>2, <1>3, <1>5, <1>6, <1>7, <1>8

-----------------------------------------------------------------------------
(* No key is left behind *)

LEMMA RevsStep ==
  ASSUME TypeOK, KeyInv, RevsNamed, [Next]_vars
  PROVE  RevsNamed'
<1>0. save.pc # "idle" => save \in Saves
  BY DEF TypeOK, Idle
<1>1. ASSUME NEW p, NEW D, NEW c, NEW key, NEW models, save' = Saving(p, D, c, key, models), UNCHANGED rows
      PROVE  RevsNamed'
  BY <1>1 DEF Saving, RevsNamed, Revision
<1>2. ASSUME NEW c \in Connections, NEW key, NEW models,
             SaveNew(c, key, models) \/ \E p \in Providers : SaveEdited(p, c, key, models)
      PROVE  RevsNamed'
  BY <1>1, <1>2 DEF SaveNew, SaveEdited, BeginSave
<1>3. CASE KeepKey \/ PutKey
  <2>1. /\ save.pc = "key" /\ save'.pc = "rows" /\ save'.duplicates = save.duplicates /\ save'.revs = save.revs
        /\ UNCHANGED rows
    BY <1>0, <1>3 DEF KeepKey, PutKey, Saves, database
  <2> QED BY <2>1 DEF RevsNamed, Revision
<1>4. CASE SaveRows \/ DropOldKey \/ DropMergedKey
  <2>1. /\ save.pc \in {"rows", "old", "merged"} /\ save'.pc \in {"old", "merged"}
        /\ save'.duplicates \subseteq save.duplicates /\ save'.revs = save.revs
    BY <1>0, <1>4 DEF SaveRows, DropOldKey, DropMergedKey, Saves
  <2> QED BY <2>1 DEF RevsNamed
<1>5. CASE KeyMissing \/ SaveFails \/ Saved \/ Restart
  BY <1>5 DEF KeyMissing, SaveFails, Saved, Restart, Idle, RevsNamed
<1>6. ASSUME NEW p \in Providers, DeleteRows(p) PROVE RevsNamed'
  BY <1>6 DEF DeleteRows, RevsNamed
<1>7. ASSUME NEW t \in Testers, StartTest(t) \/ TestPasses(t) \/ TestFails(t) PROVE RevsNamed'
  <2>1. /\ UNCHANGED save
        /\ \A q \in Providers : rows'[q] = Absent <=> rows[q] = Absent
        /\ \A q \in Known : rows'[q].rev = rows[q].rev
    BY <1>7, MarkDoes DEF StartTest, TestPasses, TestFails, Statuses
  <2>2. \A q \in Providers : Revision(q)' = Revision(q)
    BY <2>1 DEF Revision, Known
  <2>3. save.pc # "idle" => save.duplicates \subseteq Providers
    BY <1>0 DEF Saves
  <2> QED BY <2>1, <2>2, <2>3 DEF RevsNamed
<1>8. CASE UNCHANGED <<rows, save>>
  BY <1>8 DEF RevsNamed, Revision
<1>9. CASE \/ DropKey
           \/ \E t \in Testers : \/ \E p \in Providers, m \in Models : BeginTest(t, p, m)
                                 \/ ModelGone(t) \/ MarkFails(t)
           \/ \E a \in Agents, p \in Providers : Bind(a, p)
           \/ UNCHANGED vars
  BY <1>8, <1>9 DEF DropKey, BeginTest, ModelGone, MarkFails, Bind, vars, database
<1> QED BY <1>2, <1>3, <1>4, <1>5, <1>6, <1>7, <1>9 DEF Next, SaveStep

LEMMA KeysSaveStep ==
  ASSUME TypeOK, KeyInv, RevsNamed, KeysAccounted, left.fault = MaxFaults, ~Fault, SaveStep,
         NEW p \in Providers, NEW r \in 1 .. MaxRev, secrets'[p][r] # NoKey
  PROVE  Accounted(p, r)'
<1>0. /\ save \in Saves /\ save.id \in Providers /\ save.duplicates \in SUBSET Providers /\ save.old \in 0 .. MaxRev
      /\ del.pc = "idle"
  BY DEF SaveStep, KeepKey, PutKey, KeyMissing, SaveRows, SaveFails, DropOldKey, DropMergedKey, Saved,
         TypeOK, Saves, Idle, KeyInv, OneAtATime
<1>1. secrets[p][r] # NoKey => Accounted(p, r)
  BY DEF KeysAccounted
<1>2. CASE KeepKey \/ KeyMissing \/ Saved
  <2>1. UNCHANGED <<rows, secrets>> /\ (save.pc = "key" \/ (save.pc = "merged" /\ save.duplicates = {}))
    BY <1>2 DEF KeepKey, KeyMissing, Saved, database
  <2> QED BY <1>0, <1>1, <2>1 DEF Accounted, Known
<1>3. CASE PutKey
  <2>1. /\ save.pc = "key" /\ save'.pc = "rows" /\ save'.id = save.id /\ save'.rev = save.old + 1 /\ UNCHANGED rows
    BY <1>0, <1>3 DEF PutKey, Saves, database
  <2>2. secrets'[p][r] = secrets[p][r] \/ (p = save.id /\ r = save.old + 1)
    BY <1>0, <1>3 DEF PutKey, TypeOK
  <2> QED BY <1>0, <1>1, <2>1, <2>2 DEF Accounted, Known
<1>4. CASE SaveRows
  <2>1. /\ save.pc = "rows" /\ save'.pc = "old" /\ save'.id = save.id /\ save'.old = save.old /\ save'.rev = save.rev
        /\ save'.duplicates = save.duplicates /\ save'.revs = save.revs /\ secrets' = secrets
    BY <1>4, SaveRowsDoes DEF Saves
  <2>2. /\ rows'[save.id] # Absent /\ rows'[save.id].rev = save.rev
        /\ \A q \in Providers \ {save.id} : rows'[q] = IF q \in save.duplicates THEN Absent ELSE rows[q]
    BY <1>4, SaveRowsDoes, SavedRow
  <2>3. CASE p = save.id
    <3>1. p \in Known /\ rows[p].rev = r => r = save.old
      BY <2>1, <2>3 DEF KeyInv, OldIsNamed, Revision, Known
    <3>2. r = save.old \/ r = save.rev
      BY <1>0, <1>1, <2>1, <3>1 DEF Accounted
    <3> QED BY <1>0, <2>1, <2>2, <2>3, <3>2 DEF Accounted, Known
  <2>4. CASE p # save.id
    <3>1. p \in Known /\ rows[p].rev = r
      BY <1>0, <1>1, <2>1, <2>4 DEF Accounted
    <3>2. p \in save.duplicates => save.revs[p] = r
      BY <2>1, <3>1 DEF RevsNamed, Revision, Known
    <3> QED BY <2>1, <2>2, <2>4, <3>1, <3>2 DEF Accounted, Known
  <2> QED BY <2>3, <2>4
<1>5. CASE DropOldKey
  <2>1. /\ save.pc = "old" /\ save'.pc = "merged" /\ save'.duplicates = save.duplicates /\ save'.revs = save.revs
        /\ UNCHANGED rows
    BY <1>0, <1>5 DEF DropOldKey, Saves, database
  <2>2. secrets[p][r] # NoKey /\ ~(p = save.id /\ r = save.old /\ save.old # save.rev)
    <3>1. CASE save.old \in {0, save.rev}
      BY <1>5, <3>1 DEF DropOldKey
    <3>2. CASE save.old \notin {0, save.rev}
      <4>1. DeleteKey(save.id, save.old)
        BY <1>5, <3>2 DEF DropOldKey
      <4>2. PICK q \in Providers, s \in 0 .. MaxRev : q = save.id /\ s = save.old
        BY <1>0
      <4>3. /\ secrets'[p][r] = secrets[p][r] \/ (p = q /\ r = s)
            /\ p = q /\ r = s => secrets'[p][r] = NoKey
        BY <4>1, <4>2, KeyDropped
      <4> QED BY <4>2, <4>3
    <3> QED BY <3>1, <3>2
  <2> QED BY <1>0, <1>1, <2>1, <2>2 DEF Accounted, Known
<1>6. CASE DropMergedKey
  <2>1. PICK d \in save.duplicates :
             DeleteKey(d, save.revs[d]) /\ save' = [save EXCEPT !.duplicates = @ \ {d}]
    BY <1>6 DEF DropMergedKey
  <2>2. /\ save.pc = "merged" /\ save'.pc = "merged" /\ save'.duplicates = save.duplicates \ {d}
        /\ save'.revs = save.revs /\ UNCHANGED rows
    BY <1>0, <1>6, <2>1 DEF DropMergedKey, Saves, database
  <2>3. PICK s : s = save.revs[d]
    OBVIOUS
  <2>4. /\ secrets'[p][r] = secrets[p][r] \/ (p = d /\ r = s)
        /\ p = d /\ r = s => secrets'[p][r] = NoKey
    BY <1>0, <2>1, <2>3, KeyDropped
  <2> QED BY <1>0, <1>1, <2>2, <2>3, <2>4 DEF Accounted, Known
<1>7. ~SaveFails
  BY DEF SaveFails
<1> QED BY <1>2, <1>3, <1>4, <1>5, <1>6, <1>7 DEF SaveStep

LEMMA KeysStep ==
  ASSUME TypeOK, KeyInv, FaultsCounted, RevsNamed, KeysAccounted, [Next]_vars
  PROVE  KeysAccounted'
<1> SUFFICES ASSUME left'.fault = MaxFaults, NEW p \in Providers, NEW r \in 1 .. MaxRev, secrets'[p][r] # NoKey
             PROVE  Accounted(p, r)'
  BY DEF KeysAccounted
<1>0. left.fault = MaxFaults /\ ~Fault
  BY FaultsStep
<1>1. secrets[p][r] # NoKey => Accounted(p, r)
  BY <1>0 DEF KeysAccounted
<1>2. CASE SaveStep
  BY <1>0, <1>2, KeysSaveStep
<1>3. ASSUME NEW q \in Providers, DeleteRows(q)
      PROVE  Accounted(p, r)'
  <2>1. /\ save.pc = "idle" /\ secrets' = secrets /\ del'.pc = "key" /\ del'.id = q /\ del'.rev = rows[q].rev
        /\ del.pc = "idle"
    BY <1>3 DEF DeleteRows
  <2>2. \A b \in Providers : rows'[b] = IF b = q THEN Absent ELSE rows[b]
    BY <1>3 DEF DeleteRows, TypeOK
  <2> QED BY <1>1, <2>1, <2>2 DEF Accounted, Known
<1>4. CASE DropKey
  <2>1. /\ del.pc = "key" /\ save.pc = "idle" /\ UNCHANGED <<rows, save>> /\ del.id \in Providers /\ del.rev \in 1 .. MaxRev
        /\ DeleteKey(del.id, del.rev)
    BY <1>4 DEF DropKey, TypeOK, Deletions, Idle, KeyInv, OneAtATime, database
  <2>2. PICK q \in Providers, s \in 1 .. MaxRev : q = del.id /\ s = del.rev
    BY <2>1
  <2>3. /\ secrets'[p][r] = secrets[p][r] \/ (p = q /\ r = s)
        /\ p = q /\ r = s => secrets'[p][r] = NoKey
    BY <1>0, <2>1, <2>2, KeyDropped
  <2> QED BY <1>1, <2>1, <2>2, <2>3 DEF Accounted, Known
<1>5. ASSUME NEW t \in Testers, StartTest(t) \/ TestPasses(t) \/ TestFails(t)
      PROVE  Accounted(p, r)'
  <2>1. /\ UNCHANGED <<save, del, secrets>>
        /\ \A q \in Providers : rows'[q] = Absent <=> rows[q] = Absent
        /\ \A q \in Known : rows'[q].rev = rows[q].rev
    BY <1>5, MarkDoes DEF StartTest, TestPasses, TestFails, Statuses
  <2> QED BY <1>1, <2>1 DEF Accounted, Known
<1>6. ASSUME NEW c \in Connections, NEW key, NEW models,
             SaveNew(c, key, models) \/ \E q \in Providers : SaveEdited(q, c, key, models)
      PROVE  Accounted(p, r)'
  <2>1. save.pc = "idle" /\ del.pc = "idle" /\ UNCHANGED <<rows, secrets>>
    BY <1>6 DEF SaveNew, SaveEdited, BeginSave
  <2> QED BY <1>1, <2>1 DEF Accounted, Known
<1>7. CASE UNCHANGED <<rows, secrets, save, del>>
  BY <1>1, <1>7 DEF Accounted, Known
<1>8. CASE \/ \E t \in Testers : \/ \E q \in Providers, m \in Models : BeginTest(t, q, m)
                                 \/ ModelGone(t) \/ MarkFails(t)
           \/ \E a \in Agents, q \in Providers : Bind(a, q)
           \/ UNCHANGED vars
  BY <1>7, <1>8 DEF BeginTest, ModelGone, MarkFails, Bind, vars, database
<1>9. ~Restart
  BY <1>0 DEF Restart
<1> QED BY <1>2, <1>3, <1>4, <1>5, <1>6, <1>8, <1>9 DEF Next

-----------------------------------------------------------------------------
(* What a verified model has passed *)

\* The model that is under test is still there.
StillThere(t) == HasModel(test[t].id, test[t].model)

LEMMA TestsStep ==
  ASSUME TypeOK, KeyInv, TestsCurrent, [Next]_vars
  PROVE  TestsCurrent'
<1> SUFFICES ASSUME NEW t \in Testers, test'[t].pc # "idle", StillThere(t)'
             PROVE  Current(t)' \/ <<test'[t].id, test'[t].model>> \in edited'
  BY DEF TestsCurrent, StillThere
<1>a. \A q \in Known : /\ q \in Providers /\ rows[q].rev \in 1 .. MaxRev
                       /\ Stored(q, rows[q].rev) = secrets[q][rows[q].rev]
  BY RowFields, BoundsAssumption DEF Stored
\* The test goes on, and so does the row it is of.
<1>b. ASSUME test[t].pc # "idle", test[t] \in Tests,
             test'[t].id = test[t].id, test'[t].model = test[t].model, test'[t].key = test[t].key,
             test'[t].connection = test[t].connection, test'[t].features = test[t].features,
             edited \subseteq edited', HasModel(test[t].id, test[t].model),
             rows'[test[t].id].rev = rows[test[t].id].rev,
             rows'[test[t].id].connection = rows[test[t].id].connection,
             rows'[test[t].id].models[test[t].model].features = rows[test[t].id].models[test[t].model].features
      PROVE  Current(t)' \/ <<test'[t].id, test'[t].model>> \in edited'
  <2>1. PICK p \in Known : p = test[t].id
    BY <1>b DEF HasModel, Known, Tests
  <2>2. secrets'[p][rows[p].rev] = secrets[p][rows[p].rev]
    BY NamedKeyStays
  <2>3. Stored(p, rows[p].rev)' = Stored(p, rows[p].rev)
    BY <1>a, <1>b, <2>1, <2>2, BoundsAssumption DEF Stored
  <2>4. Current(t) \/ <<test[t].id, test[t].model>> \in edited
    BY <1>b DEF TestsCurrent
  <2> QED BY <1>b, <2>1, <2>3, <2>4 DEF Current, Stored
<1>1. CASE SaveRows
  <2>1. test' = test /\ edited' = edited \cup UnderTest(save.id)
    BY <1>1, SaveRowsDoes
  <2>2. test[t] \in Tests
    BY <2>1 DEF TypeOK, Idle
  <2>3. CASE test[t].id = save.id
    BY <2>1, <2>3 DEF UnderTest
  <2>4. CASE test[t].id # save.id
    <3>1. test[t].id \in Providers
      BY <2>2 DEF Tests
    <3>2. rows'[test[t].id] = rows[test[t].id] /\ HasModel(test[t].id, test[t].model)
      BY <1>1, <2>1, <2>4, <3>1, SaveRowsDoes DEF HasModel, StillThere
    <3> QED BY <1>b, <2>1, <2>2, <3>2
  <2> QED BY <2>3, <2>4
<1>2. ASSUME NEW q \in Providers, DeleteRows(q)
      PROVE  Current(t)' \/ <<test'[t].id, test'[t].model>> \in edited'
  <2>1. test' = test /\ edited' = edited /\ \A b \in Providers : rows'[b] = IF b = q THEN Absent ELSE rows[b]
    BY <1>2 DEF DeleteRows, history, TypeOK
  <2>2. test[t] \in Tests /\ test[t].id \in Providers
    BY <2>1 DEF TypeOK, Idle, Tests
  <2>3. rows'[test[t].id] = rows[test[t].id] /\ HasModel(test[t].id, test[t].model)
    BY <2>1, <2>2 DEF HasModel, StillThere
  <2> QED BY <1>b, <2>1, <2>2, <2>3
<1>3. ASSUME NEW u \in Testers, NEW from \in {"begun", "running"}, NEW status \in Statuses, NEW to,
             Mark(u, from, status, to), to = Idle \/ to = [test[u] EXCEPT !.pc = "running"]
      PROVE  Current(t)' \/ <<test'[t].id, test'[t].model>> \in edited'
  <2>1. /\ test[u] \in Tests /\ test' = [test EXCEPT ![u] = to] /\ edited' = edited
        /\ \A q \in Providers : rows'[q] = Absent <=> rows[q] = Absent
        /\ \A q \in Known :
             /\ rows'[q].connection = rows[q].connection /\ rows'[q].rev = rows[q].rev
             /\ DOMAIN rows'[q].models = DOMAIN rows[q].models
             /\ \A m \in DOMAIN rows[q].models : rows'[q].models[m].features = rows[q].models[m].features
    BY <1>3, MarkDoes
  <2>2. /\ test[t] \in Tests /\ test'[t].id = test[t].id /\ test'[t].model = test[t].model /\ test'[t].key = test[t].key
        /\ test'[t].connection = test[t].connection /\ test'[t].features = test[t].features
        /\ test[t].pc # "idle"
    <3>1. CASE t = u
      <4>1. test'[t] = to
        BY <2>1, <3>1 DEF TypeOK
      <4>2. to = [test[t] EXCEPT !.pc = "running"]
        BY <1>3, <3>1, <4>1 DEF Idle
      <4> QED BY <2>1, <3>1, <4>1, <4>2 DEF Tests
    <3>2. CASE t # u
      <4>1. test'[t] = test[t]
        BY <2>1, <3>2 DEF TypeOK
      <4> QED BY <4>1 DEF TypeOK, Idle
    <3> QED BY <3>1, <3>2
  <2>3. HasModel(test[t].id, test[t].model) /\ test[t].id \in Known
    BY <2>1, <2>2 DEF HasModel, StillThere, Tests, Known
  <2> QED BY <1>b, <2>1, <2>2, <2>3 DEF HasModel, StillThere
<1>4. ASSUME NEW u \in Testers, StartTest(u) \/ TestPasses(u) \/ TestFails(u)
      PROVE  Current(t)' \/ <<test'[t].id, test'[t].model>> \in edited'
  BY <1>3, <1>4 DEF StartTest, TestPasses, TestFails, Statuses
<1>5. ASSUME NEW u \in Testers, NEW p \in Providers, NEW m \in Models, BeginTest(u, p, m)
      PROVE  Current(t)' \/ <<test'[t].id, test'[t].model>> \in edited'
  <2>1. UNCHANGED <<rows, secrets, edited>>
    BY <1>5 DEF BeginTest, database, history
  <2>2. CASE t = u
    <3>1. test'[t] = [pc |-> "begun", id |-> p, model |-> m, connection |-> rows[p].connection,
                      key |-> Stored(p, rows[p].rev), features |-> rows[p].models[m].features]
      BY <1>5, <2>2 DEF BeginTest, TypeOK
    <3> QED BY <2>1, <3>1 DEF Current, Stored
  <2>3. CASE t # u
    <3>1. test'[t] = test[t] /\ test[t] \in Tests
      BY <1>5, <2>3 DEF BeginTest, TypeOK, Idle
    <3> QED BY <1>b, <2>1, <3>1 DEF HasModel, StillThere
  <2> QED BY <2>2, <2>3
<1>6. CASE UNCHANGED <<rows, edited>> /\ (test'[t] = test[t] \/ test'[t] = Idle)
  <2>1. test'[t] = test[t] /\ test[t] \in Tests
    BY <1>6 DEF TypeOK, Idle
  <2> QED BY <1>b, <1>6, <2>1 DEF HasModel, StillThere
<1>7. \/ SaveRows \/ (\E q \in Providers : DeleteRows(q))
      \/ (\E u \in Testers : StartTest(u) \/ TestPasses(u) \/ TestFails(u))
      \/ (\E u \in Testers, p \in Providers, m \in Models : BeginTest(u, p, m))
      \/ UNCHANGED <<rows, edited>> /\ (test'[t] = test[t] \/ test'[t] = Idle)
  BY DEF Next, vars, database, history, TypeOK, SaveNew, SaveEdited, BeginSave, SaveStep, KeepKey, PutKey, KeyMissing,
         SaveFails, DropOldKey, DropMergedKey, Saved, DropKey, ModelGone, MarkFails, Bind, Restart
<1> QED BY <1>1, <1>2, <1>4, <1>5, <1>6, <1>7

LEMMA VerifiedStep ==
  ASSUME TypeOK, KeyInv, TestsCurrent, VerifiedIsTestedUnlessEdited, [Next]_vars
  PROVE  VerifiedIsTestedUnlessEdited'
<1> SUFFICES ASSUME NEW p \in Providers, NEW m \in Models, IsVerified(p, m)'
             PROVE  Tested(p, m)' \/ <<p, m>> \in edited'
  BY DEF VerifiedIsTestedUnlessEdited
<1>a. \A q \in Known : /\ q \in Providers /\ rows[q].rev \in 1 .. MaxRev
                       /\ Stored(q, rows[q].rev) = secrets[q][rows[q].rev]
  BY RowFields, BoundsAssumption DEF Stored
<1>b. ASSUME p \in Known, rows'[p].rev = rows[p].rev
      PROVE  Stored(p, rows[p].rev)' = Stored(p, rows[p].rev)
  <2>1. secrets'[p][rows[p].rev] = secrets[p][rows[p].rev]
    BY <1>b, NamedKeyStays
  <2> QED BY <1>a, <1>b, <2>1, BoundsAssumption DEF Stored
\* The model stays verified, and its row what it was.
<1>c. ASSUME IsVerified(p, m), passed \subseteq passed', edited \subseteq edited',
             rows'[p].rev = rows[p].rev, rows'[p].connection = rows[p].connection,
             rows'[p].models[m].features = rows[p].models[m].features
      PROVE  Tested(p, m)' \/ <<p, m>> \in edited'
  <2>1. Tested(p, m) \/ <<p, m>> \in edited
    BY <1>c DEF VerifiedIsTestedUnlessEdited
  <2>2. Stored(p, rows[p].rev)' = Stored(p, rows[p].rev)
    BY <1>b, <1>c DEF IsVerified, HasModel, Known
  <2> QED BY <1>c, <2>1, <2>2 DEF Tested, Stored
<1>1. CASE SaveRows
  <2>1. passed' = passed /\ edited \subseteq edited'
    BY <1>1, SaveRowsDoes
  <2>2. CASE p = save.id
    <3>1. /\ m \in DOMAIN save.models /\ SavedStatus(p, m) = "verified"
          /\ rows'[p].connection = save.connection /\ rows'[p].rev = save.rev
          /\ rows'[p].models[m].features = save.models[m]
      BY <1>1, <2>2, SaveRowsDoes DEF IsVerified, HasModel
    <3>2. /\ IsVerified(p, m) /\ rows[p].connection = save.connection /\ rows[p].rev = save.rev
          /\ rows[p].models[m].features = save.models[m]
      BY <3>1 DEF SavedStatus, SameConnection, IsVerified, HasModel
    <3> QED BY <1>c, <2>1, <3>1, <3>2
  <2>3. CASE p # save.id
    <3>1. rows'[p] = rows[p] /\ IsVerified(p, m)
      BY <1>1, <2>3, SaveRowsDoes DEF IsVerified, HasModel
    <3> QED BY <1>c, <2>1, <3>1
  <2> QED BY <2>2, <2>3
<1>2. ASSUME NEW q \in Providers, DeleteRows(q)
      PROVE  Tested(p, m)' \/ <<p, m>> \in edited'
  <2>1. passed' = passed /\ edited' = edited /\ \A b \in Providers : rows'[b] = IF b = q THEN Absent ELSE rows[b]
    BY <1>2 DEF DeleteRows, history, TypeOK
  <2>2. rows'[p] = rows[p] /\ IsVerified(p, m)
    BY <2>1 DEF IsVerified, HasModel
  <2> QED BY <1>c, <2>1, <2>2
<1>3. ASSUME NEW u \in Testers, NEW from \in {"begun", "running"}, NEW status \in Statuses, NEW to,
             Mark(u, from, status, to), passed \subseteq passed',
             status = "verified" =>
               passed' = passed \cup {[key |-> test[u].key, connection |-> test[u].connection,
                                       model |-> test[u].model, features |-> test[u].features]}
      PROVE  Tested(p, m)' \/ <<p, m>> \in edited'
  <2>1. /\ test[u].pc = from /\ HasModel(test[u].id, test[u].model) /\ edited' = edited
        /\ \A q \in Providers : rows'[q] = Absent <=> rows[q] = Absent
        /\ \A q \in Known :
             /\ rows'[q].connection = rows[q].connection /\ rows'[q].rev = rows[q].rev
             /\ DOMAIN rows'[q].models = DOMAIN rows[q].models
             /\ \A n \in DOMAIN rows[q].models :
                  /\ rows'[q].models[n].features = rows[q].models[n].features
                  /\ rows'[q].models[n].status = IF q = test[u].id /\ n = test[u].model THEN status
                                                 ELSE rows[q].models[n].status
    BY <1>3, MarkDoes
  <2>2. p \in Known /\ m \in DOMAIN rows[p].models
    BY <2>1 DEF IsVerified, HasModel, Known
  <2>3. CASE p = test[u].id /\ m = test[u].model
    <3>1. status = "verified"
      BY <2>1, <2>2, <2>3 DEF IsVerified
    <3>2. Current(u) \/ <<p, m>> \in edited
      BY <2>1, <2>3 DEF TestsCurrent
    <3>3. Stored(p, rows[p].rev)' = Stored(p, rows[p].rev)
      BY <1>b, <2>1, <2>2
    <3>4. CASE Current(u)
      <4>1. [key |-> Stored(p, rows[p].rev), connection |-> rows[p].connection,
             model |-> m, features |-> rows[p].models[m].features] \in passed'
        BY <1>3, <2>3, <3>1, <3>4 DEF Current
      <4> QED BY <2>1, <2>2, <3>3, <4>1 DEF Tested, Stored
    <3> QED BY <2>1, <3>2, <3>4
  <2>4. CASE ~(p = test[u].id /\ m = test[u].model)
    <3>1. IsVerified(p, m)
      BY <2>1, <2>2, <2>4 DEF IsVerified, HasModel, Known
    <3> QED BY <1>3, <1>c, <2>1, <2>2, <3>1
  <2> QED BY <2>3, <2>4
<1>4. ASSUME NEW u \in Testers, StartTest(u) \/ TestPasses(u) \/ TestFails(u)
      PROVE  Tested(p, m)' \/ <<p, m>> \in edited'
  <2>1. CASE StartTest(u)
    BY <1>3, <2>1 DEF StartTest, Statuses
  <2>2. CASE TestPasses(u)
    BY <1>3, <2>2 DEF TestPasses, Statuses
  <2>3. CASE TestFails(u)
    BY <1>3, <2>3 DEF TestFails, Statuses
  <2> QED BY <1>4, <2>1, <2>2, <2>3
<1>5. CASE UNCHANGED <<rows, passed, edited>>
  <2>1. IsVerified(p, m)
    BY <1>5 DEF IsVerified, HasModel
  <2> QED BY <1>5, <1>c, <2>1
<1>6. \/ SaveRows \/ (\E q \in Providers : DeleteRows(q))
      \/ (\E u \in Testers : StartTest(u) \/ TestPasses(u) \/ TestFails(u))
      \/ UNCHANGED <<rows, passed, edited>>
  BY DEF Next, vars, database, history, SaveNew, SaveEdited, BeginSave, SaveStep, KeepKey, PutKey, KeyMissing,
         SaveFails, DropOldKey, DropMergedKey, Saved, DropKey, BeginTest, ModelGone, MarkFails, Bind, Restart
<1> QED BY <1>1, <1>2, <1>4, <1>5, <1>6

-----------------------------------------------------------------------------
(* What is shown as being verified *)

LEMMA VerifyingStep ==
  ASSUME TypeOK, FaultsCounted, VerifyingHasATest, [Next]_vars
  PROVE  VerifyingHasATest'
<1> DEFINE Runs(t, p, m) == test[t].pc = "running" /\ test[t].id = p /\ test[t].model = m
           Verifying(p, m) == HasModel(p, m) /\ rows[p].models[m].status = "verifying"
<1> SUFFICES ASSUME left'.fault = MaxFaults, NEW p \in Providers, NEW m \in Models, Verifying(p, m)'
             PROVE  \E t \in Testers : Runs(t, p, m)'
  BY DEF VerifyingHasATest
<1>0. left.fault = MaxFaults /\ ~Fault
  BY FaultsStep
<1>1. Verifying(p, m) => \E t \in Testers : Runs(t, p, m)
  BY <1>0 DEF VerifyingHasATest
<1>2. CASE SaveRows
  <2>1. test' = test
    BY <1>2, SaveRowsDoes
  <2>2. CASE p = save.id
    <3>1. m \in DOMAIN save.models /\ SavedStatus(p, m) = "verifying"
      BY <1>2, <2>2, SaveRowsDoes DEF HasModel
    <3>2. Verifying(p, m)
      BY <3>1 DEF SavedStatus, HasModel
    <3> QED BY <1>1, <2>1, <3>2
  <2>3. CASE p # save.id
    <3>1. Verifying(p, m)
      BY <1>2, <2>3, SaveRowsDoes DEF HasModel
    <3> QED BY <1>1, <2>1, <3>1
  <2> QED BY <2>2, <2>3
<1>3. ASSUME NEW q \in Providers, DeleteRows(q)
      PROVE  \E t \in Testers : Runs(t, p, m)'
  <2>1. test' = test /\ \A b \in Providers : rows'[b] = IF b = q THEN Absent ELSE rows[b]
    BY <1>3 DEF DeleteRows, TypeOK
  <2>2. Verifying(p, m)
    BY <2>1 DEF HasModel
  <2> QED BY <1>1, <2>1, <2>2
<1>4. ASSUME NEW u \in Testers, NEW from \in {"begun", "running"}, NEW status \in Statuses, NEW to,
             Mark(u, from, status, to),
             (from = "begun" /\ status = "verifying" /\ to = [test[u] EXCEPT !.pc = "running"])
               \/ (from = "running" /\ status # "verifying")
      PROVE  \E t \in Testers : Runs(t, p, m)'
  <2>1. /\ test[u] \in Tests /\ test[u].pc = from /\ test' = [test EXCEPT ![u] = to]
        /\ \A q \in Providers : rows'[q] = Absent <=> rows[q] = Absent
        /\ \A q \in Known :
             /\ DOMAIN rows'[q].models = DOMAIN rows[q].models
             /\ \A n \in DOMAIN rows[q].models :
                  rows'[q].models[n].status = IF q = test[u].id /\ n = test[u].model THEN status
                                              ELSE rows[q].models[n].status
    BY <1>4, MarkDoes
  <2>2. p \in Known /\ m \in DOMAIN rows[p].models
    BY <2>1 DEF HasModel, Known
  <2>3. CASE p = test[u].id /\ m = test[u].model
    <3>1. to = [test[u] EXCEPT !.pc = "running"]
      BY <1>4, <2>1, <2>2, <2>3
    <3>2. test'[u] = to
      BY <2>1 DEF TypeOK
    <3>3. Runs(u, p, m)'
      BY <2>1, <2>3, <3>1, <3>2 DEF Tests
    <3> QED BY <3>3
  <2>4. CASE ~(p = test[u].id /\ m = test[u].model)
    <3>1. Verifying(p, m)
      BY <2>1, <2>2, <2>4 DEF HasModel, Known
    <3>2. PICK t \in Testers : Runs(t, p, m)
      BY <1>1, <3>1
    <3>3. test'[t] = test[t]
      BY <2>1, <2>4, <3>2 DEF TypeOK
    <3>4. Runs(t, p, m)'
      BY <3>2, <3>3
    <3> QED BY <3>4
  <2> QED BY <2>3, <2>4
<1>5. ASSUME NEW u \in Testers, StartTest(u) \/ TestPasses(u) \/ TestFails(u)
      PROVE  \E t \in Testers : Runs(t, p, m)'
  <2> HIDE DEF Runs
  <2>1. CASE StartTest(u)
    BY <1>4, <2>1 DEF StartTest, Statuses
  <2>2. CASE TestPasses(u)
    BY <1>4, <2>2 DEF TestPasses, Statuses
  <2>3. CASE TestFails(u)
    BY <1>4, <2>3 DEF TestFails, Statuses
  <2> QED BY <1>5, <2>1, <2>2, <2>3
\* A test that begins or ends without a mark is not running or not of (p, m).
<1>6. ASSUME NEW u \in Testers, ModelGone(u) \/ \E q \in Providers, n \in Models : BeginTest(u, q, n)
      PROVE  \E t \in Testers : Runs(t, p, m)'
  <2>1. rows' = rows /\ \A t \in Testers : t # u => test'[t] = test[t]
    BY <1>6 DEF ModelGone, BeginTest, database, TypeOK
  <2>2. Verifying(p, m)
    BY <2>1 DEF HasModel
  <2>3. PICK t \in Testers : Runs(t, p, m)
    BY <1>1, <2>2
  <2>4. t # u
    BY <1>6, <2>2, <2>3 DEF ModelGone, BeginTest
  <2>5. Runs(t, p, m)'
    BY <2>1, <2>3, <2>4
  <2> QED BY <2>5
<1>7. CASE UNCHANGED <<rows, test>>
  BY <1>1, <1>7 DEF HasModel
<1>8. \/ SaveRows \/ (\E q \in Providers : DeleteRows(q))
      \/ (\E u \in Testers : StartTest(u) \/ TestPasses(u) \/ TestFails(u))
      \/ (\E u \in Testers : ModelGone(u) \/ \E q \in Providers, n \in Models : BeginTest(u, q, n))
      \/ UNCHANGED <<rows, test>> \/ Fault
  BY DEF Next, vars, database, SaveNew, SaveEdited, BeginSave, SaveStep, KeepKey, PutKey, KeyMissing,
         SaveFails, DropOldKey, DropMergedKey, Saved, DropKey, MarkFails, Bind, Restart
<1> QED BY <1>0, <1>2, <1>3, <1>5, <1>6, <1>7, <1>8

-----------------------------------------------------------------------------
(* Theorems *)

LEMMA CatalogInvariant == Spec => [](TypeOK /\ KeyInv)
<1>1. Init => TypeOK /\ KeyInv
  BY TypeInit, KeyInit
<1>2. TypeOK /\ KeyInv /\ [Next]_vars => (TypeOK /\ KeyInv)'
  BY TypeNext, KeyNext
<1> QED BY <1>1, <1>2, PTL DEF Spec

\* Rows, keys, bindings and calls in flight keep their types through every save,
\* merge, deletion, test and restart.
THEOREM CatalogTypeCorrect == Spec => []TypeOK
BY CatalogInvariant, PTL

\* However saves, merges, deletions and tests follow each other, and wherever
\* one of them fails or the program stops, the key that a saved provider names
\* is in the secret store.
THEOREM EveryProviderHasItsKey == Spec => []KeyOfEveryProvider
<1>1. TypeOK /\ KeyInv => KeyOfEveryProvider
  BY DEF KeyInv
<1> QED BY <1>1, CatalogInvariant, PTL

\* Merging providers of the same identity keeps every model of the merged rows
\* and moves every agent bound to one of them to the row that is kept, although
\* tests go on while the save puts its key.
THEOREM MergeLosesNothing == Spec => MergeKeepsModels
<1> DEFINE Inv == TypeOK /\ KeyInv /\ NothingToLose
           Keeps == \A p \in Providers : SaveRows /\ p \in save.duplicates =>
                      /\ DOMAIN rows[p].models \subseteq DOMAIN rows'[save.id].models
                      /\ \A a \in Agents : binding[a] = p => binding'[a] = save.id
<1>1. Init => Inv
  BY TypeInit, KeyInit DEF Init, Idle, NothingToLose
<1>2. Inv /\ [Next]_vars => Inv'
  BY TypeNext, KeyNext, MergeNext
<1>3. Inv => Keeps
  BY MergeStep
<1> HIDE DEF Inv, Keeps
<1>4. Spec => []Inv
  BY <1>1, <1>2, PTL DEF Spec
<1>5. Spec => [][Keeps]_vars
  BY <1>3, <1>4, PTL DEF Spec
<1> QED BY <1>5 DEF MergeKeepsModels, Keeps

\* If nothing fails, no key of a provider is left in the secret store once the
\* save or deletion that replaced, merged or deleted its row has ended: every
\* stored key is the one its provider's row names.
THEOREM NoKeyOutlivesItsProvider == Spec => []NoKeyIsLeftBehind
<1> DEFINE Inv == TypeOK /\ KeyInv /\ FaultsCounted /\ RevsNamed /\ KeysAccounted
<1>1. Init => Inv
  BY TypeInit, KeyInit, BoundsAssumption DEF Init, Idle, FaultsCounted, RevsNamed, KeysAccounted
<1>2. Inv /\ [Next]_vars => Inv'
  BY TypeNext, KeyNext, FaultsStep, RevsStep, KeysStep
<1>3. Inv => NoKeyIsLeftBehind
  BY DEF NoKeyIsLeftBehind, KeysAccounted, Accounted
<1> HIDE DEF Inv
<1> QED BY <1>1, <1>2, <1>3, PTL DEF Spec

\* A model that is shown as verified has passed a test with the key, at the
\* endpoint and with the features that its provider's row has now, however many
\* tests, saves, merges and deletions overlap, unless its own provider was saved
\* while a test of it was under way.
THEOREM VerifiedHasPassed == Spec => []VerifiedIsTestedUnlessEdited
<1> DEFINE Inv == TypeOK /\ KeyInv /\ TestsCurrent /\ VerifiedIsTestedUnlessEdited
<1>1. Init => Inv
  <2>1. Init => TestsCurrent /\ VerifiedIsTestedUnlessEdited
    BY DEF Init, Idle, TestsCurrent, VerifiedIsTestedUnlessEdited, IsVerified, HasModel
  <2> QED BY <2>1, TypeInit, KeyInit
<1>2. Inv /\ [Next]_vars => Inv'
  BY TypeNext, KeyNext, TestsStep, VerifiedStep
<1>3. Inv => VerifiedIsTestedUnlessEdited
  OBVIOUS
<1> HIDE DEF Inv
<1> QED BY <1>1, <1>2, <1>3, PTL DEF Spec

\* If nothing fails, a model is shown as being verified only while a test of it
\* runs: a test that ends takes the mark away, a save does not carry it to a
\* model that had none, and a deleted model has none.
THEOREM VerifyingIsTesting == Spec => []VerifyingHasATest
<1> DEFINE Inv == TypeOK /\ KeyInv /\ FaultsCounted /\ VerifyingHasATest
<1>1. Init => Inv
  <2>1. Init => FaultsCounted /\ VerifyingHasATest
    BY BoundsAssumption DEF Init, FaultsCounted, VerifyingHasATest, HasModel
  <2> QED BY <2>1, TypeInit, KeyInit
<1>2. Inv /\ [Next]_vars => Inv'
  BY TypeNext, KeyNext, FaultsStep, VerifyingStep
<1>3. Inv => VerifyingHasATest
  OBVIOUS
<1> HIDE DEF Inv
<1> QED BY <1>1, <1>2, <1>3, PTL DEF Spec
=============================================================================
