---------------------- MODULE ConfigTransaction_proofs ----------------------
(* Theorems about ConfigTransaction, for every value of its constants. *)
EXTENDS ConfigTransaction, SequenceTheorems, WellFoundedInduction, TLAPS

-----------------------------------------------------------------------------
(* The invariants *)

Names == {Legacy, Operation} \cup {Scoped(p) : p \in Paths}
Backups ==
  [agent : Agents, name : Names, path : Paths, content : Contents,
   key : Keys \cup {NoKey}, complete : BOOLEAN]
Locations ==
  {"idle", "baseline", "snapshot", "key", "put", "create", "fill", "verify", "read",
   "write", "check", "applied"}

FilesOK == files \in [Agents -> UNION {[P -> Contents] : P \in SUBSET Paths}]
ArchiveOK == archive \in Seq(Backups)
KeysOK ==
  /\ keychain \in Keys \cup {NoKey}
  /\ cache \in Keys \cup {NoKey, Unloaded}
  /\ fresh \subseteq Keys
LeftOK == left \in [read : Nat, write : Nat, crash : Nat, calm : BOOLEAN]

\* What a call knows where it is: a file, a key to write with, a backup of its
\* own, something to write.
CallOK(c) ==
  /\ pc[c] \in Locations
  /\ pc[c] = "idle" <=> op[c] = Absent
  /\ pc[c] # "idle" =>
       /\ op[c] \in Calls
       /\ op[c].path \in DOMAIN files[op[c].agent]
  /\ pc[c] \in {"put", "create", "fill", "verify"} => op[c].key \in Keys
  /\ pc[c] \in {"fill", "verify", "write", "check", "applied"} =>
       /\ op[c].slot \in DOMAIN archive
       /\ archive[op[c].slot].agent = op[c].agent
       /\ archive[op[c].slot].path = op[c].path
       /\ archive[op[c].slot].name = op[c].name
       /\ archive[op[c].slot].content = op[c].content
  /\ pc[c] \in {"fill", "verify"} => archive[op[c].slot].key = op[c].key
  /\ pc[c] \in {"write", "check", "applied"} => op[c].name = Operation
  /\ pc[c] = "snapshot" => op[c].name # Operation

CallsOK ==
  /\ DOMAIN pc \subseteq Callers
  /\ pc = [c \in DOMAIN pc |-> pc[c]] /\ op = [c \in DOMAIN pc |-> op[c]]
  /\ \A c \in DOMAIN pc : CallOK(c)

TypeInv == FilesOK /\ ArchiveOK /\ KeysOK /\ LeftOK /\ CallsOK

\* Whether there is a baseline for this path, readable or not.
HasBaseline(a, p) ==
  \E i \in DOMAIN archive :
    archive[i].agent = a /\ archive[i].path = p /\ archive[i].name # Operation

\* An agent has one legacy baseline, and one for each path it moved to after.
OtherLegacy(a, p) == \E i \in Named(a, Legacy) : archive[i].path # p

\* The name a call has found for its next backup.
NameFound(c) ==
  pc[c] # "idle" =>
    /\ op[c].name \in {Operation, Legacy, Scoped(op[c].path)}
    /\ op[c].name = Scoped(op[c].path) => OtherLegacy(op[c].agent, op[c].path)

NamesInv ==
  /\ \A i \in DOMAIN archive :
       /\ archive[i].name \in {Operation, Legacy, Scoped(archive[i].path)}
       /\ archive[i].name = Scoped(archive[i].path) => OtherLegacy(archive[i].agent, archive[i].path)
       /\ \A j \in DOMAIN archive :
            /\ archive[i].name # Operation /\ archive[i].name = archive[j].name
            /\ archive[i].agent = archive[j].agent
            => i = j
  /\ \A c \in DOMAIN pc : NameFound(c)

\* The call is past baseline().
PastBaseline(c) ==
  \/ pc[c] \in {"read", "write", "check", "applied"}
  \/ pc[c] \in {"key", "put", "create", "fill", "verify"} /\ op[c].name = Operation

SteadyCall(c) ==
  /\ pc[c] # "put"
  /\ pc[c] \in {"create", "fill", "verify"} => op[c].key = keychain

\* The backup key is there to stay: no read fails and no key is generated.
Steady ==
  /\ left.read = 0
  /\ keychain \in Keys
  /\ cache \in {Unloaded, keychain}
  /\ \A c \in DOMAIN pc : SteadyCall(c)

\* A backup that baseline() can take the original content from.
OldNative(i, a, p) ==
  /\ archive[i].agent = a /\ archive[i].path = p /\ archive[i].name = Operation
  /\ archive[i].content \notin Managed /\ archive[i].complete /\ archive[i].key = keychain

At(i, a, p) == archive[i].agent = a /\ archive[i].path = p
Handles(c, a, p) == op[c].agent = a /\ op[c].path = p

\* What is managed at this path, in the file or in the n-th backup, has a
\* baseline or an older backup of native content.
FileHasOrigin(a, p) ==
  \/ HasBaseline(a, p)
  \/ Steady /\ \E i \in DOMAIN archive : OldNative(i, a, p)
BackupHasOrigin(n, a, p) ==
  \/ HasBaseline(a, p)
  \/ Steady /\ \E i \in DOMAIN archive : i < n /\ OldNative(i, a, p)

CallHasBaseline(c, a, p) ==
  pc[c] # "idle" /\ Handles(c, a, p) =>
    /\ PastBaseline(c) => HasBaseline(a, p)
    /\ pc[c] \in {"key", "put", "create"} /\ op[c].content \in Managed => HasBaseline(a, p)

OriginInv ==
  /\ \A i \in DOMAIN archive : archive[i].content \in Managed => archive[i].name = Operation
  /\ \A i \in DOMAIN archive, a \in Agents, p \in Paths :
       At(i, a, p) /\ archive[i].content \in Managed => BackupHasOrigin(i, a, p)
  /\ \A a \in Agents : \A p \in DOMAIN files[a] : files[a][p] \in Managed => FileHasOrigin(a, p)
  /\ \A c \in DOMAIN pc, a \in Agents, p \in Paths : CallHasBaseline(c, a, p)

\* Calm histories: the one caller, the store, the cache and the archive agree on the key.
CalmStore ==
  /\ left.read = 0 /\ left.write = 0
  /\ cache \in {Unloaded, keychain}
  /\ ~Vault => cache = Unloaded

CalmArchive ==
  /\ archive # <<>> => keychain \in Keys
  /\ \A i \in DOMAIN archive : archive[i].key = keychain

CalmCall(c) ==
  /\ pc[c] = "put" => archive = <<>>
  /\ pc[c] \in {"create", "fill", "verify"} => op[c].key = keychain
  /\ pc[c] \in {"write", "check", "applied"} => archive[op[c].slot].complete

CalmKeys ==
  /\ CalmStore /\ CalmArchive
  /\ \A c, d \in DOMAIN pc : c = d
  /\ \A c \in DOMAIN pc : CalmCall(c)

\* The baseline of a path can be read, and the legacy one before it.
Readable(a, p) ==
  /\ HasBaseline(a, p)
  /\ \A i \in DOMAIN archive :
       archive[i].agent = a /\ archive[i].name \in {Legacy, Scoped(p)} => archive[i].complete

LegacyReadable(a) == \A i \in Named(a, Legacy) : archive[i].complete

CalmBaseline(c, a, p) ==
  pc[c] # "idle" /\ Handles(c, a, p) =>
    /\ PastBaseline(c) => Readable(a, p)
    /\ op[c].name = Scoped(p) => LegacyReadable(a)

CalmBaselines ==
  /\ \A a \in Agents : \A p \in DOMAIN files[a] : files[a][p] \in Managed => Readable(a, p)
  /\ \A c \in DOMAIN pc, a \in Agents, p \in Paths : CalmBaseline(c, a, p)

CalmInv == left.calm => CalmKeys /\ CalmBaselines

OnlyCalmReads == \A h \in Histories : h.inherited # <<>> => h.read = 0

-----------------------------------------------------------------------------
(* Types *)

LEMMA TypeInvIsTypeOK == TypeInv => TypeOK
<1> SUFFICES ASSUME TypeInv PROVE TypeOK
  OBVIOUS
<1>1. /\ pc \in [DOMAIN pc -> Locations] /\ op \in [DOMAIN pc -> Calls \cup {Absent}]
      /\ \A c \in DOMAIN pc : pc[c] = "idle" <=> op[c] = Absent
  BY DEF TypeInv, CallsOK, CallOK
<1>2. archive \in Seq(Backups) /\ DOMAIN pc \subseteq Callers
  BY DEF TypeInv, ArchiveOK, CallsOK
<1> QED
  BY <1>1, <1>2 DEF TypeInv, TypeOK, FilesOK, KeysOK, LeftOK, Backups, Names, Locations

\* Every set of numbers that is not empty has a smallest member, which is what
\* Earliest chooses.
LEMMA HasEarliest == ASSUME NEW S \in SUBSET Nat, S # {} PROVE \E i \in S : \A j \in S : i <= j
<1>1. IsWellFoundedOn(OpToRel(<, Nat), Nat)
  BY NatLessThanWellFounded, Zenon
<1>2. PICK i \in S : \A j \in S : ~(<<j, i>> \in OpToRel(<, Nat))
  BY <1>1, WFMin, Zenon
<1>3. \A j \in S : ~(j < i)
  BY <1>2 DEF OpToRel
<1> QED BY <1>3

LEMMA ArchiveFacts ==
  ASSUME ArchiveOK
  PROVE  /\ Len(archive) \in Nat /\ DOMAIN archive = 1 .. Len(archive)
         /\ \A i \in DOMAIN archive : archive[i] \in Backups
<1> USE DEF ArchiveOK
<1>1. Len(archive) \in Nat /\ DOMAIN archive = 1 .. Len(archive)
  BY LenProperties
<1>2. \A i \in 1 .. Len(archive) : archive[i] \in Backups
  BY ElementOfSeq
<1> QED BY <1>1, <1>2

LEMMA EarliestIsMember ==
  ASSUME ArchiveOK, NEW S \in SUBSET DOMAIN archive, S # {}
  PROVE  Earliest(S) \in S /\ \A j \in S : Earliest(S) <= j
<1>1. S \subseteq Nat
  BY ArchiveFacts
<1> QED BY <1>1, HasEarliest DEF Earliest

LEMMA FilesFacts ==
  ASSUME FilesOK, NEW a \in Agents
  PROVE  DOMAIN files[a] \subseteq Paths /\ files[a] \in [DOMAIN files[a] -> Contents]
<1>1. PICK P \in SUBSET Paths : files[a] \in [P -> Contents]
  BY DEF FilesOK
<1> QED BY <1>1

\* A call writes one file.
LEMMA SetFileOK ==
  ASSUME FilesOK, NEW a \in Agents, NEW p \in DOMAIN files[a], NEW content \in Contents,
         files' = [files EXCEPT ![a][p] = content]
  PROVE  /\ FilesOK'
         /\ \A b \in Agents : /\ DOMAIN files'[b] = DOMAIN files[b]
                              /\ \A q \in DOMAIN files[b] :
                                   files'[b][q] = IF b = a /\ q = p THEN content ELSE files[b][q]
<1>1. files' = [files EXCEPT ![a] = [files[a] EXCEPT ![p] = content]]
  OBVIOUS
<1>2. PICK P \in SUBSET Paths : files[a] \in [P -> Contents]
  BY DEF FilesOK
<1>3. [files[a] EXCEPT ![p] = content] \in [P -> Contents]
  BY <1>2
<1>4. FilesOK'
  BY <1>1, <1>3 DEF FilesOK
<1>5. \A b \in Agents : files'[b] = IF b = a THEN [files[a] EXCEPT ![p] = content] ELSE files[b]
  BY <1>1 DEF FilesOK
<1> QED BY <1>2, <1>4, <1>5

\* A backup file is never removed or changed; at most it gets complete.
Grows ==
  /\ DOMAIN archive \subseteq DOMAIN archive'
  /\ Len(archive) \in Nat /\ Len(archive') \in Nat /\ Len(archive) <= Len(archive')
  /\ \A i \in DOMAIN archive :
       /\ archive'[i].agent = archive[i].agent /\ archive'[i].name = archive[i].name
       /\ archive'[i].path = archive[i].path /\ archive'[i].content = archive[i].content
       /\ archive'[i].key = archive[i].key
       /\ archive[i].complete => archive'[i].complete

LEMMA Unchanged == ASSUME ArchiveOK, archive' = archive PROVE ArchiveOK' /\ Grows
BY ArchiveFacts DEF ArchiveOK, Grows

LEMMA Appended ==
  ASSUME ArchiveOK, NEW b \in Backups, archive' = Append(archive, b)
  PROVE  /\ ArchiveOK' /\ Grows
         /\ Len(archive') = Len(archive) + 1 /\ DOMAIN archive' = 1 .. Len(archive) + 1
         /\ \A i \in DOMAIN archive : archive'[i] = archive[i]
         /\ archive'[Len(archive) + 1] = b
<1>1. /\ ArchiveOK' /\ Len(archive') = Len(archive) + 1 /\ Len(archive) \in Nat
      /\ \A i \in 1 .. Len(archive) : archive'[i] = archive[i]
      /\ archive'[Len(archive) + 1] = b
  BY AppendProperties, LenProperties DEF ArchiveOK
<1>2. DOMAIN archive' = 1 .. Len(archive) + 1 /\ DOMAIN archive = 1 .. Len(archive)
  BY <1>1, LenProperties DEF ArchiveOK
<1> QED BY <1>1, <1>2 DEF Grows

LEMMA Completed ==
  ASSUME ArchiveOK, NEW s \in DOMAIN archive, archive' = [archive EXCEPT ![s].complete = TRUE]
  PROVE  /\ ArchiveOK' /\ Grows
         /\ Len(archive') = Len(archive) /\ DOMAIN archive' = DOMAIN archive
         /\ \A i \in DOMAIN archive :
              archive'[i] = IF i = s THEN [archive[s] EXCEPT !.complete = TRUE] ELSE archive[i]
<1> DEFINE b == [archive[s] EXCEPT !.complete = TRUE]
<1>1. archive[s] \in Backups /\ Len(archive) \in Nat /\ DOMAIN archive = 1 .. Len(archive)
  BY ArchiveFacts
<1>2. b \in Backups /\ b.complete
  BY <1>1 DEF Backups
<1>3. archive' = [archive EXCEPT ![s] = b]
  OBVIOUS
<1> HIDE DEF b
<1>4. /\ archive' \in Seq(Backups) /\ Len(archive') = Len(archive)
      /\ \A i \in 1 .. Len(archive) : archive'[i] = IF i = s THEN b ELSE archive[i]
  <2>1. archive \in [1 .. Len(archive) -> Backups]
    BY <1>1, LenProperties DEF ArchiveOK
  <2>2. /\ archive' \in [1 .. Len(archive) -> Backups]
        /\ \A i \in 1 .. Len(archive) : archive'[i] = IF i = s THEN b ELSE archive[i]
    BY <1>1, <1>2, <1>3, <2>1
  <2>3. archive' \in Seq(Backups)
    BY <1>1, <2>2, SeqDef
  <2>4. Len(archive') \in Nat /\ 1 .. Len(archive') = 1 .. Len(archive)
    BY <2>2, <2>3, LenProperties
  <2>5. Len(archive') = Len(archive)
    BY <1>1, <2>4
  <2> QED BY <2>2, <2>3, <2>5
<1>5. DOMAIN archive' = 1 .. Len(archive)
  BY <1>1, <1>4, LenProperties
<1>6. ArchiveOK'
  BY <1>4 DEF ArchiveOK
<1> USE DEF b
<1>7. Grows
  BY <1>1, <1>4, <1>5 DEF Grows, Backups
<1> QED BY <1>1, <1>4, <1>5, <1>6, <1>7

LEMMA GetOK ==
  ASSUME KeysOK, LeftOK, NEW k, Get(k)
  PROVE  /\ cache' \in Keys \cup {NoKey, Unloaded} /\ LeftOK'
         /\ left'.calm = left.calm /\ left'.write = left.write
         /\ left.read = 0 => left' = left
BY DEF KeysOK, LeftOK, Get, LiveKey, Cached

\* One call moves.
LEMMA CallsMove ==
  ASSUME CallsOK, Grows, NEW c \in DOMAIN pc,
         pc' = [pc EXCEPT ![c] = pc'[c]], op' = [op EXCEPT ![c] = op'[c]],
         \A a \in Agents : DOMAIN files'[a] = DOMAIN files[a],
         CallOK(c)'
  PROVE  CallsOK'
<1>1. DOMAIN pc' = DOMAIN pc
  OBVIOUS
<1>2. ASSUME NEW d \in DOMAIN pc, d # c
      PROVE  CallOK(d)'
  <2>1. pc'[d] = pc[d] /\ op'[d] = op[d] /\ CallOK(d)
    BY <1>2 DEF CallsOK
  <2> QED BY <2>1 DEF CallOK, Grows, Calls
<1>3. op' = [d \in DOMAIN pc |-> op'[d]]
  BY DEF CallsOK
<1> QED BY <1>1, <1>2, <1>3 DEF CallsOK

LEMMA GrowsStill == 
  ASSUME CallsOK, Grows, UNCHANGED <<pc, op>>,
         \A a \in Agents : DOMAIN files'[a] = DOMAIN files[a]
  PROVE  CallsOK'
<1>1. ASSUME NEW d \in DOMAIN pc
      PROVE  CallOK(d)'
  <2>1. CallOK(d)
    BY DEF CallsOK
  <2> QED BY <2>1 DEF CallOK, Grows, Calls
<1> QED BY <1>1 DEF CallsOK

\* What moving means, for the caller that moves.
LEMMA GotoOK ==
  ASSUME CallsOK, NEW c \in DOMAIN pc, NEW from, NEW to, Goto(c, from, to)
  PROVE  /\ pc[c] = from /\ pc'[c] = to /\ pc' = [pc EXCEPT ![c] = pc'[c]]
         /\ DOMAIN pc' = DOMAIN pc /\ CallOK(c)
         /\ \A d \in DOMAIN pc : d # c => pc'[d] = pc[d]
         /\ from # "idle" => /\ op[c] \in Calls /\ op[c].agent \in Agents
                             /\ op[c].path \in DOMAIN files[op[c].agent]
BY DEF CallsOK, CallOK, Goto, Calls

LEMMA ReturnOK ==
  ASSUME CallsOK, Grows, NEW c \in DOMAIN pc, NEW from, Return(c, from),
         \A a \in Agents : DOMAIN files'[a] = DOMAIN files[a]
  PROVE  /\ CallsOK' /\ pc[c] = from /\ pc'[c] = "idle" /\ DOMAIN pc' = DOMAIN pc
         /\ \A d \in DOMAIN pc : d # c => pc'[d] = pc[d] /\ op'[d] = op[d]
<1>1. /\ pc[c] = from /\ pc'[c] = "idle" /\ pc' = [pc EXCEPT ![c] = pc'[c]] /\ DOMAIN pc' = DOMAIN pc
      /\ \A d \in DOMAIN pc : d # c => pc'[d] = pc[d]
  BY GotoOK DEF Return
<1>2. /\ op' = [op EXCEPT ![c] = op'[c]] /\ op'[c] = Absent
      /\ \A d \in DOMAIN pc : d # c => op'[d] = op[d]
  BY DEF Return, CallsOK
<1>3. CallOK(c)'
  BY <1>1, <1>2 DEF CallOK, Locations
<1> QED BY <1>1, <1>2, <1>3, CallsMove

\* A call that goes on with its locals as they are.
LEMMA GoesOn ==
  ASSUME CallsOK, Grows, NEW c \in DOMAIN pc, NEW from, NEW to, Goto(c, from, to), op' = op,
         \A a \in Agents : DOMAIN files'[a] = DOMAIN files[a],
         CallOK(c)'
  PROVE  CallsOK'
BY GotoOK, CallsMove DEF CallsOK

\* A call that goes on with other locals.
LEMMA GoesOnWith ==
  ASSUME CallsOK, Grows, NEW c \in DOMAIN pc, NEW from, NEW to, Goto(c, from, to),
         NEW new, op' = [op EXCEPT ![c] = new],
         \A a \in Agents : DOMAIN files'[a] = DOMAIN files[a],
         op'[c] = new => CallOK(c)'
  PROVE  CallsOK' /\ op'[c] = new /\ \A d \in DOMAIN pc : d # c => op'[d] = op[d]
<1>1. op'[c] = new /\ op' = [op EXCEPT ![c] = op'[c]] /\ \A d \in DOMAIN pc : d # c => op'[d] = op[d]
  BY DEF CallsOK
<1> QED BY <1>1, GotoOK, CallsMove

LEMMA WithTargetOK ==
  ASSUME ArchiveOK, CallsOK, NEW c \in DOMAIN pc, pc[c] # "idle", NEW i \in DOMAIN archive
  PROVE  /\ WithTarget(c, i) \in Calls
         /\ WithTarget(c, i).agent = op[c].agent /\ WithTarget(c, i).path = op[c].path
         /\ WithTarget(c, i).name = op[c].name
<1>1. archive[i].content \in Contents
  BY ArchiveFacts DEF Backups
<1>2. op[c] \in Calls
  BY DEF CallsOK, CallOK
<1> QED BY <1>1, <1>2 DEF WithTarget, Calls

LEMMA TypeInvStep ==
  ASSUME TypeInv, [Next]_vars
  PROVE  TypeInv' /\ Grows
<1> USE DEF TypeInv
<1>a. ASSUME archive' = archive
      PROVE  ArchiveOK' /\ Grows
  BY <1>a, Unchanged
<1>f. ASSUME files' = files
      PROVE  FilesOK' /\ \A a \in Agents : DOMAIN files'[a] = DOMAIN files[a]
  BY <1>f DEF FilesOK
<1>k. ASSUME UNCHANGED <<keychain, cache, fresh>> PROVE KeysOK'
  BY <1>k DEF KeysOK
<1>l. ASSUME UNCHANGED left PROVE LeftOK'
  BY <1>l DEF LeftOK
<1>g. ASSUME NEW k, Get(k), UNCHANGED <<keychain, fresh>> PROVE KeysOK' /\ LeftOK'
  BY <1>g, GetOK DEF KeysOK
<1>n. Legacy # Operation /\ \A p : Scoped(p) # Operation /\ Scoped(p) # Legacy
  BY DEF Legacy, Operation, Scoped
<1>1. ASSUME NEW c \in DOMAIN pc, FindBaseline(c)
      PROVE  TypeInv' /\ Grows
  <2>1. PICK k \in Keys \cup {NoKey}, i \in Named(op[c].agent, BaselineName(op[c].agent, op[c].path)) :
          Goto(c, "baseline", "read") /\ Get(k) /\ op' = [op EXCEPT ![c] = WithTarget(c, i)]
    BY <1>1 DEF FindBaseline
  <2>2. i \in DOMAIN archive /\ UNCHANGED <<files, archive, keychain, fresh>>
    BY <1>1 DEF FindBaseline, Named
  <2>3. pc[c] = "baseline" /\ pc'[c] = "read" /\ op[c].path \in DOMAIN files[op[c].agent]
    BY <2>1, GotoOK
  <2>4. op'[c] = WithTarget(c, i) => CallOK(c)'
    BY <2>2, <2>3, WithTargetOK, IdleAssumption DEF CallOK, Locations
  <2>5. CallsOK'
    BY <1>a, <1>f, <2>1, <2>2, <2>4, GoesOnWith
  <2> QED BY <1>a, <1>f, <1>g, <2>1, <2>2, <2>5
<1>2. ASSUME NEW c \in DOMAIN pc, BaselineUnreadable(c) \/ BackupNotVerified(c)
      PROVE  TypeInv' /\ Grows
  <2>1. \E k, from : Return(c, from) /\ Get(k) /\ UNCHANGED <<files, archive, keychain, fresh>>
    BY <1>2 DEF BaselineUnreadable, BackupNotVerified
  <2> QED BY <1>a, <1>f, <1>g, <2>1, ReturnOK
<1>3. ASSUME NEW c \in DOMAIN pc, BaselineMissing(c)
      PROVE  TypeInv' /\ Grows
  <2> DEFINE name == BaselineName(op[c].agent, op[c].path)
             new == [op[c] EXCEPT !.name = name]
  <2>1. /\ Goto(c, "baseline", "snapshot") /\ op' = [op EXCEPT ![c] = new]
        /\ UNCHANGED <<files, archive, keychain, fresh>>
    BY <1>3 DEF BaselineMissing
  <2>2. /\ pc[c] = "baseline" /\ pc'[c] = "snapshot" /\ op[c] \in Calls /\ op[c].agent \in Agents
        /\ op[c].path \in DOMAIN files[op[c].agent] /\ op[c].path \in Paths
    BY <2>1, GotoOK DEF Calls
  <2>3. name \in {Legacy} \cup {Scoped(p) : p \in Paths}
    BY <2>2 DEF BaselineName
  <2>4. new \in Calls /\ new.agent = op[c].agent /\ new.path = op[c].path /\ new.name # Operation
    BY <1>n, <2>2, <2>3 DEF Calls
  <2> HIDE DEF new
  <2>5. op'[c] = new => CallOK(c)'
    BY <2>1, <2>2, <2>4, IdleAssumption DEF CallOK, Locations
  <2>6. CallsOK'
    BY <1>a, <1>f, <2>1, <2>5, GoesOnWith
  <2>7. KeysOK' /\ LeftOK'
    <3>1. \E k : GetToRead(Named(op[c].agent, Legacy), k)
      BY <1>3 DEF BaselineMissing
    <3> QED BY <1>g, <1>k, <1>l, <2>1, <3>1 DEF GetToRead
  <2> QED BY <1>a, <1>f, <2>1, <2>6, <2>7
<1>4. ASSUME NEW c \in DOMAIN pc, Snapshot(c)
      PROVE  TypeInv' /\ Grows
  <2>1. PICK k \in Keys \cup {NoKey} :
          /\ Goto(c, "snapshot", "key") /\ GetToRead(Candidates(op[c].agent), k)
          /\ op' = [op EXCEPT ![c].content =
                      IF Matching(op[c].agent, op[c].path, k) # {}
                        THEN archive[Earliest(Matching(op[c].agent, op[c].path, k))].content
                        ELSE files[op[c].agent][op[c].path]]
          /\ UNCHANGED <<files, archive, keychain, fresh>>
    BY <1>4 DEF Snapshot
  <2> DEFINE M == Matching(op[c].agent, op[c].path, k)
             content == IF M # {} THEN archive[Earliest(M)].content ELSE files[op[c].agent][op[c].path]
             new == [op[c] EXCEPT !.content = content]
  <2>2. /\ pc[c] = "snapshot" /\ pc'[c] = "key" /\ op[c] \in Calls /\ op[c].agent \in Agents
        /\ op[c].path \in DOMAIN files[op[c].agent]
    BY <2>1, GotoOK
  <2>3. content \in Contents
    <3>1. CASE M # {}
      <4>1. M \subseteq DOMAIN archive
        BY DEF Matching, Candidates
      <4>2. Earliest(M) \in M
        BY <3>1, <4>1, EarliestIsMember
      <4> QED BY <3>1, <4>1, <4>2, ArchiveFacts DEF Backups
    <3>2. CASE M = {}
      BY <2>2, <3>2, FilesFacts
    <3> QED BY <3>1, <3>2
  <2>4. op' = [op EXCEPT ![c] = new]
    BY <2>1
  <2>5. new \in Calls /\ new.agent = op[c].agent /\ new.path = op[c].path
    BY <2>2, <2>3 DEF Calls
  <2> HIDE DEF new, M, content
  <2>6. op'[c] = new => CallOK(c)'
    BY <2>1, <2>2, <2>5, IdleAssumption DEF CallOK, Locations
  <2>7. CallsOK'
    BY <1>a, <1>f, <2>1, <2>4, <2>6, GoesOnWith
  <2>8. KeysOK' /\ LeftOK'
    BY <1>g, <1>k, <1>l, <2>1 DEF GetToRead
  <2> QED BY <1>a, <1>f, <2>1, <2>7, <2>8
<1>5. ASSUME NEW c \in DOMAIN pc, KeyLoaded(c)
      PROVE  TypeInv' /\ Grows
  <2>1. PICK k \in Keys : /\ Goto(c, "key", "create") /\ Get(k) /\ op' = [op EXCEPT ![c].key = k]
                          /\ UNCHANGED <<files, archive, keychain, fresh>>
    BY <1>5 DEF KeyLoaded
  <2> DEFINE new == [op[c] EXCEPT !.key = k]
  <2>2. op' = [op EXCEPT ![c] = new]
    BY <2>1
  <2>3. /\ pc[c] = "key" /\ pc'[c] = "create" /\ op[c] \in Calls
        /\ op[c].path \in DOMAIN files[op[c].agent]
    BY <2>1, GotoOK
  <2>4. new \in Calls /\ new.agent = op[c].agent /\ new.path = op[c].path /\ new.key \in Keys
    BY <2>3 DEF Calls
  <2> HIDE DEF new
  <2>5. op'[c] = new => CallOK(c)'
    BY <2>1, <2>3, <2>4, IdleAssumption DEF CallOK, Locations
  <2>6. CallsOK'
    BY <1>a, <1>f, <2>1, <2>2, <2>5, GoesOnWith
  <2> QED BY <1>a, <1>f, <1>g, <2>1, <2>6
<1>6. ASSUME NEW c \in DOMAIN pc, KeyGenerated(c)
      PROVE  TypeInv' /\ Grows
  <2>1. PICK k \in fresh : /\ Goto(c, "key", "put") /\ Get(NoKey) /\ op' = [op EXCEPT ![c].key = k]
                           /\ fresh' = fresh \ {k} /\ UNCHANGED <<files, archive, keychain>>
    BY <1>6 DEF KeyGenerated
  <2>0. k \in Keys
    BY DEF KeysOK
  <2> DEFINE new == [op[c] EXCEPT !.key = k]
  <2>2. op' = [op EXCEPT ![c] = new]
    BY <2>1
  <2>3. /\ pc[c] = "key" /\ pc'[c] = "put" /\ op[c] \in Calls
        /\ op[c].path \in DOMAIN files[op[c].agent]
    BY <2>1, GotoOK
  <2>4. new \in Calls /\ new.agent = op[c].agent /\ new.path = op[c].path /\ new.key \in Keys
    BY <2>0, <2>3 DEF Calls
  <2> HIDE DEF new
  <2>5. op'[c] = new => CallOK(c)'
    BY <2>1, <2>3, <2>4, IdleAssumption DEF CallOK, Locations
  <2>6. CallsOK'
    BY <1>a, <1>f, <2>1, <2>2, <2>5, GoesOnWith
  <2>7. KeysOK' /\ LeftOK'
    BY <2>1, GetOK DEF KeysOK
  <2> QED BY <1>a, <1>f, <2>1, <2>6, <2>7
<1>7. ASSUME NEW c \in DOMAIN pc, KeyStored(c)
      PROVE  TypeInv' /\ Grows
  <2>1. /\ Goto(c, "put", "create") /\ keychain' = op[c].key /\ cache' = CacheAfterPut(op[c].key)
        /\ UNCHANGED <<files, archive, fresh, op, left>>
    BY <1>7 DEF KeyStored
  <2>2. pc[c] = "put" /\ pc'[c] = "create" /\ CallOK(c)
    BY <2>1, GotoOK
  <2>3. KeysOK'
    BY <2>1, <2>2 DEF KeysOK, CallOK, CacheAfterPut
  <2>4. CallOK(c)'
    BY <2>1, <2>2 DEF CallOK, Locations
  <2>5. CallsOK'
    BY <1>a, <1>f, <2>1, <2>4, GoesOn
  <2> QED BY <1>a, <1>f, <1>l, <2>1, <2>3, <2>5
<1>8. ASSUME NEW c \in DOMAIN pc, KeyNotStored(c)
      PROVE  TypeInv' /\ Grows
  <2>1. /\ Return(c, "put") /\ left.write > 0 /\ left' = [left EXCEPT !.write = @ - 1]
        /\ cache' = CacheAfterPut(op[c].key) /\ UNCHANGED <<files, archive, keychain, fresh>>
    BY <1>8 DEF KeyNotStored
  <2>2. pc[c] = "put" /\ CallOK(c)
    BY <2>1 DEF Return, Goto, CallsOK
  <2>3. KeysOK' /\ LeftOK'
    BY <2>1, <2>2 DEF KeysOK, LeftOK, CallOK, CacheAfterPut
  <2>4. CallsOK'
    BY <1>a, <1>f, <2>1, ReturnOK
  <2> QED BY <1>a, <1>f, <2>1, <2>3, <2>4
<1>9. ASSUME NEW c \in DOMAIN pc, BackupCreated(c)
      PROVE  TypeInv' /\ Grows
  <2> DEFINE b == [agent |-> op[c].agent, name |-> op[c].name, path |-> op[c].path,
                   content |-> op[c].content, key |-> op[c].key, complete |-> FALSE]
             new == [op[c] EXCEPT !.slot = Len(archive) + 1]
  <2>1. /\ Goto(c, "create", "fill") /\ archive' = Append(archive, b) /\ op' = [op EXCEPT ![c] = new]
        /\ UNCHANGED <<files, keychain, cache, fresh, left>>
    BY <1>9 DEF BackupCreated
  <2>2. /\ pc[c] = "create" /\ pc'[c] = "fill" /\ op[c] \in Calls /\ CallOK(c)
    BY <2>1, GotoOK
  <2>3. b \in Backups
    BY <2>2 DEF Backups, Calls, Names
  <2>4. /\ ArchiveOK' /\ Grows /\ DOMAIN archive' = 1 .. Len(archive) + 1
        /\ archive'[Len(archive) + 1] = b /\ Len(archive) \in Nat
    BY <2>1, <2>3, Appended, ArchiveFacts
  <2>5. op'[c] = new => CallOK(c)'
    BY <2>1, <2>2, <2>4, IdleAssumption DEF CallOK, Calls, Locations
  <2>6. CallsOK'
    BY <1>f, <2>1, <2>4, <2>5, GoesOnWith
  <2> QED BY <1>f, <1>k, <1>l, <2>1, <2>4, <2>6
<1>10. ASSUME NEW c \in DOMAIN pc, BackupFilled(c)
       PROVE  TypeInv' /\ Grows
  <2>1. /\ Goto(c, "fill", "verify") /\ archive' = [archive EXCEPT ![op[c].slot].complete = TRUE]
        /\ UNCHANGED <<files, keychain, cache, fresh, op, left>>
    BY <1>10 DEF BackupFilled
  <2>2. pc[c] = "fill" /\ pc'[c] = "verify" /\ CallOK(c)
    BY <2>1, GotoOK
  <2>3. op[c].slot \in DOMAIN archive
    BY <2>2 DEF CallOK
  <2>4. ArchiveOK' /\ Grows
    BY <2>1, <2>3, Completed
  <2>5. CallOK(c)'
    BY <2>1, <2>2, <2>4 DEF CallOK, Locations, Grows
  <2>6. CallsOK'
    BY <1>f, <2>1, <2>4, <2>5, GoesOn
  <2> QED BY <1>f, <1>k, <1>l, <2>1, <2>4, <2>6
<1>11. ASSUME NEW c \in DOMAIN pc, BackupVerified(c)
       PROVE  TypeInv' /\ Grows
  <2>1. PICK k \in Keys :
          /\ Goto(c, "verify", IF op[c].name = Operation THEN "write" ELSE "read") /\ Get(k)
          /\ op' = IF op[c].name = Operation
                     THEN op ELSE [op EXCEPT ![c] = WithTarget(c, op[c].slot)]
          /\ UNCHANGED <<files, archive, keychain, fresh>>
    BY <1>11 DEF BackupVerified
  <2>2. /\ pc[c] = "verify" /\ pc'[c] = IF op[c].name = Operation THEN "write" ELSE "read"
        /\ CallOK(c) /\ op[c].path \in DOMAIN files[op[c].agent]
    BY <2>1, GotoOK
  <2>3. CallsOK'
    <3>1. CASE op[c].name = Operation
      <4>1. CallOK(c)'
        BY <2>1, <2>2, <3>1 DEF CallOK, Locations
      <4> QED BY <1>a, <1>f, <2>1, <3>1, <4>1, GoesOn
    <3>2. CASE op[c].name # Operation
      <4>1. op[c].slot \in DOMAIN archive
        BY <2>2 DEF CallOK
      <4>2. op'[c] = WithTarget(c, op[c].slot) => CallOK(c)'
        BY <2>1, <2>2, <3>2, <4>1, WithTargetOK, IdleAssumption DEF CallOK, Locations
      <4> QED BY <1>a, <1>f, <2>1, <3>2, <4>2, GoesOnWith
    <3> QED BY <3>1, <3>2
  <2> QED BY <1>a, <1>f, <1>g, <2>1, <2>3
<1>12. ASSUME NEW c \in DOMAIN pc, ReadOriginal(c)
       PROVE  TypeInv' /\ Grows
  <2>1. PICK n \in Contents \ {Absent} :
          /\ Goto(c, "read", "key")
          /\ op' = [op EXCEPT ![c].new = n, ![c].name = Operation,
                              ![c].content = files[op[c].agent][op[c].path]]
          /\ UNCHANGED <<files, archive, keychain, cache, fresh, left>>
    BY <1>12 DEF ReadOriginal
  <2> DEFINE content == files[op[c].agent][op[c].path]
             new == [op[c] EXCEPT !.new = n, !.name = Operation, !.content = content]
  <2>2. /\ pc[c] = "read" /\ pc'[c] = "key" /\ op[c] \in Calls /\ op[c].agent \in Agents
        /\ op[c].path \in DOMAIN files[op[c].agent]
    BY <2>1, GotoOK
  <2>3. content \in Contents
    BY <2>2, FilesFacts
  <2>4. op' = [op EXCEPT ![c] = new]
    BY <2>1, <2>2 DEF CallsOK
  <2>5. new \in Calls /\ new.agent = op[c].agent /\ new.path = op[c].path
    BY <2>2, <2>3 DEF Calls
  <2> HIDE DEF new, content
  <2>6. op'[c] = new => CallOK(c)'
    BY <2>1, <2>2, <2>5, IdleAssumption DEF CallOK, Locations
  <2>7. CallsOK'
    BY <1>a, <1>f, <2>1, <2>4, <2>6, GoesOnWith
  <2> QED BY <1>a, <1>f, <1>k, <1>l, <2>1, <2>7
<1>13. ASSUME NEW c \in DOMAIN pc, FileReplaced(c)
       PROVE  TypeInv' /\ Grows
  <2>1. /\ Goto(c, "write", "check") /\ SetFile(c, op[c].new)
        /\ UNCHANGED <<archive, keychain, cache, fresh, op, left>>
    BY <1>13 DEF FileReplaced
  <2>2. /\ pc[c] = "write" /\ pc'[c] = "check" /\ CallOK(c) /\ op[c] \in Calls /\ op[c].agent \in Agents
        /\ op[c].path \in DOMAIN files[op[c].agent] /\ op[c].new \in Contents
    BY <2>1, GotoOK DEF Calls
  <2>3. FilesOK' /\ \A a \in Agents : DOMAIN files'[a] = DOMAIN files[a]
    BY <2>1, <2>2, SetFileOK DEF SetFile
  <2>4. CallOK(c)'
    BY <2>1, <2>2, <2>3 DEF CallOK, Locations
  <2>5. CallsOK'
    BY <1>a, <2>1, <2>3, <2>4, GoesOn
  <2> QED BY <1>a, <1>k, <1>l, <2>1, <2>3, <2>5
<1>14. ASSUME NEW c \in DOMAIN pc, ReadBack(c)
       PROVE  TypeInv' /\ Grows
  <2>1. Goto(c, "check", "applied") /\ UNCHANGED <<files, archive, keychain, cache, fresh, op, left>>
    BY <1>14 DEF ReadBack
  <2>2. pc[c] = "check" /\ pc'[c] = "applied" /\ CallOK(c)
    BY <2>1, GotoOK
  <2>3. CallOK(c)'
    BY <2>1, <2>2 DEF CallOK, Locations
  <2>4. CallsOK'
    BY <1>a, <1>f, <2>1, <2>3, GoesOn
  <2> QED BY <1>a, <1>f, <1>k, <1>l, <2>1, <2>4
<1>15. ASSUME NEW c \in DOMAIN pc, ReadBackDiffers(c)
       PROVE  TypeInv' /\ Grows
  <2>1. /\ Return(c, "check") /\ SetFile(c, op[c].content)
        /\ UNCHANGED <<archive, keychain, cache, fresh, left>>
    BY <1>15 DEF ReadBackDiffers
  <2>2. /\ op[c].agent \in Agents
        /\ op[c].path \in DOMAIN files[op[c].agent] /\ op[c].content \in Contents
    BY <2>1, GotoOK DEF Return, Calls
  <2>3. FilesOK' /\ \A a \in Agents : DOMAIN files'[a] = DOMAIN files[a]
    BY <2>1, <2>2, SetFileOK DEF SetFile
  <2> QED BY <1>a, <1>k, <1>l, <2>1, <2>3, ReturnOK
<1>16. ASSUME NEW c \in DOMAIN pc, RolledBack(c)
       PROVE  TypeInv' /\ Grows
  <2>1. PICK k \in Keys : /\ Return(c, "applied") /\ Get(k) /\ SetFile(c, archive[op[c].slot].content)
                          /\ UNCHANGED <<archive, keychain, fresh>>
    BY <1>16 DEF RolledBack
  <2>2. /\ op[c].agent \in Agents /\ CallOK(c) /\ pc[c] = "applied"
        /\ op[c].path \in DOMAIN files[op[c].agent] /\ op[c].content \in Contents
    BY <2>1, GotoOK DEF Return, Calls
  <2>3. archive[op[c].slot].content \in Contents
    BY <2>2 DEF CallOK
  <2>4. FilesOK' /\ \A a \in Agents : DOMAIN files'[a] = DOMAIN files[a]
    BY <2>1, <2>2, <2>3, SetFileOK DEF SetFile
  <2> QED BY <1>a, <1>g, <2>1, <2>4, ReturnOK
<1>17. ASSUME NEW c \in DOMAIN pc, BackupExists(c) \/ Commit(c) \/ Fails(c)
       PROVE  TypeInv' /\ Grows
  <2>1. \E from : Return(c, from) /\ UNCHANGED <<files, archive, keychain, cache, fresh, left>>
    BY <1>17 DEF BackupExists, Commit, Fails
  <2> QED BY <1>a, <1>f, <1>k, <1>l, <2>1, ReturnOK
<1>18. ASSUME NEW c \in DOMAIN pc, NEW a \in Agents, NEW p \in DOMAIN files[a],
              NEW m \in Contents, NEW restore \in BOOLEAN, Begin(c, a, p, m, restore)
       PROVE  TypeInv' /\ Grows
  <2> DEFINE new == [restore |-> restore, agent |-> a, path |-> p, new |-> m,
                     name |-> Operation, content |-> Absent, key |-> NoKey, slot |-> 0]
  <2>1. /\ Goto(c, "idle", "baseline") /\ op' = [op EXCEPT ![c] = new]
        /\ UNCHANGED <<files, archive, keychain, cache, fresh, left>>
    BY <1>18 DEF Begin
  <2>2. pc'[c] = "baseline" /\ p \in Paths
    BY <2>1, GotoOK, FilesFacts
  <2>3. new \in Calls
    BY <2>2 DEF Calls, Contents
  <2>4. op'[c] = new => CallOK(c)'
    BY <2>1, <2>2, <2>3, IdleAssumption DEF CallOK, Locations
  <2>5. CallsOK'
    BY <1>a, <1>f, <2>1, <2>4, GoesOnWith
  <2> QED BY <1>a, <1>f, <1>k, <1>l, <2>1, <2>5
<1>19. ASSUME NEW a \in Agents, NEW p \in DOMAIN files[a], NEW content \in Contents, Edited(a, p, content)
       PROVE  TypeInv' /\ Grows
  <2>1. FilesOK' /\ \A b \in Agents : DOMAIN files'[b] = DOMAIN files[b]
    BY <1>19, SetFileOK DEF Edited
  <2> QED BY <1>19, <1>a, <1>k, <1>l, <2>1, GrowsStill DEF Edited
<1>20. CASE VaultPersisted
  <2>1. KeysOK'
    BY <1>20 DEF VaultPersisted, KeysOK, Cached
  <2> QED BY <1>20, <1>a, <1>f, <1>l, <2>1, GrowsStill DEF VaultPersisted
<1>21. CASE Restart
  <2>1. KeysOK' /\ LeftOK'
    BY <1>21 DEF Restart, KeysOK, LeftOK
  <2>2. CallsOK'
    BY <1>21 DEF Restart, CallsOK, CallOK, Locations
  <2> QED BY <1>21, <1>a, <1>f, <2>1, <2>2 DEF Restart
<1>22. CASE UNCHANGED vars
  BY <1>22, <1>a, <1>f, <1>k, <1>l, GrowsStill DEF vars
<1>23. ASSUME NEW c \in DOMAIN pc, Step(c)
       PROVE  TypeInv' /\ Grows
  BY <1>1, <1>2, <1>3, <1>4, <1>5, <1>6, <1>7, <1>8, <1>9, <1>10, <1>11, <1>12, <1>13, <1>14,
     <1>15, <1>16, <1>17, <1>23 DEF Step
<1>24. Managed \subseteq Contents /\ Absent \in Contents
  BY DEF Contents
<1> QED BY <1>18, <1>19, <1>20, <1>21, <1>22, <1>23, <1>24 DEF Next

LEMMA TypeInit == Init => TypeInv
<1> SUFFICES ASSUME Init PROVE TypeInv
  OBVIOUS
<1>1. PICK h \in Histories :
        /\ files \in [Agents -> [h.paths -> Contents]]
        /\ keychain \in IF h.firstUse THEN {NoKey} ELSE Keys
        /\ fresh = Keys \ {keychain}
        /\ cache = Unloaded
        /\ archive = [i \in DOMAIN h.inherited |->
                        [agent |-> h.inherited[i].agent, name |-> Operation,
                         path |-> h.inherited[i].path, content |-> h.inherited[i].content,
                         key |-> keychain, complete |-> TRUE]]
        /\ pc = [c \in h.callers |-> "idle"]
        /\ op = [c \in h.callers |-> Absent]
        /\ left = [read |-> h.read, write |-> h.write, crash |-> h.crash,
                   calm |-> h.inherited = <<>> /\ h.read + h.write = 0 /\ \E c \in Callers : h.callers = {c}]
  BY DEF Init
<1>2. /\ h.callers \subseteq Callers /\ h.paths \subseteq Paths
      /\ h.read \in Nat /\ h.write \in Nat /\ h.crash \in Nat
      /\ h.inherited \in Seq([agent : Agents, path : h.paths, content : Contents])
  BY HistoriesAssumption
<1>3. FilesOK
  BY <1>1, <1>2 DEF FilesOK
<1>4. KeysOK
  BY <1>1 DEF KeysOK
<1>5. LeftOK
  BY <1>1, <1>2 DEF LeftOK
<1>6. CallsOK
  BY <1>1, <1>2 DEF CallsOK, CallOK, Locations
<1>7. ArchiveOK
  <2>1. Len(h.inherited) \in Nat /\ DOMAIN h.inherited = 1 .. Len(h.inherited)
    BY <1>2, LenProperties
  <2>2. \A i \in 1 .. Len(h.inherited) : h.inherited[i] \in [agent : Agents, path : h.paths, content : Contents]
    BY <1>2, ElementOfSeq
  <2>3. \A i \in 1 .. Len(h.inherited) :
          [agent |-> h.inherited[i].agent, name |-> Operation,
           path |-> h.inherited[i].path, content |-> h.inherited[i].content,
           key |-> keychain, complete |-> TRUE] \in Backups
    BY <1>2, <1>4, <2>2 DEF Backups, Names, KeysOK
  <2>4. archive \in [1 .. Len(h.inherited) -> Backups]
    BY <1>1, <2>1, <2>3
  <2> QED BY <2>1, <2>4, SeqDef DEF ArchiveOK
<1> QED BY <1>3, <1>4, <1>5, <1>6, <1>7 DEF TypeInv

\* Whatever a transaction and everything around it do, files, backups, keys and
\* calls keep their types (TypeOK).
THEOREM ConfigTypeCorrect == Spec => []TypeOK
<1>1. TypeInv /\ [Next]_vars => TypeInv'
  BY TypeInvStep
<1> QED BY TypeInit, <1>1, TypeInvIsTypeOK, PTL DEF Spec

-----------------------------------------------------------------------------
(* What a step does to each call and to the archive *)

Started(c) ==
  \E a \in Agents : \E p \in DOMAIN files[a], m \in Contents, restore \in BOOLEAN :
    Begin(c, a, p, m, restore)

Still(c) == pc'[c] = pc[c] /\ op'[c] = op[c]

LEMMA OneMoves ==
  ASSUME TypeInv, [Next]_vars
  PROVE  /\ DOMAIN pc' = DOMAIN pc
         /\ \A c \in DOMAIN pc : Still(c) \/ pc'[c] = "idle" \/ Step(c) \/ Started(c)
<1>0. CallsOK /\ Managed \subseteq Contents /\ Absent \in Contents
  BY DEF TypeInv, Contents
<1> DEFINE Only(d) == /\ DOMAIN pc' = DOMAIN pc
                      /\ \A c \in DOMAIN pc : c # d => Still(c)
<1>1. ASSUME NEW d \in DOMAIN pc, NEW from, NEW to, Goto(d, from, to),
             op' = op \/ \E new : op' = [op EXCEPT ![d] = new]
      PROVE  Only(d)
  BY <1>0, <1>1, GotoOK DEF CallsOK, Still
<1>2. ASSUME NEW d \in DOMAIN pc, NEW from, Return(d, from)
      PROVE  Only(d)
  BY <1>1, <1>2 DEF Return
<1>3. ASSUME NEW d \in DOMAIN pc, Step(d)
      PROVE  Only(d)
  <2>1. CASE BaselineUnreadable(d) \/ KeyNotStored(d) \/ BackupExists(d) \/ BackupNotVerified(d)
             \/ ReadBackDiffers(d) \/ Commit(d) \/ RolledBack(d) \/ Fails(d)
    BY <1>2, <2>1 DEF BaselineUnreadable, KeyNotStored, BackupExists, BackupNotVerified,
                      ReadBackDiffers, Commit, RolledBack, Fails
  <2>2. CASE KeyStored(d) \/ BackupFilled(d) \/ FileReplaced(d) \/ ReadBack(d)
    BY <1>1, <2>2 DEF KeyStored, BackupFilled, FileReplaced, ReadBack
  <2>3. CASE FindBaseline(d) \/ BackupVerified(d)
    BY <1>1, <2>3 DEF FindBaseline, BackupVerified
  <2>4. CASE BaselineMissing(d)
    BY <1>1, <2>4 DEF BaselineMissing
  <2>5. CASE Snapshot(d)
    BY <1>1, <2>5 DEF Snapshot
  <2>6. CASE KeyLoaded(d)
    BY <1>1, <2>6 DEF KeyLoaded
  <2>7. CASE KeyGenerated(d)
    BY <1>1, <2>7 DEF KeyGenerated
  <2>8. CASE BackupCreated(d)
    BY <1>1, <2>8 DEF BackupCreated
  <2>9. CASE ReadOriginal(d)
    <3>1. PICK n : op' = [op EXCEPT ![d].new = n, ![d].name = Operation,
                                    ![d].content = files[op[d].agent][op[d].path]]
      BY <2>9 DEF ReadOriginal
    <3>2. op' = [op EXCEPT ![d] = [op[d] EXCEPT !.new = n, !.name = Operation,
                                                !.content = files[op[d].agent][op[d].path]]]
      BY <1>0, <3>1 DEF CallsOK
    <3> QED BY <1>1, <2>9, <3>2 DEF ReadOriginal
  <2> QED BY <1>3, <2>1, <2>2, <2>3, <2>4, <2>5, <2>6, <2>7, <2>8, <2>9 DEF Step
<1>4. ASSUME NEW d \in DOMAIN pc, Started(d)
      PROVE  Only(d)
  BY <1>1, <1>4 DEF Started, Begin
<1>5. CASE Restart
  BY <1>5 DEF Restart
<1>6. CASE UNCHANGED <<pc, op>>
  BY <1>6 DEF Still
<1>7. \/ \E d \in DOMAIN pc : Step(d) \/ Started(d)
      \/ Restart \/ UNCHANGED <<pc, op>>
  BY <1>0 DEF Next, Started, Edited, VaultPersisted, vars
<1> QED BY <1>3, <1>4, <1>5, <1>6, <1>7

\* One new backup at a time, and each of them made by a call.
LEMMA ArchiveStep ==
  ASSUME TypeInv, [Next]_vars
  PROVE  \/ archive' = archive
         \/ \E c \in DOMAIN pc : BackupFilled(c) /\ DOMAIN archive' = DOMAIN archive
         \/ \E c \in DOMAIN pc : BackupCreated(c)
<1>1. ASSUME NEW c \in DOMAIN pc, Step(c)
      PROVE  archive' = archive \/ BackupFilled(c) \/ BackupCreated(c)
  BY <1>1 DEF Step, FindBaseline, BaselineUnreadable, BaselineMissing, Snapshot, KeyLoaded, KeyGenerated,
       KeyStored, KeyNotStored, BackupExists, BackupVerified, BackupNotVerified, ReadOriginal,
       FileReplaced, ReadBack, ReadBackDiffers, Commit, RolledBack, Fails
<1>2. ASSUME NEW c \in DOMAIN pc, BackupFilled(c)
      PROVE  DOMAIN archive' = DOMAIN archive
  BY <1>2 DEF BackupFilled
<1> QED BY <1>1, <1>2 DEF Next, Begin, Edited, VaultPersisted, Restart, vars

\* What is appended.
LEMMA CreatedOK ==
  ASSUME TypeInv, NEW c \in DOMAIN pc, BackupCreated(c)
  PROVE  /\ pc[c] = "create" /\ pc'[c] = "fill" /\ op[c] \in Calls
         /\ NameIsFree(op[c].agent, op[c].name)
         /\ Len(archive) \in Nat /\ DOMAIN archive' = 1 .. Len(archive) + 1
         /\ Len(archive') = Len(archive) + 1
         /\ \A i \in DOMAIN archive : archive'[i] = archive[i]
         /\ archive'[Len(archive) + 1] =
              [agent |-> op[c].agent, name |-> op[c].name, path |-> op[c].path,
               content |-> op[c].content, key |-> op[c].key, complete |-> FALSE]
         /\ UNCHANGED <<files, keychain, cache, fresh, left>>
<1>1. /\ Goto(c, "create", "fill") /\ NameIsFree(op[c].agent, op[c].name)
      /\ archive' = Append(archive,
           [agent |-> op[c].agent, name |-> op[c].name, path |-> op[c].path,
            content |-> op[c].content, key |-> op[c].key, complete |-> FALSE])
      /\ UNCHANGED <<files, keychain, cache, fresh, left>>
  BY DEF BackupCreated
<1>2. pc[c] = "create" /\ pc'[c] = "fill" /\ op[c] \in Calls
  BY <1>1, GotoOK DEF TypeInv
<1>3. [agent |-> op[c].agent, name |-> op[c].name, path |-> op[c].path,
       content |-> op[c].content, key |-> op[c].key, complete |-> FALSE] \in Backups
  BY <1>2 DEF Backups, Calls, Names
<1> QED BY <1>1, <1>2, <1>3, Appended, ArchiveFacts DEF TypeInv

LEMMA CreatedAdds ==
  ASSUME TypeInv, NEW c \in DOMAIN pc, BackupCreated(c), NEW n, n = Len(archive) + 1
  PROVE  /\ pc[c] = "create" /\ pc'[c] = "fill" /\ op[c] \in Calls
         /\ NameIsFree(op[c].agent, op[c].name)
         /\ DOMAIN archive' = DOMAIN archive \cup {n} /\ n \in Nat
         /\ \A i \in DOMAIN archive : i < n /\ archive'[i] = archive[i]
         /\ archive'[n].agent = op[c].agent /\ archive'[n].path = op[c].path
         /\ archive'[n].name = op[c].name /\ archive'[n].content = op[c].content
         /\ archive'[n].key = op[c].key
         /\ UNCHANGED <<files, keychain, cache, fresh, left>>
<1>1. Len(archive) \in Nat /\ DOMAIN archive = 1 .. Len(archive)
  BY ArchiveFacts DEF TypeInv
<1>2. DOMAIN archive' = 1 .. n
  BY CreatedOK
<1>3. 1 .. n = 1 .. Len(archive) \cup {n} /\ n \in Nat /\ \A i \in 1 .. Len(archive) : i < n
  BY <1>1
<1>4. /\ pc[c] = "create" /\ pc'[c] = "fill" /\ op[c] \in Calls
      /\ NameIsFree(op[c].agent, op[c].name)
      /\ \A i \in DOMAIN archive : archive'[i] = archive[i]
      /\ archive'[n] = [agent |-> op[c].agent, name |-> op[c].name, path |-> op[c].path,
                        content |-> op[c].content, key |-> op[c].key, complete |-> FALSE]
      /\ UNCHANGED <<files, keychain, cache, fresh, left>>
  BY CreatedOK, Zenon
<1> QED BY <1>1, <1>2, <1>3, <1>4

-----------------------------------------------------------------------------
(* The names of the baselines *)

LEMMA NamesDiffer ==
  /\ Legacy # Operation
  /\ \A p : Scoped(p) # Operation /\ Scoped(p) # Legacy
  /\ \A p, q : Scoped(p) = Scoped(q) => p = q
BY DEF Legacy, Operation, Scoped

LEMMA LegacyStays ==
  ASSUME Grows, NEW a, NEW p, OtherLegacy(a, p)
  PROVE  OtherLegacy(a, p)'
BY DEF OtherLegacy, Named, Grows

LEMMA BaselineStays ==
  ASSUME Grows, NEW a, NEW p, HasBaseline(a, p)
  PROVE  HasBaseline(a, p)'
BY DEF HasBaseline, Grows

\* Where a path has a baseline, whichever name a call has found for another
\* one is taken.
LEMMA BaselineTaken ==
  ASSUME NamesInv, NEW c \in DOMAIN pc, pc[c] # "idle", op[c].name # Operation,
         HasBaseline(op[c].agent, op[c].path)
  PROVE  ~NameIsFree(op[c].agent, op[c].name)
<1> DEFINE a == op[c].agent  p == op[c].path
<1>1. PICK i \in DOMAIN archive : archive[i].agent = a /\ archive[i].path = p /\ archive[i].name # Operation
  BY DEF HasBaseline
<1>2. archive[i].name = Legacy \/ (archive[i].name = Scoped(p) /\ OtherLegacy(a, p))
  BY <1>1 DEF NamesInv, NameFound
<1>3. CASE op[c].name = Legacy
  BY <1>1, <1>2, <1>3, NamesDiffer DEF NameIsFree, Named, OtherLegacy
<1>4. CASE op[c].name = Scoped(p)
  <2>1. PICK j \in DOMAIN archive : archive[j].agent = a /\ archive[j].name = Legacy /\ archive[j].path # p
    BY <1>4 DEF NamesInv, NameFound, OtherLegacy, Named
  <2>2. archive[i].name # Legacy
    BY <1>1, <2>1, NamesDiffer DEF NamesInv, NameFound
  <2> QED BY <1>1, <1>2, <1>4, <2>2, NamesDiffer DEF NameIsFree, Named
<1> QED BY <1>3, <1>4 DEF NamesInv, NameFound

\* The name that baseline() finds is that of a scoped baseline only where the
\* legacy one is another path's.
LEMMA FoundName ==
  ASSUME NEW a, NEW p
  PROVE  /\ BaselineName(a, p) \in {Legacy, Scoped(p)}
         /\ BaselineName(a, p) = Scoped(p) => OtherLegacy(a, p)
BY NamesDiffer DEF BaselineName, OtherLegacy

LEMMA NamesStep ==
  ASSUME TypeInv, NamesInv, [Next]_vars
  PROVE  NamesInv'
<1>0. Grows /\ TypeInv' /\ DOMAIN pc' = DOMAIN pc
  BY TypeInvStep, OneMoves
<1>a. ASSUME NEW a, NEW p, \E i \in DOMAIN archive : archive[i].agent = a /\ archive[i].name = Legacy /\ archive[i].path # p
      PROVE  \E i \in DOMAIN archive' : archive'[i].agent = a /\ archive'[i].name = Legacy /\ archive'[i].path # p
  BY <1>0, <1>a DEF Grows
<1>1. ASSUME NEW c \in DOMAIN pc, pc'[c] # "idle"
      PROVE  NameFound(c)'
  <2> DEFINE Same == /\ pc[c] # "idle" /\ op'[c].name = op[c].name
                     /\ op'[c].agent = op[c].agent /\ op'[c].path = op[c].path
  <2>0. CallsOK
    BY DEF TypeInv
  <2>1. CASE Same
    BY <1>a, <2>1 DEF NamesInv, NameFound, OtherLegacy, Named
  <2>2. CASE op'[c].name = Operation
    BY <2>2, NamesDiffer DEF NameFound
  <2>3. CASE BaselineMissing(c)
    <3>1. /\ op[c] \in Calls /\ op' = [op EXCEPT ![c].name = BaselineName(op[c].agent, op[c].path)]
          /\ c \in DOMAIN op
      BY <2>0, <2>3, GotoOK DEF BaselineMissing, CallsOK
    <3>2. /\ op'[c].name = BaselineName(op[c].agent, op[c].path)
          /\ op'[c].agent = op[c].agent /\ op'[c].path = op[c].path
      BY <3>1 DEF Calls
    <3> QED BY <1>a, <3>2, FoundName DEF NameFound, OtherLegacy, Named
  <2>4. CASE Still(c)
    BY <1>1, <2>1, <2>4 DEF Still
  <2>5. CASE Started(c)
    BY <2>0, <2>2, <2>5 DEF Started, Begin, CallsOK
  <2>6. CASE Step(c)
    <3>1. CASE KeyStored(c) \/ BackupFilled(c) \/ FileReplaced(c) \/ ReadBack(c)
      BY <2>0, <2>1, <3>1, GotoOK DEF KeyStored, BackupFilled, FileReplaced, ReadBack
    <3>2. CASE FindBaseline(c)
      <4>1. PICK i \in DOMAIN archive : op' = [op EXCEPT ![c] = WithTarget(c, i)]
        BY <3>2 DEF FindBaseline, Named
      <4>2. pc[c] # "idle"
        BY <3>2 DEF FindBaseline, Goto
      <4> QED BY <2>0, <2>1, <4>1, <4>2, WithTargetOK DEF TypeInv, CallsOK
    <3>3. CASE BackupVerified(c)
      <4>1. op' = IF op[c].name = Operation THEN op ELSE [op EXCEPT ![c] = WithTarget(c, op[c].slot)]
        BY <3>3 DEF BackupVerified
      <4>2. pc[c] = "verify" /\ CallOK(c)
        BY <2>0, <3>3, GotoOK DEF BackupVerified
      <4> QED BY <2>0, <2>1, <4>1, <4>2, WithTargetOK DEF TypeInv, CallsOK, CallOK
    <3>4. CASE Snapshot(c)
      <4>1. pc[c] # "idle" /\ op[c] \in Calls
        BY <2>0, <3>4, GotoOK DEF Snapshot
      <4>2. PICK k : op' = [op EXCEPT ![c].content =
                              IF Matching(op[c].agent, op[c].path, k) # {}
                                THEN archive[Earliest(Matching(op[c].agent, op[c].path, k))].content
                                ELSE files[op[c].agent][op[c].path]]
        BY <3>4 DEF Snapshot
      <4> QED BY <2>0, <2>1, <4>1, <4>2 DEF CallsOK, Calls
    <3>5. CASE KeyLoaded(c) \/ KeyGenerated(c)
      <4>1. pc[c] # "idle" /\ op[c] \in Calls /\ \E k : op' = [op EXCEPT ![c].key = k]
        BY <2>0, <3>5, GotoOK DEF KeyLoaded, KeyGenerated
      <4> QED BY <2>0, <2>1, <4>1 DEF CallsOK, Calls
    <3>6. CASE BackupCreated(c)
      <4>1. pc[c] # "idle" /\ op[c] \in Calls /\ op' = [op EXCEPT ![c].slot = Len(archive) + 1]
        BY <2>0, <3>6, GotoOK DEF BackupCreated
      <4> QED BY <2>0, <2>1, <4>1 DEF CallsOK, Calls
    <3>7. CASE ReadOriginal(c)
      <4>1. op[c] \in Calls
        BY <2>0, <3>7, GotoOK DEF ReadOriginal
      <4>2. PICK n : op' = [op EXCEPT ![c].new = n, ![c].name = Operation,
                                      ![c].content = files[op[c].agent][op[c].path]]
        BY <3>7 DEF ReadOriginal
      <4> QED BY <2>0, <2>2, <4>1, <4>2 DEF CallsOK, Calls
    <3>8. CASE \E from : Return(c, from)
      BY <1>1, <2>0, <3>8, GotoOK DEF Return
    <3> QED BY <2>3, <2>6, <3>1, <3>2, <3>3, <3>4, <3>5, <3>6, <3>7, <3>8
            DEF Step, BaselineUnreadable, KeyNotStored, BackupExists, BackupNotVerified, ReadBackDiffers,
                Commit, RolledBack, Fails
  <2> QED BY <1>1, <2>4, <2>5, <2>6, OneMoves
<1>2. CASE DOMAIN archive' = DOMAIN archive
  <2>1. \A i \in DOMAIN archive : /\ archive'[i].name = archive[i].name /\ archive'[i].agent = archive[i].agent
                                  /\ archive'[i].path = archive[i].path
    BY <1>0 DEF Grows
  <2> QED BY <1>0, <1>1, <1>2, <1>a, <2>1 DEF NamesInv, NameFound, OtherLegacy, Named
<1>3. ASSUME NEW c \in DOMAIN pc, BackupCreated(c)
      PROVE  NamesInv'
  <2>0. PICK n : n = Len(archive) + 1
    OBVIOUS
  <2>1. /\ pc[c] = "create" /\ NameIsFree(op[c].agent, op[c].name)
        /\ DOMAIN archive' = DOMAIN archive \cup {n}
        /\ \A i \in DOMAIN archive : archive'[i] = archive[i]
        /\ archive'[n].agent = op[c].agent /\ archive'[n].path = op[c].path /\ archive'[n].name = op[c].name
    BY <1>3, <2>0, CreatedAdds
  <2>2. /\ op[c].name \in {Operation, Legacy, Scoped(op[c].path)}
        /\ op[c].name = Scoped(op[c].path) => OtherLegacy(op[c].agent, op[c].path)
    BY <2>1 DEF NamesInv, NameFound
  <2>3. \A i \in DOMAIN archive' :
          /\ archive'[i].name \in {Operation, Legacy, Scoped(archive'[i].path)}
          /\ archive'[i].name = Scoped(archive'[i].path) =>
               \E j \in DOMAIN archive' : /\ archive'[j].agent = archive'[i].agent /\ archive'[j].name = Legacy
                                         /\ archive'[j].path # archive'[i].path
    BY <1>a, <2>1, <2>2 DEF NamesInv, OtherLegacy, Named
  <2>4. \A i, j \in DOMAIN archive' :
          /\ archive'[i].name # Operation /\ archive'[i].name = archive'[j].name
          /\ archive'[i].agent = archive'[j].agent
          => i = j
    BY <2>1 DEF NamesInv, NameIsFree, Named
  <2> QED BY <1>0, <1>1, <2>3, <2>4 DEF NamesInv, NameFound, OtherLegacy, Named
<1> QED BY <1>2, <1>3, ArchiveStep

-----------------------------------------------------------------------------
(* Baselines are native *)

LEMMA SteadyGet ==
  ASSUME TypeInv, Steady, NEW k, Get(k)
  PROVE  k = keychain /\ cache' \in {Unloaded, keychain} /\ left' = left
<1>1. keychain # NoKey /\ keychain # Unloaded
  BY KeysAssumption DEF Steady
<1> QED BY <1>1 DEF TypeInv, Steady, Get, LiveKey, Cached, LeftOK

LEMMA SteadyStep ==
  ASSUME TypeInv, Steady, [Next]_vars
  PROVE  Steady' /\ keychain' = keychain
<1>0. CallsOK /\ DOMAIN pc' = DOMAIN pc /\ keychain # NoKey /\ keychain # Unloaded
  BY OneMoves, KeysAssumption DEF TypeInv, Steady
<1>1. keychain' = keychain /\ cache' \in {Unloaded, keychain} /\ left'.read = left.read
  <2>1. ASSUME NEW c \in DOMAIN pc, Step(c)
        PROVE  keychain' = keychain /\ cache' \in {Unloaded, keychain} /\ left'.read = left.read
    <3>1. CASE FindBaseline(c) \/ BaselineUnreadable(c) \/ KeyLoaded(c) \/ BackupVerified(c)
               \/ BackupNotVerified(c) \/ RolledBack(c)
      BY <3>1, SteadyGet DEF FindBaseline, BaselineUnreadable, KeyLoaded, BackupVerified,
                             BackupNotVerified, RolledBack
    <3>2. CASE BaselineMissing(c) \/ Snapshot(c)
      BY <3>2, SteadyGet DEF BaselineMissing, Snapshot, GetToRead, Steady
    <3>3. CASE KeyGenerated(c)
      BY <1>0, <3>3, SteadyGet DEF KeyGenerated
    <3>4. CASE KeyStored(c) \/ KeyNotStored(c)
      BY <3>4 DEF KeyStored, KeyNotStored, Return, Goto, Steady, SteadyCall
    <3>5. CASE UNCHANGED <<keychain, cache, left>>
      BY <3>5 DEF Steady
    <3> QED BY <2>1, <3>1, <3>2, <3>3, <3>4, <3>5 DEF Step, BackupCreated, BackupExists, BackupFilled,
               ReadOriginal, FileReplaced, ReadBack, ReadBackDiffers, Commit, Fails
  <2>2. CASE VaultPersisted
    BY <2>2 DEF VaultPersisted, Steady, Cached
  <2>3. CASE Restart
    BY <2>3 DEF Restart, TypeInv, LeftOK
  <2>4. CASE UNCHANGED <<keychain, cache, left>>
    BY <2>4 DEF Steady
  <2> QED BY <2>1, <2>2, <2>3, <2>4 DEF Next, Begin, Edited, vars
<1>2. ASSUME NEW c \in DOMAIN pc
      PROVE  SteadyCall(c)'
  <2>1. SteadyCall(c)
    BY DEF Steady
  <2>2. CASE Still(c)
    BY <1>1, <2>1, <2>2 DEF Still, SteadyCall
  <2>3. CASE pc'[c] \notin {"put", "create", "fill", "verify"}
    BY <2>3 DEF SteadyCall
  <2>4. CASE KeyLoaded(c)
    <3>1. PICK k \in Keys : /\ Goto(c, "key", "create") /\ Get(k) /\ op' = [op EXCEPT ![c].key = k]
      BY <2>4 DEF KeyLoaded
    <3>2. k = keychain /\ op[c] \in Calls /\ pc'[c] = "create"
      BY <1>0, <3>1, SteadyGet, GotoOK
    <3>3. op'[c].key = keychain
      BY <1>0, <3>1, <3>2 DEF CallsOK, Calls
    <3> QED BY <1>1, <3>2, <3>3 DEF SteadyCall
  <2>5. CASE KeyGenerated(c)
    BY <1>0, <2>5, SteadyGet DEF KeyGenerated
  <2>6. CASE KeyStored(c)
    BY <2>1, <2>6 DEF KeyStored, Goto, SteadyCall
  <2>7. CASE BackupCreated(c)
    <3>1. pc[c] = "create" /\ pc'[c] = "fill" /\ op[c] \in Calls /\ op' = [op EXCEPT ![c].slot = Len(archive) + 1]
      BY <1>0, <2>7, GotoOK DEF BackupCreated
    <3>2. op'[c].key = op[c].key
      BY <1>0, <3>1 DEF CallsOK, Calls
    <3> QED BY <1>1, <2>1, <3>1, <3>2 DEF SteadyCall
  <2>8. CASE BackupFilled(c)
    BY <1>0, <1>1, <2>1, <2>8, GotoOK DEF BackupFilled, SteadyCall
  <2>9. CASE Step(c)
    <3>1. CASE \E from : Return(c, from)
      BY <1>0, <2>3, <3>1, GotoOK DEF Return
    <3>2. CASE FindBaseline(c) \/ BaselineMissing(c) \/ Snapshot(c) \/ BackupVerified(c)
      BY <1>0, <2>3, <3>2, GotoOK DEF FindBaseline, BaselineMissing, Snapshot, BackupVerified
    <3>3. CASE ReadOriginal(c) \/ FileReplaced(c) \/ ReadBack(c)
      <4>1. \E from, to : to \in {"key", "check", "applied"} /\ Goto(c, from, to)
        BY <3>3 DEF ReadOriginal, FileReplaced, ReadBack
      <4> QED BY <1>0, <2>3, <4>1, GotoOK
    <3>4. CASE BaselineUnreadable(c) \/ KeyNotStored(c) \/ BackupExists(c) \/ BackupNotVerified(c)
               \/ ReadBackDiffers(c) \/ Commit(c) \/ RolledBack(c) \/ Fails(c)
      BY <3>1, <3>4 DEF BaselineUnreadable, KeyNotStored, BackupExists, BackupNotVerified,
                        ReadBackDiffers, Commit, RolledBack, Fails
    <3> QED BY <2>4, <2>5, <2>6, <2>7, <2>8, <2>9, <3>2, <3>3, <3>4 DEF Step
  <2>10. CASE Started(c)
    BY <1>0, <2>3, <2>10, GotoOK DEF Started, Begin
  <2> QED BY <2>2, <2>3, <2>9, <2>10, OneMoves
<1> QED BY <1>0, <1>1, <1>2 DEF Steady

\* Origins are not lost.
LEMMA OriginStays ==
  ASSUME TypeInv, [Next]_vars, NEW a, NEW p
  PROVE  /\ FileHasOrigin(a, p) => FileHasOrigin(a, p)'
         /\ \A n : BackupHasOrigin(n, a, p) => BackupHasOrigin(n, a, p)'
<1>1. Grows
  BY TypeInvStep
<1>2. CASE HasBaseline(a, p)
  BY <1>1, <1>2, BaselineStays DEF FileHasOrigin, BackupHasOrigin
<1>3. ASSUME Steady, NEW i \in DOMAIN archive, OldNative(i, a, p)
      PROVE  Steady' /\ i \in DOMAIN archive' /\ OldNative(i, a, p)'
  BY <1>1, <1>3, SteadyStep DEF OldNative, Grows
<1> QED BY <1>2, <1>3 DEF FileHasOrigin, BackupHasOrigin

\* A snapshot is native unless the path has a baseline.
LEMMA SnapshotIsNative ==
  ASSUME TypeInv, NamesInv, OriginInv, NEW c \in DOMAIN pc, Snapshot(c),
         NEW a \in Agents, NEW p \in Paths, Handles(c, a, p), op'[c].content \in Managed
  PROVE  HasBaseline(a, p)
<1>1. PICK k \in Keys \cup {NoKey} :
        /\ GetToRead(Candidates(a), k)
        /\ op' = [op EXCEPT ![c].content =
                    IF Matching(a, p, k) # {} THEN archive[Earliest(Matching(a, p, k))].content
                                              ELSE files[a][p]]
  BY DEF Snapshot, Handles
<1>2. /\ op[c] \in Calls /\ p \in DOMAIN files[a]
      /\ op'[c].content = IF Matching(a, p, k) # {} THEN archive[Earliest(Matching(a, p, k))].content
                                                    ELSE files[a][p]
  <2>1. op[c] \in Calls /\ p \in DOMAIN files[a] /\ c \in DOMAIN op
    BY GotoOK DEF Snapshot, Handles, TypeInv, CallsOK
  <2> QED BY <1>1, <2>1 DEF Calls
<1>3. ASSUME Steady, NEW i \in DOMAIN archive, OldNative(i, a, p)
      PROVE  i \in Matching(a, p, k)
  <2>1. i \in Candidates(a)
    BY <1>3, NamesDiffer DEF OldNative, Candidates
  <2>2. k = keychain
    BY <1>1, <1>3, <2>1, SteadyGet DEF GetToRead
  <2> QED BY <1>3, <2>1, <2>2, KeysAssumption DEF OldNative, Matching, Decrypts, Steady
<1>4. CASE Matching(a, p, k) = {}
  BY <1>2, <1>3, <1>4 DEF OriginInv, FileHasOrigin
<1>5. CASE Matching(a, p, k) # {}
  <2> DEFINE M == Matching(a, p, k)
  <2>1. Earliest(M) \in M /\ \A j \in M : Earliest(M) <= j
    BY <1>5, EarliestIsMember DEF TypeInv, Matching, Candidates
  <2>2. PICK i \in DOMAIN archive : i = Earliest(M) /\ At(i, a, p) /\ archive[i].content \in Managed
    BY <1>2, <1>5, <2>1 DEF Matching, Candidates, At
  <2>3. BackupHasOrigin(i, a, p)
    BY <2>2 DEF OriginInv
  <2>4. ASSUME Steady, NEW j \in DOMAIN archive, j < i, OldNative(j, a, p)
        PROVE  FALSE
    <3>1. i <= j
      BY <1>3, <2>1, <2>2, <2>4
    <3> QED BY <2>4, <3>1, ArchiveFacts DEF TypeInv
  <2> QED BY <2>3, <2>4 DEF BackupHasOrigin
<1> QED BY <1>4, <1>5

\* A call past baseline() works on a path that has one.
LEMMA CallHasBaselineStep ==
  ASSUME TypeInv, NamesInv, OriginInv, [Next]_vars,
         NEW c \in DOMAIN pc, NEW a \in Agents, NEW p \in Paths
  PROVE  CallHasBaseline(c, a, p)'
<1>0. Grows /\ CallsOK /\ (HasBaseline(a, p) => HasBaseline(a, p)')
  BY TypeInvStep, BaselineStays DEF TypeInv
<1> DEFINE Behind == pc'[c] \in {"idle", "baseline", "snapshot"}
           Kept == /\ pc[c] # "idle" /\ op'[c].agent = op[c].agent /\ op'[c].path = op[c].path
                   /\ op'[c].content = op[c].content /\ op'[c].name = op[c].name
                   /\ PastBaseline(c)' => PastBaseline(c)
                   /\ pc'[c] \in {"key", "put", "create"} => pc[c] \in {"key", "put", "create"}
<1>1. CASE Behind
  BY <1>1 DEF CallHasBaseline, PastBaseline
<1>2. CASE Kept
  BY <1>0, <1>2 DEF OriginInv, CallHasBaseline, Handles
<1>3. CASE Still(c)
  BY <1>0, <1>3 DEF Still, OriginInv, CallHasBaseline, Handles, PastBaseline
<1>4. CASE FindBaseline(c)
  <2>1. PICK i \in DOMAIN archive :
          /\ archive[i].agent = op[c].agent /\ archive[i].name = BaselineName(op[c].agent, op[c].path)
          /\ op' = [op EXCEPT ![c] = WithTarget(c, i)]
    BY <1>4 DEF FindBaseline, Named
  <2>2. pc[c] = "baseline" /\ pc'[c] = "read" /\ op'[c] = WithTarget(c, i)
    BY <1>0, <1>4, <2>1, GotoOK DEF FindBaseline, CallsOK
  <2>3. op'[c].agent = op[c].agent /\ op'[c].path = op[c].path
    BY <2>2, WithTargetOK DEF TypeInv
  <2>4. archive[i].path = op[c].path /\ archive[i].name # Operation
    BY <2>1, NamesDiffer DEF BaselineName, Named, NamesInv
  <2> QED BY <1>0, <2>1, <2>2, <2>3, <2>4 DEF CallHasBaseline, Handles, HasBaseline
<1>5. CASE BackupVerified(c)
  <2>1. /\ pc[c] = "verify" /\ pc'[c] = IF op[c].name = Operation THEN "write" ELSE "read"
        /\ CallOK(c)
    BY <1>0, <1>5, GotoOK DEF BackupVerified
  <2>2. CASE op[c].name = Operation
    BY <1>2, <1>5, <2>1, <2>2 DEF BackupVerified, PastBaseline
  <2>3. CASE op[c].name # Operation
    <3>1. op[c].slot \in DOMAIN archive /\ At(op[c].slot, op[c].agent, op[c].path)
          /\ archive[op[c].slot].name # Operation
      BY <2>1, <2>3 DEF CallOK, At
    <3>2. op'[c] = WithTarget(c, op[c].slot)
      BY <1>0, <1>5, <2>3 DEF BackupVerified, CallsOK
    <3>3. op'[c].agent = op[c].agent /\ op'[c].path = op[c].path
      BY <2>1, <3>1, <3>2, WithTargetOK DEF TypeInv
    <3> QED BY <1>0, <2>1, <2>3, <3>1, <3>3 DEF CallHasBaseline, Handles, HasBaseline, At
  <2> QED BY <2>2, <2>3
<1>6. CASE Snapshot(c)
  <2>1. pc[c] = "snapshot" /\ pc'[c] = "key" /\ op[c] \in Calls /\ op[c].name # Operation
    BY <1>0, <1>6, GotoOK DEF Snapshot, CallOK
  <2>2. PICK k : op' = [op EXCEPT ![c].content =
                          IF Matching(op[c].agent, op[c].path, k) # {}
                            THEN archive[Earliest(Matching(op[c].agent, op[c].path, k))].content
                            ELSE files[op[c].agent][op[c].path]]
    BY <1>6 DEF Snapshot
  <2>3. op'[c].agent = op[c].agent /\ op'[c].path = op[c].path /\ op'[c].name = op[c].name
    BY <1>0, <2>1, <2>2 DEF CallsOK, Calls
  <2>4. Handles(c, a, p) /\ op'[c].content \in Managed => HasBaseline(a, p)
    BY <1>6, SnapshotIsNative
  <2> QED BY <1>0, <2>1, <2>3, <2>4 DEF CallHasBaseline, Handles, PastBaseline
<1>7. CASE KeyLoaded(c) \/ KeyGenerated(c)
  <2>1. pc[c] = "key" /\ pc'[c] \in {"create", "put"} /\ op[c] \in Calls /\ \E k : op' = [op EXCEPT ![c].key = k]
    BY <1>0, <1>7, GotoOK DEF KeyLoaded, KeyGenerated
  <2>2. /\ op'[c].agent = op[c].agent /\ op'[c].path = op[c].path /\ op'[c].name = op[c].name
        /\ op'[c].content = op[c].content
    BY <1>0, <2>1 DEF CallsOK, Calls
  <2> QED BY <1>2, <2>1, <2>2 DEF PastBaseline
<1>8. CASE BackupCreated(c)
  <2>1. pc[c] = "create" /\ pc'[c] = "fill" /\ op[c] \in Calls /\ op' = [op EXCEPT ![c].slot = Len(archive) + 1]
    BY <1>0, <1>8, GotoOK DEF BackupCreated
  <2>2. /\ op'[c].agent = op[c].agent /\ op'[c].path = op[c].path /\ op'[c].name = op[c].name
        /\ op'[c].content = op[c].content
    BY <1>0, <2>1 DEF CallsOK, Calls
  <2> QED BY <1>2, <2>1, <2>2 DEF PastBaseline
<1>9. CASE ReadOriginal(c)
  <2>1. pc[c] = "read" /\ pc'[c] = "key" /\ op[c] \in Calls
    BY <1>0, <1>9, GotoOK DEF ReadOriginal
  <2>2. PICK n : op' = [op EXCEPT ![c].new = n, ![c].name = Operation,
                                  ![c].content = files[op[c].agent][op[c].path]]
    BY <1>9 DEF ReadOriginal
  <2>3. op'[c].agent = op[c].agent /\ op'[c].path = op[c].path
    BY <1>0, <2>1, <2>2 DEF CallsOK, Calls
  <2> QED BY <1>0, <2>1, <2>3 DEF OriginInv, CallHasBaseline, Handles, PastBaseline
<1>10. CASE KeyStored(c) \/ BackupFilled(c) \/ FileReplaced(c) \/ ReadBack(c)
  BY <1>0, <1>2, <1>10, GotoOK DEF KeyStored, BackupFilled, FileReplaced, ReadBack, PastBaseline, CallOK
<1>11. CASE Step(c)
  BY <1>0, <1>1, <1>4, <1>5, <1>6, <1>7, <1>8, <1>9, <1>10, <1>11, GotoOK
     DEF Step, BaselineUnreadable, BaselineMissing, KeyNotStored, BackupExists, BackupNotVerified,
         ReadBackDiffers, Commit, RolledBack, Fails, Return
<1>12. CASE Started(c)
  BY <1>0, <1>1, <1>12, GotoOK DEF Started, Begin
<1> QED BY <1>1, <1>3, <1>11, <1>12, OneMoves

\* A new backup of managed content is made where there is a baseline, by a call
\* that does not make one itself.
LEMMA CreatedHasBaseline ==
  ASSUME TypeInv, NamesInv, OriginInv, NEW c \in DOMAIN pc, BackupCreated(c), op[c].content \in Managed
  PROVE  op[c].name = Operation /\ HasBaseline(op[c].agent, op[c].path)
<1>1. pc[c] = "create" /\ op[c] \in Calls /\ NameIsFree(op[c].agent, op[c].name)
  BY CreatedOK
<1>2. HasBaseline(op[c].agent, op[c].path)
  BY <1>1 DEF OriginInv, CallHasBaseline, Handles, Calls
<1> QED BY <1>1, <1>2, BaselineTaken

\* Who writes managed content to a file, and where.
WrittenByCall(a, p) ==
  \E c \in DOMAIN pc : pc[c] \in {"write", "check", "applied"} /\ Handles(c, a, p)

LEMMA FilesStep ==
  ASSUME TypeInv, [Next]_vars, NEW a \in Agents, NEW p \in DOMAIN files'[a], files'[a][p] \in Managed
  PROVE  p \in DOMAIN files[a] /\ (files[a][p] \in Managed \/ WrittenByCall(a, p))
<1>0. CallsOK /\ FilesOK /\ ArchiveOK /\ Managed \subseteq Contents
  BY DEF TypeInv, Contents
<1>1. CASE files' = files
  BY <1>1
<1>2. ASSUME NEW c \in DOMAIN pc, NEW content \in Contents, pc[c] \in {"write", "check", "applied"},
             SetFile(c, content)
      PROVE  p \in DOMAIN files[a] /\ (files[a][p] \in Managed \/ WrittenByCall(a, p))
  <2>1. op[c].agent \in Agents /\ op[c].path \in DOMAIN files[op[c].agent]
    BY <1>0, <1>2 DEF CallsOK, CallOK, Calls
  <2>2. p \in DOMAIN files[a] /\ (files'[a][p] = files[a][p] \/ Handles(c, a, p))
    BY <1>0, <1>2, <2>1, SetFileOK DEF SetFile, Handles
  <2> QED BY <1>2, <2>2 DEF WrittenByCall
<1>3. ASSUME NEW c \in DOMAIN pc, Step(c)
      PROVE  p \in DOMAIN files[a] /\ (files[a][p] \in Managed \/ WrittenByCall(a, p))
  <2>1. CASE FileReplaced(c)
    <3>1. pc[c] = "write" /\ op[c].new \in Contents
      BY <1>0, <2>1, GotoOK DEF FileReplaced, Calls
    <3> QED BY <1>2, <2>1, <3>1 DEF FileReplaced
  <2>2. CASE ReadBackDiffers(c)
    <3>1. pc[c] = "check" /\ op[c].content \in Contents
      BY <1>0, <2>2, GotoOK DEF ReadBackDiffers, Return, Calls
    <3> QED BY <1>2, <2>2, <3>1 DEF ReadBackDiffers
  <2>3. CASE RolledBack(c)
    <3>1. pc[c] = "applied" /\ op[c].slot \in DOMAIN archive
      BY <1>0, <2>3, GotoOK DEF RolledBack, Return, CallOK
    <3>2. archive[op[c].slot].content \in Contents
      BY <1>0, <3>1, ArchiveFacts DEF Backups
    <3> QED BY <1>2, <2>3, <3>1, <3>2 DEF RolledBack
  <2> QED BY <1>1, <1>3, <2>1, <2>2, <2>3
          DEF Step, FindBaseline, BaselineUnreadable, BaselineMissing, Snapshot, KeyLoaded, KeyGenerated,
              KeyStored, KeyNotStored, BackupCreated, BackupExists, BackupFilled, BackupVerified,
              BackupNotVerified, ReadOriginal, ReadBack, Commit, Fails
<1>4. ASSUME NEW b \in Agents, NEW q \in DOMAIN files[b], NEW content \in Contents, Edited(b, q, content)
      PROVE  p \in DOMAIN files[a] /\ (files[a][p] \in Managed \/ WrittenByCall(a, p))
  <2>1. files' = [files EXCEPT ![b][q] = content] /\ (content \in Managed => files[b][q] \in Managed)
    BY <1>4, DataAssumption DEF Edited
  <2> QED BY <1>0, <2>1, SetFileOK
<1> QED BY <1>1, <1>3, <1>4 DEF Next, Begin, VaultPersisted, Restart, vars

LEMMA OriginStep ==
  ASSUME TypeInv, NamesInv, OriginInv, [Next]_vars
  PROVE  OriginInv'
<1>0. Grows /\ TypeInv' /\ DOMAIN pc' = DOMAIN pc
  BY TypeInvStep, OneMoves
<1>1. ASSUME NEW i \in DOMAIN archive, archive'[i].content \in Managed
      PROVE  /\ archive'[i].name = Operation
             /\ \A a \in Agents, p \in Paths : At(i, a, p)' => BackupHasOrigin(i, a, p)'
  <2>1. archive[i].content \in Managed /\ archive'[i].name = archive[i].name
        /\ archive'[i].agent = archive[i].agent /\ archive'[i].path = archive[i].path
    BY <1>0, <1>1 DEF Grows
  <2>2. \A a \in Agents, p \in Paths : At(i, a, p)' => BackupHasOrigin(i, a, p)
    BY <2>1 DEF OriginInv, At
  <2> QED BY <2>1, <2>2, OriginStays DEF OriginInv
<1>2. ASSUME NEW c \in DOMAIN pc, BackupCreated(c), NEW n, n = Len(archive) + 1,
             archive'[n].content \in Managed
      PROVE  /\ archive'[n].name = Operation
             /\ \A a \in Agents, p \in Paths : At(n, a, p)' => BackupHasOrigin(n, a, p)'
  <2>1. /\ archive'[n].agent = op[c].agent /\ archive'[n].path = op[c].path
        /\ archive'[n].name = op[c].name /\ archive'[n].content = op[c].content
    BY <1>2, CreatedAdds
  <2>2. op[c].name = Operation /\ HasBaseline(op[c].agent, op[c].path)
    BY <1>2, <2>1, CreatedHasBaseline
  <2>3. ASSUME NEW a \in Agents, NEW p \in Paths, At(n, a, p)'
        PROVE  HasBaseline(a, p)'
    <3>1. HasBaseline(a, p)
      BY <2>1, <2>2, <2>3 DEF At
    <3> QED BY <1>0, <3>1, BaselineStays
  <2> QED BY <2>1, <2>2, <2>3 DEF BackupHasOrigin
<1>3. \A i \in DOMAIN archive' : archive'[i].content \in Managed =>
         /\ archive'[i].name = Operation
         /\ \A a \in Agents, p \in Paths : At(i, a, p)' => BackupHasOrigin(i, a, p)'
  <2>1. CASE DOMAIN archive' = DOMAIN archive
    BY <1>1, <2>1
  <2>2. ASSUME NEW c \in DOMAIN pc, BackupCreated(c)
        PROVE  \A i \in DOMAIN archive' : archive'[i].content \in Managed =>
                 /\ archive'[i].name = Operation
                 /\ \A a \in Agents, p \in Paths : At(i, a, p)' => BackupHasOrigin(i, a, p)'
    <3>1. PICK n : n = Len(archive) + 1
      OBVIOUS
    <3>2. DOMAIN archive' = DOMAIN archive \cup {n}
      BY <2>2, <3>1, CreatedAdds
    <3> QED BY <1>1, <1>2, <2>2, <3>1, <3>2
  <2> QED BY <2>1, <2>2, ArchiveStep
<1>4. ASSUME NEW a \in Agents, NEW p \in DOMAIN files'[a], files'[a][p] \in Managed
      PROVE  FileHasOrigin(a, p)'
  <2>1. /\ p \in DOMAIN files[a] /\ p \in Paths
        /\ files[a][p] \in Managed \/ WrittenByCall(a, p)
    BY <1>4, FilesStep, FilesFacts DEF TypeInv
  <2>2. WrittenByCall(a, p) => HasBaseline(a, p)
    BY <2>1 DEF OriginInv, CallHasBaseline, WrittenByCall, PastBaseline
  <2>3. FileHasOrigin(a, p)
    BY <2>1, <2>2 DEF OriginInv, FileHasOrigin
  <2> QED BY <2>3, OriginStays
<1>5. \A c \in DOMAIN pc, a \in Agents, p \in Paths : CallHasBaseline(c, a, p)'
  BY CallHasBaselineStep
<1> QED BY <1>0, <1>3, <1>4, <1>5 DEF OriginInv

\* An initial state, with what the assumptions on the history say of it.
Begun(h) ==
  /\ files \in [Agents -> [h.paths -> Contents]]
  /\ \A a \in Agents, p \in h.paths : files[a][p] \in Managed <=> BackedUp(h.inherited, a, p)
  /\ h.inherited # <<>> => keychain \in Keys
  /\ cache = Unloaded
  /\ DOMAIN archive = DOMAIN h.inherited /\ DOMAIN archive = 1 .. Len(h.inherited)
  /\ Len(h.inherited) \in Nat /\ h.paths \subseteq Paths
  /\ \A i \in DOMAIN archive :
       /\ archive[i].agent = h.inherited[i].agent /\ archive[i].path = h.inherited[i].path
       /\ archive[i].content = h.inherited[i].content
       /\ archive[i].agent \in Agents /\ archive[i].path \in h.paths
       /\ archive[i].name = Operation /\ archive[i].key = keychain /\ archive[i].complete
  /\ \A i \in DOMAIN archive : archive[i].content \in Managed =>
       \E j \in DOMAIN archive :
         /\ j < i /\ archive[j].agent = archive[i].agent /\ archive[j].path = archive[i].path
         /\ archive[j].content \notin Managed
  /\ DOMAIN pc = h.callers /\ \A c \in DOMAIN pc : pc[c] = "idle"
  /\ left.read = h.read /\ left.write = h.write
  /\ left.calm => h.inherited = <<>> /\ h.read + h.write = 0 /\ \E c \in Callers : h.callers = {c}

LEMMA InitFacts == ASSUME Init PROVE \E h \in Histories : Begun(h)
<1>1. PICK h \in Histories :
        /\ files \in [Agents -> [h.paths -> Contents]]
        /\ \A a \in Agents, p \in h.paths : files[a][p] \in Managed <=> BackedUp(h.inherited, a, p)
        /\ keychain \in IF h.firstUse THEN {NoKey} ELSE Keys
        /\ cache = Unloaded
        /\ archive = [i \in DOMAIN h.inherited |->
                        [agent |-> h.inherited[i].agent, name |-> Operation,
                         path |-> h.inherited[i].path, content |-> h.inherited[i].content,
                         key |-> keychain, complete |-> TRUE]]
        /\ pc = [c \in h.callers |-> "idle"]
        /\ left = [read |-> h.read, write |-> h.write, crash |-> h.crash,
                   calm |-> h.inherited = <<>> /\ h.read + h.write = 0 /\ \E c \in Callers : h.callers = {c}]
  BY DEF Init
<1>2. /\ h.paths \subseteq Paths /\ h.firstUse \in BOOLEAN
      /\ h.inherited \in Seq([agent : Agents, path : h.paths, content : Contents])
      /\ h.firstUse => h.inherited = <<>>
      /\ \A i \in DOMAIN h.inherited : h.inherited[i].content \in Managed =>
           \E j \in 1 .. i - 1 : /\ h.inherited[j].agent = h.inherited[i].agent
                                 /\ h.inherited[j].path = h.inherited[i].path
                                 /\ h.inherited[j].content \notin Managed
  BY HistoriesAssumption
<1>3. Len(h.inherited) \in Nat /\ DOMAIN h.inherited = 1 .. Len(h.inherited)
  BY <1>2, LenProperties
<1>4. \A i \in 1 .. Len(h.inherited) : h.inherited[i] \in [agent : Agents, path : h.paths, content : Contents]
  BY <1>2, ElementOfSeq
<1>5. DOMAIN archive = 1 .. Len(h.inherited)
  BY <1>1, <1>3
<1>6. \A i \in DOMAIN archive :
        /\ archive[i].agent = h.inherited[i].agent /\ archive[i].path = h.inherited[i].path
        /\ archive[i].content = h.inherited[i].content
        /\ archive[i].agent \in Agents /\ archive[i].path \in h.paths
        /\ archive[i].name = Operation /\ archive[i].key = keychain /\ archive[i].complete
  BY <1>1, <1>3, <1>4, <1>5
<1>7. ASSUME NEW i \in DOMAIN archive, archive[i].content \in Managed
      PROVE  \E j \in DOMAIN archive :
               /\ j < i /\ archive[j].agent = archive[i].agent /\ archive[j].path = archive[i].path
               /\ archive[j].content \notin Managed
  <2>1. PICK j \in 1 .. i - 1 : /\ h.inherited[j].agent = h.inherited[i].agent
                               /\ h.inherited[j].path = h.inherited[i].path
                               /\ h.inherited[j].content \notin Managed
    BY <1>2, <1>3, <1>5, <1>6, <1>7
  <2>2. j \in DOMAIN archive /\ j < i
    BY <1>3, <1>5
  <2> QED BY <1>6, <2>1, <2>2
<1>8. h.inherited # <<>> => keychain \in Keys
  BY <1>1, <1>2
<1>9. DOMAIN pc = h.callers /\ \A c \in DOMAIN pc : pc[c] = "idle"
  BY <1>1
<1> QED BY <1>1, <1>2, <1>3, <1>5, <1>6, <1>7, <1>8, <1>9 DEF Begun

LEMMA NamesInit == Init => NamesInv
<1> SUFFICES ASSUME Init PROVE NamesInv
  OBVIOUS
<1>1. (\A i \in DOMAIN archive : archive[i].name = Operation) /\ \A c \in DOMAIN pc : pc[c] = "idle"
  BY InitFacts DEF Begun
<1> QED BY <1>1, NamesDiffer DEF NamesInv, NameFound

LEMMA OriginInit == ASSUME OnlyCalmReads, Init PROVE OriginInv
<1>1. PICK h \in Histories : Begun(h)
  BY InitFacts
<1> USE DEF Begun
<1>2. ASSUME NEW i \in DOMAIN archive
      PROVE  Steady
  <2>1. h.inherited # <<>>
    BY <1>1, <1>2
  <2> QED BY <1>1, <2>1 DEF Steady, SteadyCall, OnlyCalmReads
<1>3. ASSUME NEW i \in DOMAIN archive, archive[i].content \in Managed, NEW a, NEW p, At(i, a, p)
      PROVE  BackupHasOrigin(i, a, p)
  BY <1>1, <1>2, <1>3 DEF BackupHasOrigin, OldNative, At
<1>4. ASSUME NEW a \in Agents, NEW p \in DOMAIN files[a], files[a][p] \in Managed
      PROVE  FileHasOrigin(a, p)
  <2>1. p \in h.paths
    BY <1>1
  <2>2. PICK i \in DOMAIN archive : archive[i].agent = a /\ archive[i].path = p
    BY <1>1, <1>4, <2>1 DEF BackedUp
  <2>3. CASE archive[i].content \in Managed
    BY <1>3, <2>2, <2>3 DEF At, BackupHasOrigin, FileHasOrigin
  <2>4. CASE archive[i].content \notin Managed
    BY <1>1, <1>2, <2>2, <2>4 DEF OldNative, FileHasOrigin
  <2> QED BY <2>3, <2>4
<1>5. \A c \in DOMAIN pc, a \in Agents, p \in Paths : CallHasBaseline(c, a, p)
  BY <1>1 DEF CallHasBaseline
<1> QED BY <1>1, <1>3, <1>4, <1>5 DEF OriginInv

\* Whatever two transactions, a crash, an edit, a move of the configuration, a
\* lost write of the key or an upgrade do, a baseline never holds managed
\* content (BaselineIsNative), if the secret store answers where backups were
\* inherited that need it.
THEOREM BaselinesAreNative == OnlyCalmReads => (Spec => []BaselineIsNative)
<1> SUFFICES ASSUME OnlyCalmReads PROVE Spec => []BaselineIsNative
  OBVIOUS
<1>1. Init => TypeInv /\ NamesInv /\ OriginInv
  BY TypeInit, NamesInit, OriginInit
<1>2. TypeInv /\ NamesInv /\ OriginInv /\ [Next]_vars => (TypeInv /\ NamesInv /\ OriginInv)'
  BY TypeInvStep, NamesStep, OriginStep
<1>3. OriginInv => BaselineIsNative
  BY DEF OriginInv, BaselineIsNative
<1> QED BY <1>1, <1>2, <1>3, PTL DEF Spec

-----------------------------------------------------------------------------
(* On calm histories *)

LEMMA CalmGet ==
  ASSUME TypeInv, CalmStore, NEW k, Get(k)
  PROVE  k = keychain /\ left' = left /\ cache' \in {Unloaded, keychain} /\ (~Vault => cache' = Unloaded)
<1>1. keychain # Unloaded
  BY KeysAssumption DEF TypeInv, KeysOK
<1> QED BY <1>1 DEF TypeInv, CalmStore, Get, LiveKey, Cached, LeftOK

\* A step that only reads the key, and may move the one call.
LEMMA CalmRead ==
  ASSUME TypeInv, CalmKeys, NEW c \in DOMAIN pc, DOMAIN pc' = DOMAIN pc,
         UNCHANGED <<archive, keychain>>,
         UNCHANGED <<cache, left>> \/ \E k : Get(k),
         CalmCall(c)'
  PROVE  CalmKeys'
<1>1. CalmStore'
  BY CalmGet DEF CalmKeys, CalmStore
<1> QED BY <1>1 DEF CalmKeys, CalmArchive

LEMMA EmptyArchive == ASSUME ArchiveOK PROVE archive = <<>> <=> DOMAIN archive = {}
BY ArchiveFacts, EmptySeq DEF ArchiveOK

LEMMA CalmKeysStep ==
  ASSUME TypeInv, CalmKeys, [Next]_vars
  PROVE  CalmKeys'
<1>0. TypeInv' /\ Grows /\ CallsOK /\ DOMAIN pc' = DOMAIN pc
  BY TypeInvStep, OneMoves DEF TypeInv
<1>1. ASSUME NEW c \in DOMAIN pc, Step(c)
      PROVE  CalmKeys'
  <2> DEFINE Far == pc'[c] \notin {"put", "create", "fill", "verify", "write", "check", "applied"}
  <2>1. CASE FindBaseline(c) \/ BaselineUnreadable(c) \/ BackupNotVerified(c) \/ RolledBack(c)
    <3>1. Far
      BY <1>0, <2>1, GotoOK DEF FindBaseline, BaselineUnreadable, BackupNotVerified, RolledBack, Return
    <3> QED BY <1>0, <2>1, <3>1, CalmRead
            DEF FindBaseline, BaselineUnreadable, BackupNotVerified, RolledBack, CalmCall
  <2>2. CASE BaselineMissing(c) \/ Snapshot(c)
    <3>1. Far
      BY <1>0, <2>2, GotoOK DEF BaselineMissing, Snapshot
    <3> QED BY <1>0, <2>2, <3>1, CalmRead DEF BaselineMissing, Snapshot, GetToRead, CalmCall
  <2>3. CASE BackupExists(c) \/ ReadOriginal(c) \/ ReadBackDiffers(c) \/ Commit(c) \/ Fails(c)
    <3>1. \E from, to : to \in {"idle", "key"} /\ Goto(c, from, to)
      BY <2>3 DEF BackupExists, ReadOriginal, ReadBackDiffers, Commit, Fails, Return
    <3>2. Far
      BY <1>0, <3>1, GotoOK
    <3> QED BY <1>0, <2>3, <3>2, CalmRead
            DEF BackupExists, ReadOriginal, ReadBackDiffers, Commit, Fails, CalmCall
  <2>4. CASE KeyLoaded(c)
    <3>1. PICK k \in Keys : /\ Goto(c, "key", "create") /\ Get(k) /\ op' = [op EXCEPT ![c].key = k]
                            /\ UNCHANGED <<archive, keychain>>
      BY <2>4 DEF KeyLoaded
    <3>2. k = keychain /\ op[c] \in Calls /\ pc'[c] = "create"
      BY <1>0, <3>1, CalmGet, GotoOK DEF CalmKeys
    <3>3. op'[c].key = keychain
      BY <1>0, <3>1, <3>2 DEF CallsOK, Calls
    <3> QED BY <1>0, <3>1, <3>2, <3>3, CalmRead DEF CalmCall
  <2>5. CASE KeyGenerated(c)
    <3>1. Get(NoKey) /\ pc'[c] = "put" /\ UNCHANGED <<archive, keychain>>
      BY <1>0, <2>5, GotoOK DEF KeyGenerated
    <3>2. archive = <<>>
      BY <3>1, CalmGet, KeysAssumption DEF CalmKeys, CalmArchive
    <3> QED BY <1>0, <3>1, <3>2, CalmRead DEF CalmCall
  <2>6. CASE KeyStored(c)
    <3>1. /\ pc[c] = "put" /\ pc'[c] = "create" /\ op[c].key \in Keys /\ op' = op /\ keychain' = op[c].key
          /\ cache' = IF Vault THEN op[c].key ELSE cache
          /\ archive' = archive /\ left' = left
      BY <1>0, <2>6, GotoOK DEF KeyStored, CallOK, CacheAfterPut
    <3>2. archive = <<>> /\ DOMAIN archive = {}
      BY <3>1, EmptyArchive DEF CalmKeys, CalmCall, TypeInv
    <3> QED BY <1>0, <3>1, <3>2 DEF CalmKeys, CalmStore, CalmArchive, CalmCall
  <2>7. CASE KeyNotStored(c)
    BY <2>7 DEF KeyNotStored, CalmKeys, CalmStore
  <2>8. CASE BackupCreated(c)
    <3>1. PICK n : n = Len(archive) + 1
      OBVIOUS
    <3>2. /\ pc[c] = "create" /\ pc'[c] = "fill" /\ op[c] \in Calls /\ CallOK(c)
          /\ DOMAIN archive' = DOMAIN archive \cup {n}
          /\ \A i \in DOMAIN archive : archive'[i] = archive[i]
          /\ archive'[n].key = op[c].key /\ UNCHANGED <<keychain, cache, left>>
      BY <1>0, <2>8, <3>1, CreatedAdds DEF CallsOK
    <3>3. op[c].key = keychain /\ op[c].key \in Keys
      BY <3>2 DEF CalmKeys, CalmCall, CallOK
    <3>4. op'[c].key = op[c].key
      BY <1>0, <2>8, <3>2 DEF BackupCreated, CallsOK, Calls
    <3>5. CalmArchive'
      BY <3>2, <3>3 DEF CalmKeys, CalmArchive
    <3> QED BY <1>0, <3>2, <3>3, <3>4, <3>5 DEF CalmKeys, CalmStore, CalmCall
  <2>9. CASE BackupFilled(c)
    <3>1. pc[c] = "fill" /\ pc'[c] = "verify" /\ op' = op /\ UNCHANGED <<keychain, cache, left>>
      BY <1>0, <2>9, GotoOK DEF BackupFilled
    <3>2. DOMAIN archive' = DOMAIN archive /\ archive # <<>> /\ CallOK(c)
      BY <1>0, <2>9, <3>1, EmptyArchive DEF BackupFilled, CallsOK, CallOK, TypeInv
    <3>3. CalmArchive'
      BY <1>0, <3>1, <3>2 DEF CalmKeys, CalmArchive, Grows
    <3> QED BY <1>0, <3>1, <3>3 DEF CalmKeys, CalmStore, CalmCall
  <2>10. CASE BackupVerified(c)
    <3>1. /\ pc[c] = "verify" /\ CallOK(c) /\ archive[op[c].slot].complete
          /\ pc'[c] = IF op[c].name = Operation THEN "write" ELSE "read"
          /\ op[c].name = Operation => op' = op
          /\ UNCHANGED <<archive, keychain>> /\ \E k : Get(k)
      BY <1>0, <2>10, GotoOK DEF BackupVerified, Decrypts
    <3>2. CalmCall(c)'
      BY <3>1 DEF CalmCall
    <3> QED BY <1>0, <3>1, <3>2, CalmRead
  <2>11. CASE FileReplaced(c) \/ ReadBack(c)
    <3>1. /\ pc[c] \in {"write", "check"} /\ pc'[c] \in {"check", "applied"} /\ op' = op
          /\ UNCHANGED <<archive, keychain, cache, left>>
      BY <1>0, <2>11, GotoOK DEF FileReplaced, ReadBack
    <3>2. CalmCall(c)'
      BY <3>1 DEF CalmKeys, CalmCall
    <3> QED BY <1>0, <3>1, <3>2, CalmRead
  <2> QED BY <1>1, <2>1, <2>2, <2>3, <2>4, <2>5, <2>6, <2>7, <2>8, <2>9, <2>10, <2>11 DEF Step
<1>2. ASSUME NEW c \in DOMAIN pc, Started(c)
      PROVE  CalmKeys'
  <2>1. pc'[c] = "baseline" /\ UNCHANGED <<archive, keychain, cache, left>>
    BY <1>0, <1>2, GotoOK DEF Started, Begin
  <2> QED BY <1>0, <2>1, CalmRead DEF CalmCall
<1>3. CASE VaultPersisted
  <2>1. keychain' = keychain /\ UNCHANGED <<archive, cache, left, pc, op>>
    BY <1>3 DEF VaultPersisted, Cached, CalmKeys, CalmStore
  <2> QED BY <2>1 DEF CalmKeys, CalmStore, CalmArchive, CalmCall
<1>4. CASE Restart
  BY <1>4 DEF Restart, CalmKeys, CalmStore, CalmArchive, CalmCall, TypeInv, LeftOK
<1>5. CASE UNCHANGED <<archive, keychain, cache, left, pc, op>>
  BY <1>5 DEF CalmKeys, CalmStore, CalmArchive, CalmCall
<1>6. Managed \subseteq Contents /\ Absent \in Contents
  BY DEF Contents
<1> QED BY <1>1, <1>2, <1>3, <1>4, <1>5, <1>6 DEF Next, Started, Edited, vars

\* What can be read stays readable: no baseline is begun where there is one.
LEMMA ReadableStays ==
  ASSUME TypeInv, NamesInv, [Next]_vars, NEW a, NEW p, Readable(a, p)
  PROVE  Readable(a, p)'
<1>1. Grows /\ HasBaseline(a, p)'
  BY TypeInvStep, BaselineStays DEF Readable
<1>2. CASE DOMAIN archive' = DOMAIN archive
  BY <1>1, <1>2 DEF Readable, Grows
<1>3. ASSUME NEW c \in DOMAIN pc, BackupCreated(c)
      PROVE  Readable(a, p)'
  <2>1. PICK n : n = Len(archive) + 1
    OBVIOUS
  <2>2. /\ pc[c] = "create" /\ NameIsFree(op[c].agent, op[c].name)
        /\ DOMAIN archive' = DOMAIN archive \cup {n}
        /\ \A i \in DOMAIN archive : archive'[i] = archive[i]
        /\ archive'[n].agent = op[c].agent /\ archive'[n].name = op[c].name
    BY <1>3, <2>1, CreatedAdds
  <2>3. CASE op[c].agent = a /\ op[c].name = Legacy
    <3>1. Named(a, Legacy) # {}
      BY DEF Readable, HasBaseline, NamesInv, OtherLegacy, Named
    <3> QED BY <2>2, <2>3, <3>1, NamesDiffer DEF NameIsFree
  <2>4. CASE op[c].agent = a /\ op[c].name = Scoped(p)
    <3>1. op[c].path = p /\ op[c].name # Operation
      BY <2>2, <2>4, NamesDiffer DEF NamesInv, NameFound
    <3> QED BY <2>2, <2>4, <3>1, BaselineTaken DEF Readable
  <2> QED BY <1>1, <2>2, <2>3, <2>4 DEF Readable
<1> QED BY <1>2, <1>3, ArchiveStep

\* A legacy baseline stays the only one.
LEMMA LegacyStaysReadable ==
  ASSUME TypeInv, [Next]_vars, NEW a, NEW p, OtherLegacy(a, p), LegacyReadable(a)
  PROVE  LegacyReadable(a)'
<1>1. Grows
  BY TypeInvStep
<1>2. CASE DOMAIN archive' = DOMAIN archive
  BY <1>1, <1>2 DEF LegacyReadable, Named, Grows
<1>3. ASSUME NEW c \in DOMAIN pc, BackupCreated(c)
      PROVE  LegacyReadable(a)'
  <2>1. PICK n : n = Len(archive) + 1
    OBVIOUS
  <2>2. /\ NameIsFree(op[c].agent, op[c].name)
        /\ DOMAIN archive' = DOMAIN archive \cup {n}
        /\ \A i \in DOMAIN archive : archive'[i] = archive[i]
        /\ archive'[n].agent = op[c].agent /\ archive'[n].name = op[c].name
    BY <1>3, <2>1, CreatedAdds
  <2>3. ~(op[c].agent = a /\ op[c].name = Legacy)
    BY <2>2, NamesDiffer DEF NameIsFree, OtherLegacy
  <2> QED BY <2>2, <2>3 DEF LegacyReadable, Named
<1> QED BY <1>2, <1>3, ArchiveStep

\* Where the legacy baseline is this path's, it is the only one of the path.
LEMMA LegacyAlone ==
  ASSUME NamesInv, NEW a, NEW p, ~OtherLegacy(a, p), NEW i \in DOMAIN archive, archive[i].agent = a
  PROVE  archive[i].name # Scoped(p)
<1> SUFFICES ASSUME archive[i].name = Scoped(p) PROVE FALSE
  OBVIOUS
<1>1. archive[i].path = p
  BY NamesDiffer DEF NamesInv
<1> QED BY <1>1 DEF NamesInv

\* What baseline() has read.
LEMMA FoundIsReadable ==
  ASSUME NamesInv, NEW a, NEW p, NEW i \in Named(a, BaselineName(a, p)),
         \A j \in BaselineFiles(a, p) : archive[j].complete
  PROVE  Readable(a, p)
<1>1. i \in DOMAIN archive /\ archive[i].agent = a /\ archive[i].name = BaselineName(a, p)
  BY DEF Named
<1>2. archive[i].path = p /\ archive[i].name # Operation
  BY <1>1, NamesDiffer DEF BaselineName, Named, NamesInv
<1>3. HasBaseline(a, p)
  BY <1>1, <1>2 DEF HasBaseline
<1>4. CASE OtherLegacy(a, p)
  <2>1. BaselineName(a, p) = Scoped(p)
    BY <1>4 DEF BaselineName, OtherLegacy
  <2> QED BY <1>3, <2>1 DEF Readable, BaselineFiles, Named
<1>5. CASE ~OtherLegacy(a, p)
  BY <1>3, <1>5, LegacyAlone DEF Readable, BaselineFiles, Named
<1> QED BY <1>4, <1>5

\* What a call has made and verified.
LEMMA MadeIsReadable ==
  ASSUME TypeInv, NamesInv, NEW a, NEW p, NEW i \in DOMAIN archive, At(i, a, p),
         archive[i].name # Operation, archive[i].complete,
         archive[i].name = Scoped(p) => LegacyReadable(a)
  PROVE  Readable(a, p)
<1>1. HasBaseline(a, p)
  BY DEF HasBaseline, At
<1>2. CASE archive[i].name = Legacy
  <2>1. \A j \in DOMAIN archive : archive[j].agent = a /\ archive[j].name = Legacy => j = i
    BY <1>2, NamesDiffer DEF NamesInv, At
  <2>2. ~OtherLegacy(a, p)
    BY <2>1 DEF OtherLegacy, Named, At
  <2> QED BY <1>1, <2>1, <2>2, LegacyAlone DEF Readable
<1>3. CASE archive[i].name = Scoped(p)
  <2>1. \A j \in DOMAIN archive : archive[j].agent = a /\ archive[j].name = Scoped(p) => j = i
    BY <1>3, NamesDiffer DEF NamesInv, At
  <2> QED BY <1>1, <1>3, <2>1 DEF Readable, LegacyReadable, Named
<1> QED BY <1>2, <1>3 DEF NamesInv, At

LEMMA CalmBaselineStep ==
  ASSUME TypeInv, NamesInv, CalmKeys, CalmBaselines, [Next]_vars,
         NEW c \in DOMAIN pc, NEW a \in Agents, NEW p \in Paths
  PROVE  CalmBaseline(c, a, p)'
<1>0. CallsOK /\ CalmBaseline(c, a, p) /\ CalmStore
  BY DEF TypeInv, CalmBaselines, CalmKeys
<1> SUFFICES ASSUME pc'[c] # "idle", Handles(c, a, p)'
             PROVE  /\ PastBaseline(c)' => Readable(a, p)'
                    /\ op'[c].name = Scoped(p) => LegacyReadable(a)'
  BY DEF CalmBaseline
<1> DEFINE Goal == /\ PastBaseline(c)' => Readable(a, p)'
                   /\ op'[c].name = Scoped(p) => LegacyReadable(a)'
           Kept == pc[c] # "idle" /\ Handles(c, a, p) /\ op'[c].name = op[c].name
<1>1. ASSUME Kept
      PROVE  op'[c].name = Scoped(p) => LegacyReadable(a)'
  <2>1. CASE op[c].name = Scoped(p)
    <3>1. OtherLegacy(a, p) /\ LegacyReadable(a)
      BY <1>0, <1>1, <2>1 DEF NamesInv, NameFound, CalmBaseline, Handles
    <3> QED BY <3>1, LegacyStaysReadable
  <2> QED BY <1>1, <2>1
<1>2. ASSUME Kept, PastBaseline(c)' => PastBaseline(c) \/ Readable(a, p)
      PROVE  Goal
  BY <1>0, <1>1, <1>2, ReadableStays DEF CalmBaseline
<1>3. CASE Still(c)
  BY <1>2, <1>3 DEF Still, Handles, PastBaseline
<1>4. CASE FindBaseline(c)
  <2>0. PICK i \in Named(op[c].agent, BaselineName(op[c].agent, op[c].path)) :
          op' = [op EXCEPT ![c] = WithTarget(c, i)]
    BY <1>4 DEF FindBaseline
  <2>1. /\ i \in Named(op[c].agent, BaselineName(op[c].agent, op[c].path)) /\ i \in DOMAIN archive
        /\ op' = [op EXCEPT ![c] = WithTarget(c, i)]
        /\ \A j \in BaselineFiles(op[c].agent, op[c].path) : archive[j].complete
    BY <1>4, <2>0 DEF FindBaseline, Named, Decrypts
  <2>2. pc[c] = "baseline" /\ op'[c] = WithTarget(c, i)
    BY <1>0, <1>4, <2>1, GotoOK DEF FindBaseline, CallsOK
  <2>3. Kept
    BY <2>1, <2>2, WithTargetOK DEF TypeInv, Handles
  <2>4. Readable(a, p)
    BY <2>1, <2>3, FoundIsReadable DEF Handles
  <2> QED BY <1>2, <2>3, <2>4
<1>5. CASE BackupVerified(c)
  <2>1. /\ pc[c] = "verify" /\ pc'[c] = IF op[c].name = Operation THEN "write" ELSE "read"
        /\ CallOK(c) /\ archive[op[c].slot].complete
    BY <1>0, <1>5, GotoOK DEF BackupVerified, Decrypts
  <2>2. CASE op[c].name = Operation
    BY <1>2, <1>5, <2>1, <2>2 DEF BackupVerified, PastBaseline, Handles
  <2>3. CASE op[c].name # Operation
    <3>1. /\ op[c].slot \in DOMAIN archive /\ At(op[c].slot, op[c].agent, op[c].path)
          /\ archive[op[c].slot].name = op[c].name
      BY <2>1 DEF CallOK, At
    <3>2. op'[c] = WithTarget(c, op[c].slot)
      BY <1>0, <1>5, <2>3 DEF BackupVerified, CallsOK
    <3>3. Kept
      BY <2>1, <3>1, <3>2, WithTargetOK DEF TypeInv, Handles
    <3>4. PICK i \in DOMAIN archive : i = op[c].slot
      BY <3>1
    <3>5. /\ At(i, a, p) /\ archive[i].name # Operation /\ archive[i].complete
          /\ archive[i].name = Scoped(p) => LegacyReadable(a)
      BY <1>0, <2>1, <2>3, <3>1, <3>3, <3>4 DEF CalmBaseline, Handles
    <3>6. Readable(a, p)
      BY <3>5, MadeIsReadable
    <3> QED BY <1>2, <3>3, <3>6
  <2> QED BY <2>2, <2>3
<1>6. CASE BaselineMissing(c)
  <2>1. PICK k : /\ GetToRead(Named(op[c].agent, Legacy), k)
                 /\ \A i \in Named(op[c].agent, Legacy) : Decrypts(k, i)
    BY <1>6 DEF BaselineMissing
  <2>2. /\ op[c] \in Calls /\ pc'[c] = "snapshot" /\ archive' = archive
        /\ op' = [op EXCEPT ![c].name = BaselineName(op[c].agent, op[c].path)]
    BY <1>0, <1>6, GotoOK DEF BaselineMissing
  <2>3. op[c].agent = a
    BY <1>0, <2>2 DEF CallsOK, Calls, Handles
  <2>4. LegacyReadable(a)'
    BY <2>1, <2>2, <2>3 DEF LegacyReadable, Named, Decrypts
  <2> QED BY <2>2, <2>4 DEF PastBaseline
<1>7. CASE Snapshot(c)
  <2>1. pc[c] = "snapshot" /\ pc'[c] = "key" /\ op[c] \in Calls /\ op[c].name # Operation
    BY <1>0, <1>7, GotoOK DEF Snapshot, CallOK
  <2>2. PICK k : op' = [op EXCEPT ![c].content =
                          IF Matching(op[c].agent, op[c].path, k) # {}
                            THEN archive[Earliest(Matching(op[c].agent, op[c].path, k))].content
                            ELSE files[op[c].agent][op[c].path]]
    BY <1>7 DEF Snapshot
  <2>3. Kept
    BY <1>0, <2>1, <2>2 DEF CallsOK, Calls, Handles
  <2> QED BY <1>2, <2>1, <2>3 DEF PastBaseline
<1>8. CASE KeyLoaded(c) \/ KeyGenerated(c)
  <2>1. pc[c] = "key" /\ pc'[c] \in {"create", "put"} /\ op[c] \in Calls /\ \E k : op' = [op EXCEPT ![c].key = k]
    BY <1>0, <1>8, GotoOK DEF KeyLoaded, KeyGenerated
  <2>2. Kept
    BY <1>0, <2>1 DEF CallsOK, Calls, Handles
  <2> QED BY <1>2, <2>1, <2>2 DEF PastBaseline
<1>9. CASE BackupCreated(c)
  <2>1. pc[c] = "create" /\ pc'[c] = "fill" /\ op[c] \in Calls /\ op' = [op EXCEPT ![c].slot = Len(archive) + 1]
    BY <1>0, <1>9, GotoOK DEF BackupCreated
  <2>2. Kept
    BY <1>0, <2>1 DEF CallsOK, Calls, Handles
  <2> QED BY <1>2, <2>1, <2>2 DEF PastBaseline
<1>10. CASE ReadOriginal(c)
  <2>1. pc[c] = "read" /\ op[c] \in Calls /\ PastBaseline(c)
    BY <1>0, <1>10, GotoOK DEF ReadOriginal, PastBaseline
  <2>2. PICK n : op' = [op EXCEPT ![c].new = n, ![c].name = Operation,
                                  ![c].content = files[op[c].agent][op[c].path]]
    BY <1>10 DEF ReadOriginal
  <2>3. op'[c].agent = op[c].agent /\ op'[c].path = op[c].path /\ op'[c].name = Operation
    BY <1>0, <2>1, <2>2 DEF CallsOK, Calls
  <2> QED BY <1>0, <2>1, <2>3, ReadableStays, NamesDiffer DEF CalmBaseline, Handles
<1>11. CASE KeyStored(c) \/ BackupFilled(c) \/ FileReplaced(c) \/ ReadBack(c)
  BY <1>0, <1>2, <1>11, GotoOK DEF KeyStored, BackupFilled, FileReplaced, ReadBack, PastBaseline, CallOK, Handles
<1>12. CASE Step(c)
  BY <1>0, <1>4, <1>5, <1>6, <1>7, <1>8, <1>9, <1>10, <1>11, <1>12, GotoOK
     DEF Step, BaselineUnreadable, KeyNotStored, BackupExists, BackupNotVerified, ReadBackDiffers,
         Commit, RolledBack, Fails, Return
<1>13. CASE Started(c)
  <2>1. PICK b, q, m, r : Begin(c, b, q, m, r)
    BY <1>13 DEF Started
  <2>2. pc'[c] = "baseline" /\ op'[c].name = Operation
    BY <1>0, <2>1, GotoOK DEF Begin, CallsOK
  <2> QED BY <2>2, NamesDiffer DEF PastBaseline
<1> QED BY <1>3, <1>12, <1>13, OneMoves

LEMMA CalmBaselinesStep ==
  ASSUME TypeInv, NamesInv, CalmKeys, CalmBaselines, [Next]_vars
  PROVE  CalmBaselines'
<1>1. ASSUME NEW a \in Agents, NEW p \in DOMAIN files'[a], files'[a][p] \in Managed
      PROVE  Readable(a, p)'
  <2>1. /\ p \in DOMAIN files[a] /\ p \in Paths
        /\ files[a][p] \in Managed \/ WrittenByCall(a, p)
    BY <1>1, FilesStep, FilesFacts DEF TypeInv
  <2>2. WrittenByCall(a, p) => Readable(a, p)
    BY <2>1 DEF CalmBaselines, CalmBaseline, WrittenByCall, PastBaseline
  <2> QED BY <2>1, <2>2, ReadableStays DEF CalmBaselines
<1> QED BY <1>1, CalmBaselineStep, OneMoves DEF CalmBaselines

LEMMA CalmStep ==
  ASSUME TypeInv, NamesInv, CalmInv, [Next]_vars
  PROVE  CalmInv'
<1>1. left'.calm = left.calm
  <2>1. ASSUME NEW k, Get(k) PROVE left'.calm = left.calm
    BY <2>1 DEF Get, TypeInv, LeftOK
  <2>2. ASSUME NEW c \in DOMAIN pc, Step(c) PROVE left'.calm = left.calm
    <3>1. UNCHANGED left \/ KeyNotStored(c) \/ \E k : Get(k)
      BY <2>2 DEF Step, FindBaseline, BaselineUnreadable, BaselineMissing, Snapshot, KeyLoaded, KeyGenerated,
           KeyStored, BackupCreated, BackupExists, BackupFilled, BackupVerified, BackupNotVerified, ReadOriginal,
           FileReplaced, ReadBack, ReadBackDiffers, Commit, RolledBack, Fails, GetToRead
    <3> QED BY <2>1, <3>1 DEF KeyNotStored, TypeInv, LeftOK
  <2> QED BY <2>2 DEF Next, Begin, Edited, VaultPersisted, Restart, vars, TypeInv, LeftOK
<1> QED BY <1>1, CalmKeysStep, CalmBaselinesStep DEF CalmInv

LEMMA CalmInit == Init => CalmInv
<1> SUFFICES ASSUME Init, left.calm PROVE CalmKeys /\ CalmBaselines
  BY DEF CalmInv
<1>1. PICK h \in Histories : Begun(h)
  BY InitFacts
<1>2. h.read \in Nat /\ h.write \in Nat
  BY HistoriesAssumption
<1>3. /\ h.inherited = <<>> /\ h.read = 0 /\ h.write = 0
      /\ \E c \in Callers : DOMAIN pc = {c}
  BY <1>1, <1>2 DEF Begun
<1>4. archive = <<>> /\ DOMAIN archive = {}
  BY <1>1, <1>3, TypeInit, EmptyArchive DEF Begun, TypeInv
<1>5. CalmKeys
  BY <1>1, <1>3, <1>4 DEF Begun, CalmKeys, CalmStore, CalmArchive, CalmCall
<1>6. \A a \in Agents : \A p \in DOMAIN files[a] : files[a][p] \notin Managed
  BY <1>1, <1>3, <1>4 DEF Begun, BackedUp
<1>7. \A c \in DOMAIN pc, a \in Agents, p \in Paths : CalmBaseline(c, a, p)
  BY <1>1 DEF Begun, CalmBaseline
<1> QED BY <1>5, <1>6, <1>7 DEF CalmBaselines

LEMMA ReadableIsRecoverable ==
  ASSUME TypeInv, NamesInv, CalmKeys, NEW a, NEW p, Readable(a, p)
  PROVE  Recoverable(a, p)
<1>1. PICK i \in DOMAIN archive : archive[i].agent = a /\ archive[i].path = p /\ archive[i].name # Operation
  BY DEF Readable, HasBaseline
<1>2. keychain # NoKey
  BY <1>1, EmptyArchive, KeysAssumption DEF CalmKeys, CalmArchive, TypeInv
<1>3. \A j \in BaselineFiles(a, p) : Decrypts(keychain, j)
  BY <1>2, FoundName DEF BaselineFiles, Named, Readable, CalmKeys, CalmArchive, Decrypts
<1>4. Named(a, BaselineName(a, p)) # {}
  <2>1. CASE archive[i].name = Legacy
    <3>1. ~OtherLegacy(a, p)
      BY <1>1, <2>1 DEF NamesInv, OtherLegacy, Named
    <3>2. BaselineName(a, p) = Legacy
      BY <3>1 DEF BaselineName, OtherLegacy
    <3> QED BY <1>1, <2>1, <3>2 DEF Named
  <2>2. CASE archive[i].name = Scoped(p)
    <3>1. OtherLegacy(a, p)
      BY <1>1, <2>2 DEF NamesInv
    <3>2. BaselineName(a, p) = Scoped(p)
      BY <3>1 DEF BaselineName, OtherLegacy
    <3> QED BY <1>1, <2>2, <3>2 DEF Named
  <2> QED BY <1>1, <2>1, <2>2 DEF NamesInv
<1> QED BY <1>3, <1>4 DEF Recoverable

LEMMA CalmCorrect == Spec => [](TypeInv /\ NamesInv /\ CalmInv)
<1>1. Init => TypeInv /\ NamesInv /\ CalmInv
  BY TypeInit, NamesInit, CalmInit
<1>2. TypeInv /\ NamesInv /\ CalmInv /\ [Next]_vars => (TypeInv /\ NamesInv /\ CalmInv)'
  BY TypeInvStep, NamesStep, CalmStep
<1> QED BY <1>1, <1>2, PTL DEF Spec

\* On a new installation, with one transaction at a time and a secret store
\* that answers, what the user had in a managed file can be had back at any
\* moment, through crashes, edits and moves (ManagedIsRecoverable).
THEOREM ManagedStaysRecoverable == Spec => []ManagedIsRecoverable
<1>1. TypeInv /\ NamesInv /\ CalmInv => ManagedIsRecoverable
  BY ReadableIsRecoverable DEF CalmInv, CalmBaselines, ManagedIsRecoverable
<1> QED BY <1>1, CalmCorrect, PTL

\* There, from the moment the file may be replaced until the call returns, the
\* backup to roll back to decrypts and holds what was read (RollbackStaysPossible).
THEOREM RollbackAlwaysPossible == Spec => []RollbackStaysPossible
<1>1. ASSUME TypeInv, CalmInv, left.calm, NEW c \in DOMAIN pc, pc[c] \in {"write", "check", "applied"}
      PROVE  Decrypts(LiveKey, op[c].slot) /\ archive[op[c].slot].content = op[c].content
  <2>1. CalmKeys
    BY <1>1 DEF CalmInv
  <2>2. /\ op[c].slot \in DOMAIN archive /\ archive[op[c].slot].content = op[c].content
        /\ archive[op[c].slot].complete
    BY <1>1, <2>1 DEF TypeInv, CallsOK, CallOK, CalmKeys, CalmCall
  <2>3. archive[op[c].slot].key = keychain /\ keychain # NoKey /\ LiveKey = keychain
    BY <1>1, <2>1, <2>2, EmptyArchive, KeysAssumption
       DEF CalmKeys, CalmArchive, CalmStore, LiveKey, Cached, TypeInv
  <2> QED BY <2>2, <2>3 DEF Decrypts
<1>2. TypeInv /\ NamesInv /\ CalmInv => RollbackStaysPossible
  BY <1>1 DEF RollbackStaysPossible
<1> QED BY <1>2, CalmCorrect, PTL
=============================================================================
