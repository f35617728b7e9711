---------------------------- MODULE Agents_proofs ----------------------------
(* Theorems about Agents: those with files, for any providers, models of the  *)
(* user's and scopes, and however often anything is switched, restored or     *)
(* chosen; and an application that is closed for an operation, however often  *)
(* anything fails or the user acts, on any hosts.                             *)
EXTENDS Agents, TLAPS

-----------------------------------------------------------------------------
(* Agents with files *)

Memories == [Files!Slots -> Files!Selections \cup {Absent}]
Users == [own : SUBSET Mine, chose : Memories, taken : Memories, adrift : SUBSET Files!Slots]

Sound(d) ==
  /\ d \in Files!Documents
  /\ \A e \in d.entries : e.models # {}
  /\ d.now # None => d.scopes[d.now] # Absent

\* Types, those of the documents of the first transaction included.
Typed ==
  /\ kind \in Kinds
  /\ Sound(doc)
  /\ base # None => Sound(base)
  /\ base \in {None} \cup Files!Documents
  /\ memory \in Memories
  /\ binding \in Providers \cup {None}
  /\ user \in Users
  /\ said \in {"", "switched", "failed", "restored"}

\* Adapters that mark their entries, and those that give them the fixed name.
Marking == {"autoclaw", "workbuddy", "codebuddy", "dumate"}
Naming == {"codex", "zcode", "hermes", "aionclaw"}
Keeping == {"workbuddy", "codebuddy"}
Unscoped == {"codex", "hermes", "dumate"}

\* Documents that AT-Switch has not been in.
Untouched(d) ==
  /\ \A e \in d.entries : ~Files!Ours(e) /\ ~e.mark /\ e.name # AtSwitch
  /\ kind = "dumate" /\ Files!Selects(d.pick) => d.pick.name # AtSwitch

\* Which entries are AT-Switch's.
Told ==
  /\ base = None => Untouched(doc) /\ binding = None
  /\ base # None => Untouched(base)
  /\ \A e \in doc.entries :
       /\ kind \in Marking /\ ~e.mark => ~Files!Ours(e)
       /\ kind \in Naming /\ Files!Ours(e) => e.name = AtSwitch
       /\ kind \in Keeping /\ e.mark => \E p \in Providers : e.name = p.name /\ e.models = {p.model}
       /\ kind = "dumate" /\ e.mark => e.name \in {AtSwitch, Built}
       /\ kind \in Marking /\ e.mark => binding # None
       /\ kind \in {"zcode", "hermes"} /\ e.name = AtSwitch => binding # None

\* The user's entries, those that an entry of DuMate's covers included.
Kept ==
  /\ Files!UsersEntriesStay
  /\ \A e \in user.own :
       /\ (e.name = Built => kind = "dumate") /\ (e.name = NoName => kind = "codebuddy")
       /\ kind = "dumate" /\ e.name = Built /\ base # None /\ e \in base.entries =>
            e \in doc.entries \/ \E y \in doc.entries : y.mark /\ y.name = Built

Scopeless ==
  kind \in Unscoped => \A s \in Scopes :
    doc.scopes[s] = Absent /\ user.chose[s] = Absent /\ (base # None => base.scopes[s] = Absent)

OwnRefs == {Files!RefOf(e) : e \in user.own}
Marked(d) == {Files!RefOf(e) : e \in {y \in d.entries : y.mark}}

\* Selections that a restore leaves alone are the user's.
Left ==
  /\ kind \in {"openclaw", "autoclaw", "zcode"} =>
       \A s \in Scopes : Files!In(doc, s) \in Files!OurSelections \cup {user.chose[s]}
  /\ kind = "zcode" => doc.pick \in {Unset, user.chose["pick"]} \/ (Files!Selects(doc.pick) /\ doc.pick.name = AtSwitch)
  /\ kind = "dumate" =>
       \/ doc.pick = user.chose["pick"] \/ (Files!Selects(doc.pick) /\ doc.pick.name = AtSwitch)
       \/ base # None /\ doc.pick = base.pick

\* What WorkBuddy and CodeBuddy remember is what a switch found first.
Remembers ==
  kind \in Keeping =>
    /\ binding = None => memory = Files!Nothing
    /\ binding # None => memory["pick"] # Absent
    /\ binding # None => \A x \in Files!Slots :
         /\ memory[x] = Absent => user.taken[x] = Absent
         /\ memory[x] # Absent /\ (x = "pick" \/ memory[x] \notin Files!OurSelections) => user.taken[x] = memory[x]
    /\ memory["pick"] \in Files!OurSelections => memory["pick"] \in OwnRefs
    /\ doc.pick \in Files!OurSelections => doc.pick \in Marked(doc) \cup OwnRefs

Accounted ==
  kind \in Keeping =>
    /\ \A x \in Files!Slots : Files!In(doc, x) \in Files!OurSelections \/ Files!Returned(x) \/ x \in user.adrift
    /\ \A s \in Scopes :
         Files!In(doc, s) \in Files!OurSelections \ OwnRefs /\ memory[s] = Absent => user.chose[s] = Unset \/ s \in user.adrift

FilesInv ==
  Typed /\ Told /\ Kept /\ Scopeless /\ Left /\ Remembers /\ Accounted /\ Files!SwitchIsServed /\ Files!RestoreReturnsNative

-----------------------------------------------------------------------------
(* What the adapters' operations make of well-formed documents is well formed *)

LEMMA ProviderTyped ==
  ASSUME NEW p \in Providers
  PROVE  /\ p.name \in Files!Names /\ p.model \in Files!Models
         /\ p.key \in {x.key : x \in Providers \cup Mine} /\ p.url \in {x.url : x \in Providers \cup Mine}
         /\ p = [name |-> p.name, model |-> p.model, key |-> p.key, url |-> p.url]
  BY AgentsAssumption DEF Files!Assumptions, Files!Names, Files!Models

LEMMA NamesTyped ==
  /\ {AtSwitch, Built, Official, Bare} \subseteq Files!Names
  /\ Usual \in Files!Models /\ Alias \in Files!Models
  BY DEF Files!Names, Files!Models

LEMMA MadeTyped ==
  ASSUME NEW p \in Providers, NEW name \in Files!Names \cup Files!Models, NEW models \in SUBSET Files!Models
  PROVE  Files!Made(name, models, p, FALSE) \in Files!Entries /\ Files!Made(name, models, p, TRUE) \in Files!Entries
  BY ProviderTyped DEF Files!Made, Files!Entries

LEMMA OnlyTyped ==
  ASSUME NEW e, e.models # {}
  PROVE  Files!Only(e) \in e.models
  BY DEF Files!Only

LEMMA OnlySingle ==
  ASSUME NEW e, NEW m, e.models = {m}
  PROVE  Files!Only(e) = m
  BY DEF Files!Only

LEMMA RefTyped ==
  ASSUME NEW name \in Files!Names \cup Files!Models, NEW model \in Files!Models
  PROVE  /\ Files!Ref(name, model) \in Files!References /\ Files!Ref(name, model) \in Files!Selections
         /\ Files!Ref(name, model).name = name /\ Files!Ref(name, model).model = model
         /\ Files!Selects(Files!Ref(name, model))
  BY AgentsAssumption DEF Files!Assumptions, Files!Ref, Files!References, Files!Selections, Files!Selects

LEMMA Apart ==
  /\ Absent \notin Files!Selections /\ None \notin Scopes /\ "pick" \notin Scopes
  /\ Unset \in Files!Selections /\ Automatic \in Files!Selections
  /\ AtSwitch # Official /\ AtSwitch # Bare /\ AtSwitch # Built /\ Built # Bare /\ Built # Official /\ Official # Bare
  /\ NoName \notin {AtSwitch, Built, Official, Bare}
  BY AgentsAssumption DEF Files!Assumptions, Files!Selections

Composed(d, left, to, moved, global, offered) ==
  [d EXCEPT !.entries = left, !.pick = to, !.scopes = moved, !.global = global, !.offered = offered]

Composes(d, left, to, moved, global, offered) ==
  /\ left \subseteq Files!Entries /\ \A x \in left : x.models # {}
  /\ to \in Files!Selections /\ moved \in [Scopes -> Files!Selections \cup {Absent}]
  /\ \A s \in Scopes : d.scopes[s] # Absent => moved[s] # Absent
  /\ global \in Files!Selections /\ offered \in {None} \cup SUBSET Files!Models

LEMMA ComposedFields ==
  ASSUME NEW d, Sound(d), NEW left, NEW to, NEW moved, NEW global, NEW offered,
         Composes(d, left, to, moved, global, offered)
  PROVE  /\ Sound(Composed(d, left, to, moved, global, offered))
         /\ Composed(d, left, to, moved, global, offered).entries = left
         /\ Composed(d, left, to, moved, global, offered).pick = to
         /\ Composed(d, left, to, moved, global, offered).scopes = moved
         /\ Composed(d, left, to, moved, global, offered).now = d.now
         /\ Composed(d, left, to, moved, global, offered).global = global
         /\ Composed(d, left, to, moved, global, offered).offered = offered
  <1> DEFINE w == Composed(d, left, to, moved, global, offered)
  <1>1. /\ w.entries = left /\ w.pick = to /\ w.scopes = moved /\ w.now = d.now
        /\ w.global = global /\ w.offered = offered /\ w \in Files!Documents
    BY DEF Sound, Files!Documents, Composed, Composes
  <1>2. d.now # None => w.scopes[d.now] # Absent
    BY <1>1, Apart DEF Sound, Files!Documents, Composes
  <1>. QED
    BY <1>1, <1>2 DEF Sound, Composes

LEMMA OtherFields ==
  ASSUME NEW d, Sound(d)
  PROVE  /\ d.global \in Files!Selections /\ d.offered \in {None} \cup SUBSET Files!Models
         /\ d.pick \in Files!Selections /\ d.scopes \in [Scopes -> Files!Selections \cup {Absent}]
         /\ d.entries \subseteq Files!Entries /\ \A x \in d.entries : x.models # {}
         /\ d.now \in Scopes \cup {None}
  BY DEF Sound, Files!Documents

LEMMA CodexFields ==
  ASSUME NEW d, Sound(d), NEW p \in Providers
  PROVE  LET w == Files!CodexWritten(d, p) IN
         /\ Sound(w)
         /\ w.entries = Files!Upsert(d.entries, Files!Made(AtSwitch, {p.model}, p, FALSE))
         /\ w.pick = Files!Ref(AtSwitch, p.model) /\ w.scopes = d.scopes /\ w.now = d.now
  <1> DEFINE e == Files!Made(AtSwitch, {p.model}, p, FALSE)
             left == Files!Upsert(d.entries, e)
             to == Files!Ref(AtSwitch, p.model)
  <1>0. /\ d.global \in Files!Selections /\ d.offered \in {None} \cup SUBSET Files!Models
        /\ d.scopes \in [Scopes -> Files!Selections \cup {Absent}]
    BY OtherFields
  <1>1. p.model \in Files!Models /\ {p.model} \in SUBSET Files!Models /\ AtSwitch \in Files!Names \cup Files!Models
    BY ProviderTyped, NamesTyped
  <1>2. e \in Files!Entries /\ e.models = {p.model}
    BY <1>1, MadeTyped DEF Files!Made
  <1>3. to \in Files!Selections
    BY <1>1, RefTyped
  <1>4. left \subseteq Files!Entries /\ \A x \in left : x.models # {}
    BY <1>2 DEF Sound, Files!Documents, Files!Upsert
  <1>6. Files!CodexWritten(d, p) = Composed(d, left, to, d.scopes, d.global, d.offered)
    BY DEF Files!CodexWritten, Composed, Sound, Files!Documents
  <1> HIDE DEF left, to
  <1>c0. Composes(d, left, to, d.scopes, d.global, d.offered)
    BY <1>0, <1>3, <1>4 DEF Composes
  <1>a. LET w == Composed(d, left, to, d.scopes, d.global, d.offered) IN
        /\ Sound(w) /\ w.entries = left /\ w.pick = to /\ w.scopes = d.scopes /\ w.now = d.now
        /\ w.global = d.global /\ w.offered = d.offered
    BY <1>c0, ComposedFields
  <1>7. LET w == Files!CodexWritten(d, p) IN
        Sound(w) /\ w.entries = left /\ w.pick = to /\ w.scopes = d.scopes /\ w.now = d.now
    BY <1>a, <1>6
  <1>. QED
    BY <1>7 DEF left, to

LEMMA HermesFields ==
  ASSUME NEW d, NEW p
  PROVE  Files!HermesWritten(d, p) = Files!CodexWritten(d, p)
  BY DEF Files!HermesWritten, Files!CodexWritten

LEMMA OpenClawFields ==
  ASSUME NEW d, Sound(d), NEW p \in Providers
  PROVE  LET w == Files!OpenClawWritten(d, p)
             to == Files!Ref(p.name, p.model) IN
         /\ Sound(w)
         /\ w.entries = Files!Upsert(d.entries \ Files!Called(d.entries, AtSwitch), Files!Made(p.name, {p.model}, p, FALSE))
         /\ w.pick = to /\ w.now = d.now
         /\ \A s \in Scopes : w.scopes[s] = IF Files!Selects(d.scopes[s]) /\ d.scopes[s].name # Official THEN to ELSE d.scopes[s]
  <1> DEFINE e == Files!Made(p.name, {p.model}, p, FALSE)
             to == Files!Ref(p.name, p.model)
             moved == [s \in Scopes |-> IF Files!Selects(d.scopes[s]) /\ d.scopes[s].name # Official THEN to ELSE d.scopes[s]]
             left == Files!Upsert(d.entries \ Files!Called(d.entries, AtSwitch), e)
  <1>0. /\ d.global \in Files!Selections /\ d.offered \in {None} \cup SUBSET Files!Models
        /\ d.scopes \in [Scopes -> Files!Selections \cup {Absent}]
    BY OtherFields
  <1>1. p.model \in Files!Models /\ {p.model} \in SUBSET Files!Models /\ p.name \in Files!Names \cup Files!Models
    BY ProviderTyped, NamesTyped
  <1>2. e \in Files!Entries /\ e.models = {p.model}
    BY <1>1, MadeTyped DEF Files!Made
  <1>3. to \in Files!Selections /\ to # Absent
    BY <1>1, RefTyped, Apart
  <1>4. left \subseteq Files!Entries /\ \A x \in left : x.models # {}
    BY <1>2 DEF Sound, Files!Documents, Files!Upsert, Files!Called
  <1>5. /\ moved \in [Scopes -> Files!Selections \cup {Absent}]
        /\ \A s \in Scopes : d.scopes[s] # Absent => moved[s] # Absent
    BY <1>3 DEF Sound, Files!Documents
  <1>6. Files!OpenClawWritten(d, p) = Composed(d, left, to, moved, d.global, d.offered)
    BY DEF Files!OpenClawWritten, Composed, Sound, Files!Documents
  <1>7. \A s \in Scopes : moved[s] = IF Files!Selects(d.scopes[s]) /\ d.scopes[s].name # Official THEN to ELSE d.scopes[s]
    OBVIOUS
  <1> HIDE DEF moved, left, to
  <1>c0. Composes(d, left, to, moved, d.global, d.offered)
    BY <1>0, <1>3, <1>4, <1>5 DEF Composes
  <1>a. LET w == Composed(d, left, to, moved, d.global, d.offered) IN
        /\ Sound(w) /\ w.entries = left /\ w.pick = to /\ w.scopes = moved /\ w.now = d.now
        /\ w.global = d.global /\ w.offered = d.offered
    BY <1>c0, ComposedFields
  <1>8. LET w == Files!OpenClawWritten(d, p) IN
        Sound(w) /\ w.entries = left /\ w.pick = to /\ w.scopes = moved /\ w.now = d.now
    BY <1>a, <1>6
  <1>. QED
    BY <1>7, <1>8 DEF left, to

LEMMA AutoClawFields ==
  ASSUME NEW d, Sound(d), NEW p \in Providers
  PROVE  LET w == Files!AutoClawWritten(d, p) IN
         /\ Sound(w)
         /\ w.entries = Files!AutoClawOthers(d.entries) \cup {Files!Made(p.name, {p.model}, p, TRUE)}
         /\ w.pick = Files!Ref(p.name, p.model) /\ w.now = d.now
         /\ \A s \in Scopes : w.scopes[s] = IF Files!Selects(d.scopes[s]) /\ (s \in Threads => d.scopes[s].name = Bare)
                                            THEN Files!Ref(Bare, p.model) ELSE d.scopes[s]
  <1> DEFINE e == Files!Made(p.name, {p.model}, p, TRUE)
             to == Files!Ref(p.name, p.model)
             moved == Files!SessionsShown(d.scopes, p.model)
             left == Files!AutoClawOthers(d.entries) \cup {e}
  <1>0. /\ d.global \in Files!Selections /\ d.offered \in {None} \cup SUBSET Files!Models
        /\ d.scopes \in [Scopes -> Files!Selections \cup {Absent}]
    BY OtherFields
  <1>1. p.model \in Files!Models /\ {p.model} \in SUBSET Files!Models /\ p.name \in Files!Names \cup Files!Models /\ Bare \in Files!Names \cup Files!Models
    BY ProviderTyped, NamesTyped
  <1>2. e \in Files!Entries /\ e.models = {p.model}
    BY <1>1, MadeTyped DEF Files!Made
  <1>3. to \in Files!Selections /\ Files!Ref(Bare, p.model) \in Files!Selections /\ Files!Ref(Bare, p.model) # Absent
    BY <1>1, RefTyped, Apart
  <1>4. left \subseteq Files!Entries /\ \A x \in left : x.models # {}
    BY <1>2 DEF Sound, Files!Documents, Files!AutoClawOthers, Files!Unmarked, Files!Called
  <1>5. /\ moved \in [Scopes -> Files!Selections \cup {Absent}]
        /\ \A s \in Scopes : d.scopes[s] # Absent => moved[s] # Absent
        /\ \A s \in Scopes : moved[s] = IF Files!Selects(d.scopes[s]) /\ (s \in Threads => d.scopes[s].name = Bare)
                                        THEN Files!Ref(Bare, p.model) ELSE d.scopes[s]
    BY <1>3 DEF Sound, Files!Documents, Files!SessionsShown
  <1>6. Files!AutoClawWritten(d, p) = Composed(d, left, to, moved, d.global, d.offered)
    BY DEF Files!AutoClawWritten, Files!AutoClawEntry, Composed, Sound, Files!Documents
  <1> HIDE DEF moved, left, to
  <1>c0. Composes(d, left, to, moved, d.global, d.offered)
    BY <1>0, <1>3, <1>4, <1>5 DEF Composes
  <1>a. LET w == Composed(d, left, to, moved, d.global, d.offered) IN
        /\ Sound(w) /\ w.entries = left /\ w.pick = to /\ w.scopes = moved /\ w.now = d.now
        /\ w.global = d.global /\ w.offered = d.offered
    BY <1>c0, ComposedFields
  <1>7. LET w == Files!AutoClawWritten(d, p) IN
        Sound(w) /\ w.entries = left /\ w.pick = to /\ w.scopes = moved /\ w.now = d.now
    BY <1>a, <1>6
  <1>. QED
    BY <1>5, <1>7 DEF left, to

LEMMA WorkBuddyFields ==
  ASSUME NEW d, Sound(d), NEW p \in Providers
  PROVE  LET w == Files!WorkBuddyWritten(d, p) IN
         /\ Sound(w)
         /\ w.entries = Files!Unmarked(d.entries) \cup {Files!Made(p.name, {p.model}, p, TRUE)}
         /\ w.pick = Files!Local(p.model) /\ w.now = d.now
         /\ \A s \in Scopes : w.scopes[s] = IF s = d.now THEN Files!Local(p.model) ELSE d.scopes[s]
  <1> DEFINE e == Files!Made(p.name, {p.model}, p, TRUE)
             to == Files!Local(p.model)
             moved == [s \in Scopes |-> IF s = d.now THEN Files!Local(p.model) ELSE d.scopes[s]]
             left == Files!Unmarked(d.entries) \cup {e}
  <1>0. /\ d.global \in Files!Selections /\ d.offered \in {None} \cup SUBSET Files!Models
        /\ d.scopes \in [Scopes -> Files!Selections \cup {Absent}]
    BY OtherFields
  <1>1. p.model \in Files!Models /\ {p.model} \in SUBSET Files!Models /\ p.name \in Files!Names \cup Files!Models /\ Bare \in Files!Names \cup Files!Models
    BY ProviderTyped, NamesTyped
  <1>2. e \in Files!Entries /\ e.models = {p.model}
    BY <1>1, MadeTyped DEF Files!Made
  <1>3. to \in Files!Selections /\ to # Absent
    BY <1>1, RefTyped, Apart DEF Files!Local
  <1>4. left \subseteq Files!Entries /\ \A x \in left : x.models # {}
    BY <1>2 DEF Sound, Files!Documents, Files!Unmarked
  <1>5. /\ moved \in [Scopes -> Files!Selections \cup {Absent}]
        /\ \A s \in Scopes : d.scopes[s] # Absent => moved[s] # Absent
        /\ \A s \in Scopes : moved[s] = IF s = d.now THEN Files!Local(p.model) ELSE d.scopes[s]
    BY <1>3 DEF Sound, Files!Documents
  <1>6. moved = [s \in Scopes |-> IF s \in (IF d.now = None THEN {} ELSE {d.now}) THEN Files!Local(p.model) ELSE d.scopes[s]]
    BY Apart
  <1> HIDE DEF moved, left, to
  <1>7. Files!WorkBuddyWritten(d, p) = Composed(d, left, to, moved, d.global, d.offered)
    BY <1>6 DEF Files!WorkBuddyWritten, Files!WorkBuddyActivated, Files!WorkBuddyModels, Composed, Sound, Files!Documents, left, to
  <1>c0. Composes(d, left, to, moved, d.global, d.offered)
    BY <1>0, <1>3, <1>4, <1>5 DEF Composes
  <1>a. LET w == Composed(d, left, to, moved, d.global, d.offered) IN
        /\ Sound(w) /\ w.entries = left /\ w.pick = to /\ w.scopes = moved /\ w.now = d.now
        /\ w.global = d.global /\ w.offered = d.offered
    BY <1>c0, ComposedFields
  <1>8. LET w == Files!WorkBuddyWritten(d, p) IN
        Sound(w) /\ w.entries = left /\ w.pick = to /\ w.scopes = moved /\ w.now = d.now
    BY <1>a, <1>7
  <1>. QED
    BY <1>5, <1>8 DEF left, to

LEMMA CodeBuddyRefTyped ==
  ASSUME NEW name \in Files!Names \cup Files!Models \cup {NoName}, NEW model \in Files!Models
  PROVE  Files!CodeBuddyRef(name, model) \in Files!Selections /\ Files!CodeBuddyRef(name, model) # Absent /\ Files!Selects(Files!CodeBuddyRef(name, model))
  BY RefTyped, Apart DEF Files!CodeBuddyRef

LEMMA NamedTyped ==
  ASSUME NEW entries, entries \subseteq Files!Entries, \A x \in entries : x.models # {}
  PROVE  /\ Files!NamedAll(entries) \subseteq Files!Entries /\ \A x \in Files!NamedAll(entries) : x.models # {}
         /\ \A x \in Files!NamedAll(entries) : \E y \in entries :
              x.models = y.models /\ x.key = y.key /\ x.url = y.url /\ x.mark = y.mark
              /\ x.name = IF y.name = NoName THEN Files!Only(y) ELSE y.name
  <1>1. \A y \in entries : Files!Only(y) \in Files!Models /\ y.name \in Files!Names \cup Files!Models
    BY OnlyTyped DEF Files!Entries
  <1>2. ASSUME NEW y \in entries
        PROVE  LET x == [y EXCEPT !.name = IF @ = NoName THEN Files!Only(y) ELSE @] IN
               /\ x \in Files!Entries /\ x.models # {}
               /\ x.models = y.models /\ x.key = y.key /\ x.url = y.url /\ x.mark = y.mark
               /\ x.name = IF y.name = NoName THEN Files!Only(y) ELSE y.name
    BY <1>1, <1>2 DEF Files!Entries
  <1>. QED
    BY <1>2 DEF Files!NamedAll

LEMMA MarkedTyped ==
  ASSUME NEW d, Sound(d)
  PROVE  Files!MarkedModels(d) \subseteq Files!Models
  BY OnlyTyped DEF Sound, Files!Documents, Files!Entries, Files!MarkedModels

LEMMA OfferedTyped ==
  ASSUME NEW d, Sound(d), NEW next, next \subseteq Files!Models
  PROVE  Files!Offered(d, next) \in {None} \cup SUBSET Files!Models
  BY DEF Files!Offered, Sound, Files!Documents

LEMMA CodeBuddyFields ==
  ASSUME NEW d, Sound(d), NEW p \in Providers
  PROVE  LET w == Files!CodeBuddyWritten(d, p)
             to == Files!CodeBuddyRef(p.name, p.model) IN
         /\ Sound(w)
         /\ w.entries = Files!NamedAll(Files!Unmarked(d.entries)) \cup {Files!Made(p.name, {p.model}, p, TRUE)}
         /\ w.pick = to /\ w.now = d.now /\ w.global = to /\ w.offered = Files!Offered(d, {p.model})
         /\ \A s \in Scopes : w.scopes[s] = IF s = d.now THEN to ELSE d.scopes[s]
  <1> DEFINE e == Files!Made(p.name, {p.model}, p, TRUE)
             to == Files!CodeBuddyRef(p.name, p.model)
             moved == [s \in Scopes |-> IF s = d.now THEN to ELSE d.scopes[s]]
             left == Files!NamedAll(Files!Unmarked(d.entries)) \cup {e}
             offered == Files!Offered(d, {p.model})
  <1>1. p.model \in Files!Models /\ {p.model} \in SUBSET Files!Models /\ p.name \in Files!Names \cup Files!Models
    BY ProviderTyped, NamesTyped
  <1>2. e \in Files!Entries /\ e.models = {p.model}
    BY <1>1, MadeTyped DEF Files!Made
  <1>3. to \in Files!Selections /\ to # Absent
    BY <1>1, CodeBuddyRefTyped
  <1>4. left \subseteq Files!Entries /\ \A x \in left : x.models # {}
    <2>1. Files!Unmarked(d.entries) \subseteq Files!Entries /\ \A x \in Files!Unmarked(d.entries) : x.models # {}
      BY DEF Sound, Files!Documents, Files!Unmarked
    <2>2. Files!NamedAll(Files!Unmarked(d.entries)) \subseteq Files!Entries /\ \A x \in Files!NamedAll(Files!Unmarked(d.entries)) : x.models # {}
      BY <2>1, NamedTyped
    <2>. QED
      BY <1>2, <2>2
  <1>5. /\ moved \in [Scopes -> Files!Selections \cup {Absent}]
        /\ \A s \in Scopes : d.scopes[s] # Absent => moved[s] # Absent
        /\ \A s \in Scopes : moved[s] = IF s = d.now THEN to ELSE d.scopes[s]
    BY <1>3 DEF Sound, Files!Documents
  <1>6. moved = [s \in Scopes |-> IF s \in (IF d.now = None THEN {} ELSE {d.now}) THEN to ELSE d.scopes[s]]
    BY Apart
  <1>7. offered \in {None} \cup SUBSET Files!Models
    BY <1>1, OfferedTyped
  <1> HIDE DEF moved, left, to, offered
  <1>c0. Composes(d, left, to, moved, to, offered)
    BY <1>3, <1>4, <1>5, <1>7 DEF Composes
  <1>8. LET w == Composed(d, left, to, moved, to, offered) IN
        /\ Sound(w) /\ w.entries = left /\ w.pick = to /\ w.scopes = moved /\ w.now = d.now
        /\ w.global = to /\ w.offered = offered
    BY <1>c0, ComposedFields
  <1>9. Files!CodeBuddyWritten(d, p) = Composed(d, left, to, moved, to, offered)
    <2>1. Files!CodeBuddyModels(d, p) = [d EXCEPT !.entries = left, !.offered = offered]
      BY DEF Files!CodeBuddyModels, left, offered
    <2>2. Files!CodeBuddyWritten(d, p) = [[[d EXCEPT !.entries = left, !.offered = offered] EXCEPT !.global = to] EXCEPT
                                      !.pick = to, !.scopes = moved]
      BY <1>6, <2>1 DEF Files!CodeBuddyWritten, Files!CodeBuddyActivated, Files!CodeBuddyGlobal, to, Sound, Files!Documents
    <2>. QED
      BY <2>2 DEF Composed, Sound, Files!Documents
  <1>. QED
    BY <1>5, <1>8, <1>9 DEF left, to, offered

LEMMA CodeBuddyGlobalFields ==
  ASSUME NEW d, Sound(d), NEW p \in Providers
  PROVE  LET w == Files!CodeBuddyGlobal(d, p) IN
         /\ Sound(w) /\ w.entries = d.entries /\ w.pick = d.pick /\ w.scopes = d.scopes /\ w.now = d.now
  <1>1. Files!CodeBuddyRef(p.name, p.model) \in Files!Selections
    BY ProviderTyped, CodeBuddyRefTyped
  <1>. QED
    BY <1>1 DEF Files!CodeBuddyGlobal, Sound, Files!Documents

LEMMA ZCodeFields ==
  ASSUME NEW d, Sound(d), NEW p \in Providers
  PROVE  LET w == Files!ZCodeWritten(d, p) IN
         /\ Sound(w)
         /\ w.entries = Files!Upsert(d.entries, Files!Made(AtSwitch, Files!ZCodeDeclared(d.entries, p), p, FALSE))
         /\ w.pick = Files!Ref(AtSwitch, p.model) /\ w.now = d.now
         /\ \A s \in Scopes : w.scopes[s] = IF Files!Selects(d.scopes[s]) /\ d.scopes[s].name = AtSwitch
                                            THEN Files!Ref(AtSwitch, p.model) ELSE d.scopes[s]
  <1> DEFINE e == Files!Made(AtSwitch, Files!ZCodeDeclared(d.entries, p), p, FALSE)
             to == Files!Ref(AtSwitch, p.model)
             moved == Files!ZCodeTasks(d.scopes, p)
             left == Files!Upsert(d.entries, e)
  <1>0. /\ d.global \in Files!Selections /\ d.offered \in {None} \cup SUBSET Files!Models
        /\ d.scopes \in [Scopes -> Files!Selections \cup {Absent}]
    BY OtherFields
  <1>1. p.model \in Files!Models /\ AtSwitch \in Files!Names \cup Files!Models
    BY ProviderTyped, NamesTyped
  <1>b. Files!ZCodeDeclared(d.entries, p) \in SUBSET Files!Models /\ Files!ZCodeDeclared(d.entries, p) # {}
    BY <1>1 DEF Files!ZCodeDeclared, Files!Called, Sound, Files!Documents, Files!Entries
  <1>2. e \in Files!Entries /\ e.models = Files!ZCodeDeclared(d.entries, p)
    BY <1>1, <1>b, MadeTyped DEF Files!Made
  <1>3. to \in Files!Selections /\ to # Absent
    BY <1>1, RefTyped, Apart
  <1>4. left \subseteq Files!Entries /\ \A x \in left : x.models # {}
    BY <1>2, <1>b DEF Sound, Files!Documents, Files!Upsert
  <1>5. /\ moved \in [Scopes -> Files!Selections \cup {Absent}]
        /\ \A s \in Scopes : d.scopes[s] # Absent => moved[s] # Absent
        /\ \A s \in Scopes : moved[s] = IF Files!Selects(d.scopes[s]) /\ d.scopes[s].name = AtSwitch
                                        THEN to ELSE d.scopes[s]
    BY <1>3 DEF Sound, Files!Documents, Files!ZCodeTasks
  <1>6. Files!ZCodeWritten(d, p) = Composed(d, left, to, moved, d.global, d.offered)
    BY DEF Files!ZCodeWritten, Composed, Sound, Files!Documents
  <1> HIDE DEF moved, left, to
  <1>c0. Composes(d, left, to, moved, d.global, d.offered)
    BY <1>0, <1>3, <1>4, <1>5 DEF Composes
  <1>a. LET w == Composed(d, left, to, moved, d.global, d.offered) IN
        /\ Sound(w) /\ w.entries = left /\ w.pick = to /\ w.scopes = moved /\ w.now = d.now
        /\ w.global = d.global /\ w.offered = d.offered
    BY <1>c0, ComposedFields
  <1>8. LET w == Files!ZCodeWritten(d, p) IN
        Sound(w) /\ w.entries = left /\ w.pick = to /\ w.scopes = moved /\ w.now = d.now
    BY <1>a, <1>6
  <1>. QED
    BY <1>5, <1>8 DEF left, to

LEMMA DuMateFields ==
  ASSUME NEW d, Sound(d), NEW p \in Providers
  PROVE  LET w == Files!DuMateWritten(d, p) IN
         /\ Sound(w)
         /\ w.entries = Files!Upsert(Files!Upsert(d.entries, Files!Made(AtSwitch, {p.model}, p, TRUE)), Files!Made(Built, Files!Aliases(d.entries), p, TRUE))
         /\ w.pick = Files!Ref(AtSwitch, p.model) /\ w.scopes = d.scopes /\ w.now = d.now
  <1> DEFINE e == Files!Made(AtSwitch, {p.model}, p, TRUE)
             b == Files!Made(Built, Files!Aliases(d.entries), p, TRUE)
             left == Files!Upsert(Files!Upsert(d.entries, e), b)
             to == Files!Ref(AtSwitch, p.model)
  <1>0. /\ d.global \in Files!Selections /\ d.offered \in {None} \cup SUBSET Files!Models
        /\ d.scopes \in [Scopes -> Files!Selections \cup {Absent}]
    BY OtherFields
  <1>1. p.model \in Files!Models /\ {p.model} \in SUBSET Files!Models /\ AtSwitch \in Files!Names \cup Files!Models /\ Built \in Files!Names \cup Files!Models
    BY ProviderTyped, NamesTyped
  <1>b. Files!Aliases(d.entries) \in SUBSET Files!Models /\ Files!Aliases(d.entries) # {}
    BY NamesTyped DEF Files!Aliases, Files!Called, Sound, Files!Documents, Files!Entries
  <1>2. e \in Files!Entries /\ e.models = {p.model}
    BY <1>1, MadeTyped DEF Files!Made
  <1>c. b \in Files!Entries /\ b.models = Files!Aliases(d.entries)
    BY <1>1, <1>b, MadeTyped DEF Files!Made
  <1>3. to \in Files!Selections
    BY <1>1, RefTyped
  <1>4. left \subseteq Files!Entries /\ \A x \in left : x.models # {}
    BY <1>2, <1>b, <1>c DEF Sound, Files!Documents, Files!Upsert
  <1>6. Files!DuMateWritten(d, p) = Composed(d, left, to, d.scopes, d.global, d.offered)
    BY DEF Files!DuMateWritten, Composed, Sound, Files!Documents
  <1> HIDE DEF left, to
  <1>c0. Composes(d, left, to, d.scopes, d.global, d.offered)
    BY <1>0, <1>3, <1>4 DEF Composes
  <1>a. LET w == Composed(d, left, to, d.scopes, d.global, d.offered) IN
        /\ Sound(w) /\ w.entries = left /\ w.pick = to /\ w.scopes = d.scopes /\ w.now = d.now
        /\ w.global = d.global /\ w.offered = d.offered
    BY <1>c0, ComposedFields
  <1>7. LET w == Files!DuMateWritten(d, p) IN
        Sound(w) /\ w.entries = left /\ w.pick = to /\ w.scopes = d.scopes /\ w.now = d.now
    BY <1>a, <1>6
  <1>. QED
    BY <1>7 DEF left, to

LEMMA AionClawFields ==
  ASSUME NEW d, Sound(d), NEW p \in Providers
  PROVE  LET w == Files!AionClawWritten(d, p) IN
         /\ Sound(w)
         /\ w.entries = Files!Upsert(d.entries, Files!Made(AtSwitch, {p.model}, p, FALSE))
         /\ w.pick = Files!Ref(AtSwitch, p.model) /\ w.now = d.now
         /\ \A s \in Scopes : w.scopes[s] = IF s = d.now THEN Files!Ref(AtSwitch, p.model) ELSE d.scopes[s]
  <1> DEFINE e == Files!Made(AtSwitch, {p.model}, p, FALSE)
             to == Files!Ref(AtSwitch, p.model)
             moved == [s \in Scopes |-> IF s = d.now THEN to ELSE d.scopes[s]]
             left == Files!Upsert(d.entries, e)
  <1>0. /\ d.global \in Files!Selections /\ d.offered \in {None} \cup SUBSET Files!Models
        /\ d.scopes \in [Scopes -> Files!Selections \cup {Absent}]
    BY OtherFields
  <1>1. p.model \in Files!Models /\ {p.model} \in SUBSET Files!Models /\ AtSwitch \in Files!Names \cup Files!Models
    BY ProviderTyped, NamesTyped
  <1>2. e \in Files!Entries /\ e.models = {p.model}
    BY <1>1, MadeTyped DEF Files!Made
  <1>3. to \in Files!Selections /\ to # Absent
    BY <1>1, RefTyped, Apart
  <1>4. left \subseteq Files!Entries /\ \A x \in left : x.models # {}
    BY <1>2 DEF Sound, Files!Documents, Files!Upsert
  <1>5. /\ moved \in [Scopes -> Files!Selections \cup {Absent}]
        /\ \A s \in Scopes : d.scopes[s] # Absent => moved[s] # Absent
        /\ \A s \in Scopes : moved[s] = IF s = d.now THEN to ELSE d.scopes[s]
    BY <1>3 DEF Sound, Files!Documents
  <1>6. Files!AionClawWritten(d, p) = Composed(d, left, to, moved, d.global, d.offered)
    BY DEF Files!AionClawWritten, Composed, Sound, Files!Documents
  <1> HIDE DEF moved, left, to
  <1>c0. Composes(d, left, to, moved, d.global, d.offered)
    BY <1>0, <1>3, <1>4, <1>5 DEF Composes
  <1>a. LET w == Composed(d, left, to, moved, d.global, d.offered) IN
        /\ Sound(w) /\ w.entries = left /\ w.pick = to /\ w.scopes = moved /\ w.now = d.now
        /\ w.global = d.global /\ w.offered = d.offered
    BY <1>c0, ComposedFields
  <1>8. LET w == Files!AionClawWritten(d, p) IN
        Sound(w) /\ w.entries = left /\ w.pick = to /\ w.scopes = moved /\ w.now = d.now
    BY <1>a, <1>6
  <1>. QED
    BY <1>5, <1>8 DEF left, to

LEMMA WrittenSound ==
  ASSUME NEW d, Sound(d), NEW p \in Providers, kind \in Kinds
  PROVE  Sound(Files!Written(d, p)) /\ Files!Written(d, p).now = d.now
  <1>1. kind \in {"codex", "openclaw", "autoclaw", "workbuddy", "codebuddy", "zcode", "hermes", "dumate", "aionclaw"}
    BY AgentsAssumption DEF Files!Assumptions
  <1>2. CASE kind = "codex"
    BY <1>2, CodexFields DEF Files!Written
  <1>3. CASE kind = "openclaw"
    BY <1>3, OpenClawFields DEF Files!Written
  <1>4. CASE kind = "autoclaw"
    BY <1>4, AutoClawFields DEF Files!Written
  <1>5. CASE kind = "workbuddy"
    BY <1>5, WorkBuddyFields DEF Files!Written
  <1>6. CASE kind = "codebuddy"
    BY <1>6, CodeBuddyFields DEF Files!Written
  <1>7. CASE kind = "zcode"
    BY <1>7, ZCodeFields DEF Files!Written
  <1>8. CASE kind = "hermes"
    BY <1>8, CodexFields, HermesFields DEF Files!Written
  <1>9. CASE kind = "dumate"
    BY <1>9, DuMateFields DEF Files!Written
  <1>10. CASE kind = "aionclaw"
    BY <1>10, AionClawFields DEF Files!Written
  <1>. QED
    BY <1>1, <1>2, <1>3, <1>4, <1>5, <1>6, <1>7, <1>8, <1>9, <1>10

LEMMA Slotted ==
  /\ "pick" \in Files!Slots /\ Scopes \subseteq Files!Slots
  /\ \A d : Files!In(d, "pick") = d.pick /\ \A s \in Scopes : Files!In(d, s) = d.scopes[s]
  BY Apart DEF Files!Slots, Files!In

LEMMA CodexNativeFields ==
  ASSUME NEW d, Sound(d), NEW b, Sound(b)
  PROVE  LET w == Files!CodexNative(d, b) IN
         /\ Sound(w) /\ w.entries = d.entries /\ w.scopes = d.scopes /\ w.now = d.now
         /\ w.pick = IF b.pick = Unset THEN Files!Ref(Official, Usual) ELSE b.pick
  <1>1. Files!Ref(Official, Usual) \in Files!Selections
    BY NamesTyped, RefTyped
  <1>. QED
    BY <1>1 DEF Files!CodexNative, Sound, Files!Documents

LEMMA OpenClawNativeFields ==
  ASSUME NEW d, Sound(d), NEW b, Sound(b)
  PROVE  LET w == Files!OpenClawNative(d, b) IN
         /\ Sound(w) /\ w.entries = d.entries \ Files!Called(d.entries, AtSwitch)
         /\ w.pick = b.pick /\ w.scopes = d.scopes /\ w.now = d.now
  BY DEF Files!OpenClawNative, Sound, Files!Documents

LEMMA AutoClawNativeFields ==
  ASSUME NEW d, Sound(d), NEW b, Sound(b)
  PROVE  LET w == Files!AutoClawNative(d, b) IN
         /\ Sound(w) /\ w.entries = Files!AutoClawOthers(d.entries)
         /\ w.pick = b.pick /\ w.scopes = d.scopes /\ w.now = d.now
  <1>1. Files!AutoClawOthers(d.entries) \subseteq d.entries
    BY DEF Files!AutoClawOthers, Files!Unmarked, Files!Called
  <1>. QED
    BY <1>1 DEF Files!AutoClawNative, Sound, Files!Documents

LEMMA WorkBuddyNativeFields ==
  ASSUME NEW d, Sound(d), NEW m \in Memories
  PROVE  LET w == Files!WorkBuddyNative(d, m) IN
         /\ Sound(w) /\ w.entries = Files!Unmarked(d.entries) /\ w.now = d.now
         /\ \A x \in Files!Slots : Files!In(w, x) = Files!WorkBuddyRestored(d, m, x)
  <1> DEFINE pick == Files!WorkBuddyRestored(d, m, "pick")
             moved == [s \in Scopes |-> Files!WorkBuddyRestored(d, m, s)]
             left == Files!Unmarked(d.entries)
  <1>1. pick \in Files!Selections
    BY Slotted, Apart DEF Files!WorkBuddyRestored, Files!WorkBuddyOriginal, Sound, Files!Documents, Memories
  <1>2. ASSUME NEW s \in Scopes
        PROVE  /\ Files!WorkBuddyRestored(d, m, s) \in Files!Selections \cup {Absent}
               /\ d.scopes[s] # Absent => Files!WorkBuddyRestored(d, m, s) # Absent
    BY Slotted, Apart DEF Files!WorkBuddyRestored, Files!WorkBuddyOriginal, Sound, Files!Documents, Memories
  <1>3. /\ moved \in [Scopes -> Files!Selections \cup {Absent}]
        /\ \A s \in Scopes : d.scopes[s] # Absent => moved[s] # Absent
        /\ \A s \in Scopes : moved[s] = Files!WorkBuddyRestored(d, m, s)
    BY <1>2
  <1>4. left \subseteq Files!Entries /\ \A x \in left : x.models # {}
    BY DEF Files!Unmarked, Sound, Files!Documents
  <1>5. Files!WorkBuddyNative(d, m) = Composed(d, left, pick, moved, d.global, d.offered)
    BY DEF Files!WorkBuddyNative, Composed, Sound, Files!Documents
  <1> HIDE DEF pick, moved, left
  <1>6. Composes(d, left, pick, moved, d.global, d.offered)
    BY <1>1, <1>3, <1>4, OtherFields DEF Composes
  <1>7. LET w == Files!WorkBuddyNative(d, m) IN
        Sound(w) /\ w.entries = left /\ w.pick = pick /\ w.scopes = moved /\ w.now = d.now
    BY <1>5, <1>6, ComposedFields
  <1>8. \A x \in Files!Slots : Files!In(Files!WorkBuddyNative(d, m), x) = Files!WorkBuddyRestored(d, m, x)
    BY <1>3, <1>7 DEF Files!In, Files!Slots, pick
  <1>. QED
    BY <1>7, <1>8 DEF left

LEMMA CodeBuddyNativeFields ==
  ASSUME NEW d, Sound(d), NEW m \in Memories
  PROVE  LET w == Files!CodeBuddyNative(d, m) IN
         /\ Sound(w) /\ w.entries = Files!Unmarked(d.entries) /\ w.now = d.now
         /\ \A x \in Files!Slots : Files!In(w, x) = Files!CodeBuddyRestored(d, m, x)
  <1> DEFINE pick == Files!CodeBuddyRestored(d, m, "pick")
             moved == [s \in Scopes |-> Files!CodeBuddyRestored(d, m, s)]
             left == Files!Unmarked(d.entries)
             offered == Files!Offered(d, {})
  <1>1. pick \in Files!Selections
    BY Slotted, Apart DEF Files!CodeBuddyRestored, Sound, Files!Documents, Memories
  <1>2. ASSUME NEW s \in Scopes
        PROVE  /\ Files!CodeBuddyRestored(d, m, s) \in Files!Selections \cup {Absent}
               /\ d.scopes[s] # Absent => Files!CodeBuddyRestored(d, m, s) # Absent
    BY Slotted, Apart DEF Files!CodeBuddyRestored, Sound, Files!Documents, Memories
  <1>3. /\ moved \in [Scopes -> Files!Selections \cup {Absent}]
        /\ \A s \in Scopes : d.scopes[s] # Absent => moved[s] # Absent
        /\ \A s \in Scopes : moved[s] = Files!CodeBuddyRestored(d, m, s)
    BY <1>2
  <1>4. left \subseteq Files!Entries /\ \A x \in left : x.models # {}
    BY DEF Files!Unmarked, Sound, Files!Documents
  <1>o. offered \in {None} \cup SUBSET Files!Models /\ Unset \in Files!Selections
    BY OfferedTyped, Apart
  <1>5. Files!CodeBuddyNative(d, m) = Composed(d, left, pick, moved, Unset, offered)
    BY DEF Files!CodeBuddyNative, Composed, Sound, Files!Documents
  <1> HIDE DEF pick, moved, left, offered
  <1>6. Composes(d, left, pick, moved, Unset, offered)
    BY <1>1, <1>3, <1>4, <1>o DEF Composes
  <1>7. LET w == Files!CodeBuddyNative(d, m) IN
        Sound(w) /\ w.entries = left /\ w.pick = pick /\ w.scopes = moved /\ w.now = d.now
    BY <1>5, <1>6, ComposedFields
  <1>8. \A x \in Files!Slots : Files!In(Files!CodeBuddyNative(d, m), x) = Files!CodeBuddyRestored(d, m, x)
    BY <1>3, <1>7 DEF Files!In, Files!Slots, pick
  <1>. QED
    BY <1>7, <1>8 DEF left

LEMMA ZCodeNativeFields ==
  ASSUME NEW d, Sound(d)
  PROVE  LET w == Files!ZCodeNative(d) IN
         /\ Sound(w) /\ w.entries = d.entries \ Files!Called(d.entries, AtSwitch) /\ w.scopes = d.scopes /\ w.now = d.now
         /\ w.pick = IF Files!Selects(d.pick) /\ d.pick.name = AtSwitch THEN Unset ELSE d.pick
  BY Apart DEF Files!ZCodeNative, Sound, Files!Documents

LEMMA DuMateNativeFields ==
  ASSUME NEW d, Sound(d), NEW b, Sound(b)
  PROVE  LET w == Files!DuMateNative(d, b) IN
         /\ Sound(w) /\ w.scopes = d.scopes /\ w.now = d.now
         /\ w.entries = Files!Unmarked(d.entries) \cup
              {x \in Files!Unmarked(b.entries) : x.name \in {AtSwitch, Built} /\ \E y \in d.entries : y.mark /\ y.name = x.name}
         /\ w.pick = IF Files!Selects(d.pick) /\ d.pick.name = AtSwitch
                     THEN IF Files!Selects(b.pick) /\ b.pick.name = AtSwitch THEN Unset ELSE b.pick
                     ELSE d.pick
  <1> DEFINE left == Files!Unmarked(d.entries) \cup
               {x \in Files!Unmarked(b.entries) : x.name \in {AtSwitch, Built} /\ \E y \in d.entries : y.mark /\ y.name = x.name}
             pick == IF Files!Selects(d.pick) /\ d.pick.name = AtSwitch
                     THEN IF Files!Selects(b.pick) /\ b.pick.name = AtSwitch THEN Unset ELSE b.pick
                     ELSE d.pick
  <1>1. pick \in Files!Selections
    BY Apart DEF Sound, Files!Documents
  <1>2. left \subseteq Files!Entries /\ \A x \in left : x.models # {}
    BY DEF Files!Unmarked, Sound, Files!Documents
  <1>3. Files!DuMateNative(d, b) = Composed(d, left, pick, d.scopes, d.global, d.offered)
    BY DEF Files!DuMateNative, Composed, Sound, Files!Documents
  <1> HIDE DEF pick, left
  <1>4. Composes(d, left, pick, d.scopes, d.global, d.offered)
    BY <1>1, <1>2, OtherFields DEF Composes
  <1>5. LET w == Files!DuMateNative(d, b) IN
        Sound(w) /\ w.entries = left /\ w.pick = pick /\ w.scopes = d.scopes /\ w.now = d.now
    BY <1>3, <1>4, ComposedFields
  <1>. QED
    BY <1>5 DEF left, pick

LEMMA NativeSound ==
  ASSUME NEW d, Sound(d), NEW b, Sound(b), NEW m \in Memories, kind \in Kinds
  PROVE  Sound(Files!NativeOf(d, b, m))
  <1>1. kind \in {"codex", "openclaw", "autoclaw", "workbuddy", "codebuddy", "zcode", "hermes", "dumate", "aionclaw"}
    BY AgentsAssumption DEF Files!Assumptions
  <1>2. CASE kind = "codex"
    BY <1>2, CodexNativeFields DEF Files!NativeOf
  <1>3. CASE kind = "openclaw"
    BY <1>3, OpenClawNativeFields DEF Files!NativeOf
  <1>4. CASE kind = "autoclaw"
    BY <1>4, AutoClawNativeFields DEF Files!NativeOf
  <1>5. CASE kind = "workbuddy"
    BY <1>5, WorkBuddyNativeFields DEF Files!NativeOf
  <1>6. CASE kind = "codebuddy"
    BY <1>6, CodeBuddyNativeFields DEF Files!NativeOf
  <1>7. CASE kind = "zcode"
    BY <1>7, ZCodeNativeFields DEF Files!NativeOf
  <1>8. CASE kind = "hermes"
    BY <1>8 DEF Files!NativeOf, Files!HermesNative
  <1>9. CASE kind = "dumate"
    BY <1>9, DuMateNativeFields DEF Files!NativeOf
  <1>10. CASE kind = "aionclaw"
    BY <1>10 DEF Files!NativeOf
  <1>. QED
    BY <1>1, <1>2, <1>3, <1>4, <1>5, <1>6, <1>7, <1>8, <1>9, <1>10

-----------------------------------------------------------------------------
(* Types *)

LEMMA SlotTyped ==
  ASSUME NEW d, Sound(d), NEW x \in Files!Slots
  PROVE  Files!In(d, x) \in Files!Selections \cup {Absent} /\ (x = "pick" => Files!In(d, x) \in Files!Selections)
  BY Slotted DEF Sound, Files!Documents, Files!In, Files!Slots

LEMMA MineTyped ==
  ASSUME NEW e \in Mine
  PROVE  /\ e \in Files!Entries /\ Files!Only(e) \in Files!Models /\ e.name \in Files!Names \cup Files!Models /\ e.models = {Files!Only(e)} /\ ~e.mark
         /\ ~Files!Ours(e) /\ e.name # AtSwitch /\ e.name # Official /\ e.name # Bare
  <1>1. Files!Only(e) \in e.models /\ e \in Files!Entries /\ e.models = {Files!Only(e)} /\ ~e.mark
    BY AgentsAssumption DEF Files!Assumptions
  <1>2. ~Files!Ours(e)
    BY AgentsAssumption DEF Files!Assumptions, Files!Ours
  <1>. QED
    BY <1>1, <1>2, AgentsAssumption DEF Files!Assumptions, Files!Entries

LEMMA RefOfTyped ==
  ASSUME NEW e, Files!Only(e) \in Files!Models, e.name \in Files!Names \cup Files!Models
  PROVE  Files!RefOf(e) \in Files!References /\ Files!RefOf(e) \in Files!Selections /\ Files!Selects(Files!RefOf(e)) /\ Files!RefOf(e) # Absent
  <1>1. Files!Ref(Bare, Files!Only(e)) \in Files!References /\ Files!Ref(e.name, Files!Only(e)) \in Files!References /\ Files!Ref(Files!Only(e), Files!Only(e)) \in Files!References
    BY RefTyped, NamesTyped
  <1>2. Files!RefOf(e) \in Files!References
    BY <1>1 DEF Files!RefOf, Files!Local, Files!CodeBuddyRef
  <1>. QED
    BY <1>2, AgentsAssumption DEF Files!Assumptions, Files!Selections, Files!Selects

LEMMA EligibleTyped ==
  ASSUME NEW x, NEW mine \in SUBSET Mine
  PROVE  Files!Eligible(x, mine) \subseteq Files!Selections /\ \A s \in Files!Eligible(x, mine) : Files!Selects(s)
  <1>1. \A e \in mine : Files!RefOf(e) \in Files!Selections /\ Files!Selects(Files!RefOf(e)) /\ Files!Only(e) \in Files!Models
    BY MineTyped, RefOfTyped
  <1>2. \A e \in mine : Files!Ref(Bare, Files!Only(e)) \in Files!Selections /\ Files!Selects(Files!Ref(Bare, Files!Only(e)))
    BY <1>1, RefTyped, NamesTyped
  <1>3. Files!Ref(Official, Usual) \in Files!Selections /\ Files!Selects(Files!Ref(Official, Usual))
    BY RefTyped, NamesTyped
  <1>. QED
    BY <1>1, <1>2, <1>3 DEF Files!Eligible

LEMMA PutFields ==
  ASSUME NEW d, Sound(d), NEW x \in Files!Slots, NEW s \in Files!Selections
  PROVE  /\ Sound(Files!Put(d, x, s)) /\ Files!Put(d, x, s).entries = d.entries /\ Files!Put(d, x, s).now = d.now
         /\ \A y \in Files!Slots : Files!In(Files!Put(d, x, s), y) = IF y = x THEN s ELSE Files!In(d, y)
  <1>1. CASE x = "pick"
    <2>1. Files!Put(d, x, s) = [d EXCEPT !.pick = s]
      BY <1>1 DEF Files!Put
    <2>. QED
      BY <1>1, <2>1, Apart DEF Sound, Files!Documents, Files!In, Files!Slots
  <1>2. CASE x # "pick"
    <2>1. Files!Put(d, x, s) = [d EXCEPT !.scopes = [d.scopes EXCEPT ![x] = s]] /\ x \in Scopes
      BY <1>2 DEF Files!Put, Files!Slots, Sound, Files!Documents
    <2> DEFINE moved == [d.scopes EXCEPT ![x] = s]
    <2>2. /\ moved \in [Scopes -> Files!Selections \cup {Absent}]
          /\ \A y \in Scopes : moved[y] = IF y = x THEN s ELSE d.scopes[y]
      BY <2>1 DEF Sound, Files!Documents
    <2> HIDE DEF moved
    <2>3. LET w == Files!Put(d, x, s) IN
          /\ w \in Files!Documents /\ w.entries = d.entries /\ w.now = d.now /\ w.pick = d.pick /\ w.scopes = moved
      BY <2>1, <2>2 DEF Sound, Files!Documents, moved
    <2>4. Files!Put(d, x, s).now # None => Files!Put(d, x, s).scopes[d.now] # Absent
      BY <2>2, <2>3, Apart DEF Sound, Files!Documents
    <2>5. \A y \in Files!Slots : Files!In(Files!Put(d, x, s), y) = IF y = x THEN s ELSE Files!In(d, y)
      BY <1>2, <2>2, <2>3 DEF Files!In, Files!Slots
    <2>. QED
      BY <2>3, <2>4, <2>5 DEF Sound
  <1>. QED
    BY <1>1, <1>2

\* What the user's acts make of the documents.
LEMMA OpenFields ==
  ASSUME Typed, NEW s \in Scopes, Files!Open(s)
  PROVE  LET to == IF kind = "autoclaw" /\ Files!Selects(doc.pick) /\ doc.pick.name # Official
                   THEN Files!Ref(Bare, doc.pick.model) ELSE doc.pick IN
         /\ Sound(doc') /\ doc'.entries = doc.entries /\ doc'.now = s /\ doc'.pick = doc.pick
         /\ \A y \in Files!Slots : Files!In(doc', y) = IF y = s THEN to ELSE Files!In(doc, y)
         /\ doc'.scopes[s] = to /\ to \in Files!Selections
  <1> DEFINE to == IF kind = "autoclaw" /\ Files!Selects(doc.pick) /\ doc.pick.name # Official
                   THEN Files!Ref(Bare, doc.pick.model) ELSE doc.pick
             moved == [doc.scopes EXCEPT ![s] = to]
  <1>1. doc \in Files!Documents /\ doc.pick \in Files!Selections
    BY DEF Typed, Sound, Files!Documents
  <1>2. Files!Selects(doc.pick) => doc.pick.model \in Files!Models
    BY <1>1 DEF Files!Selections, Files!Selects, Files!References
  <1>3. to \in Files!Selections /\ to # Absent
    BY <1>1, <1>2, RefTyped, NamesTyped, Apart
  <1>4. doc' = [doc EXCEPT !.scopes = moved, !.now = s]
    BY <1>1 DEF Files!Open, Files!Documents
  <1> HIDE DEF to
  <1>5. /\ moved \in [Scopes -> Files!Selections \cup {Absent}]
        /\ \A y \in Scopes : moved[y] = IF y = s THEN to ELSE doc.scopes[y]
    BY <1>1, <1>3 DEF Files!Documents
  <1> HIDE DEF moved
  <1>6. /\ doc' \in Files!Documents /\ doc'.entries = doc.entries /\ doc'.now = s /\ doc'.pick = doc.pick /\ doc'.scopes = moved
    BY <1>1, <1>4, <1>5 DEF Files!Documents
  <1>7. \A y \in Files!Slots : Files!In(doc', y) = IF y = s THEN to ELSE Files!In(doc, y)
    BY <1>5, <1>6, Apart DEF Files!In, Files!Slots
  <1>8. Sound(doc')
    BY <1>3, <1>5, <1>6 DEF Sound, Typed
  <1>. QED
    BY <1>3, <1>5, <1>6, <1>7, <1>8 DEF to

LEMMA ReturnFields ==
  ASSUME Typed, NEW s \in Scopes, Files!Return(s)
  PROVE  /\ Sound(doc') /\ doc'.entries = doc.entries /\ doc'.now = s /\ doc'.pick = doc.pick /\ doc'.scopes = doc.scopes
         /\ \A y \in Files!Slots : Files!In(doc', y) = Files!In(doc, y)
  <1>1. /\ doc' \in Files!Documents /\ doc'.entries = doc.entries /\ doc'.now = s /\ doc'.pick = doc.pick
        /\ doc'.scopes = doc.scopes /\ doc.scopes[s] # Absent
    BY DEF Typed, Sound, Files!Documents, Files!Return
  <1>. QED
    BY <1>1 DEF Sound, Files!In, Typed

LEMMA AddFields ==
  ASSUME Typed, NEW e \in Mine, Files!Add(e)
  PROVE  /\ Sound(doc') /\ doc'.entries = doc.entries \cup {e} /\ doc'.now = doc.now /\ doc'.pick = doc.pick
         /\ doc'.scopes = doc.scopes
         /\ \A y \in Files!Slots : Files!In(doc', y) = Files!In(doc, y)
  <1>1. e \in Files!Entries /\ Files!Only(e) \in Files!Models /\ e.models # {}
    BY MineTyped
  <1>2. (IF doc.offered = None THEN None ELSE doc.offered \cup {Files!Only(e)}) \in {None} \cup SUBSET Files!Models
    BY <1>1 DEF Typed, Sound, Files!Documents
  <1>3. /\ doc' \in Files!Documents /\ doc'.entries = doc.entries \cup {e} /\ doc'.now = doc.now /\ doc'.pick = doc.pick
        /\ doc'.scopes = doc.scopes
    BY <1>1, <1>2 DEF Typed, Sound, Files!Documents, Files!Add
  <1>. QED
    BY <1>1, <1>3 DEF Sound, Files!In, Typed

LEMMA BaselineSound ==
  ASSUME Typed
  PROVE  Sound(Files!Baseline) /\ Files!Baseline # None /\ Files!Baseline \in Files!Documents
  <1>1. None \notin Files!Documents
    BY AgentsAssumption DEF Files!Assumptions
  <1>. QED
    BY <1>1 DEF Typed, Files!Baseline, Sound

LEMMA MemoriesTyped ==
  ASSUME Typed
  PROVE  /\ Files!Remembered \in Memories /\ Files!Chosen \in Memories /\ Files!Nothing \in Memories
         /\ Sound(doc') => Files!Taken \in Memories
  <1>1. \A x \in Files!Slots : Files!In(doc, x) \in Files!Selections \cup {Absent}
    BY SlotTyped DEF Typed
  <1>2. Files!Nothing \in Memories
    BY DEF Files!Nothing, Memories
  <1>3. memory \in Memories /\ user.chose \in Memories /\ user.taken \in Memories
    BY DEF Typed, Users
  <1>4. Files!Remembered \in Memories
    BY <1>1, <1>3 DEF Files!Remembered, Memories
  <1>5. Files!Chosen \in Memories
    BY <1>1, <1>3 DEF Files!Chosen, Memories
  <1>6. Files!Taken \in Memories
    <2> DEFINE before == IF binding = None THEN Files!Nothing ELSE user.taken
    <2>1. before \in Memories
      BY <1>2, <1>3
    <2> HIDE DEF before
    <2>2. Files!Taken = [x \in Files!Slots |-> IF before[x] = Absent /\ (x = "pick" \/ Files!In(doc', x) # Files!In(doc, x)) THEN Files!In(doc, x) ELSE before[x]]
      BY DEF Files!Taken, before
    <2>. QED
      BY <1>1, <2>1, <2>2 DEF Memories
  <1>. QED
    BY <1>2, <1>4, <1>5, <1>6

LEMMA ChooseFields ==
  ASSUME Typed, NEW x \in Files!Slots, Files!Choose(x)
  PROVE  \E s \in Files!Eligible(x, user.own) :
           /\ s \in Files!Selections /\ Files!Selects(s) /\ s # Files!In(doc, x)
           /\ Sound(doc') /\ doc'.entries = doc.entries /\ doc'.now = doc.now
           /\ \A y \in Files!Slots : Files!In(doc', y) = IF y = x THEN s ELSE Files!In(doc, y)
           /\ user' = [user EXCEPT !.chose[x] = s, !.adrift = @ \ {x}]
  <1>1. PICK s \in Files!Eligible(x, user.own) \ {Files!In(doc, x)} :
          doc' = Files!Put(doc, x, s) /\ user' = [user EXCEPT !.chose[x] = s, !.adrift = @ \ {x}]
    BY DEF Files!Choose
  <1>2. s \in Files!Selections /\ Files!Selects(s)
    BY EligibleTyped DEF Typed, Users
  <1>3. Sound(doc)
    BY DEF Typed
  <1>4. /\ Sound(Files!Put(doc, x, s)) /\ Files!Put(doc, x, s).entries = doc.entries /\ Files!Put(doc, x, s).now = doc.now
        /\ \A y \in Files!Slots : Files!In(Files!Put(doc, x, s), y) = IF y = x THEN s ELSE Files!In(doc, y)
    BY <1>2, <1>3, PutFields
  <1>. QED
    BY <1>1, <1>2, <1>4

LEMMA InitFields ==
  ASSUME Files!Init
  PROVE  /\ kind \in Kinds /\ base = None /\ memory = Files!Nothing /\ binding = None /\ said = ""
         /\ \E mine \in SUBSET Mine, pick \in {Unset, Files!Ref(Official, Usual)}, cut \in BOOLEAN :
              /\ doc = [entries |-> mine, pick |-> pick, scopes |-> [s \in Scopes |-> Absent],
                        now |-> None, global |-> Unset,
                        offered |-> IF cut THEN {Files!Only(e) : e \in mine} ELSE None]
              /\ user = [own |-> mine, chose |-> [x \in Files!Slots |-> IF x = "pick" THEN pick ELSE Absent],
                         taken |-> Files!Nothing, adrift |-> {}]
  BY DEF Files!Init, Files!Makes

LEMMA TypedInit ==
  ASSUME Files!Init
  PROVE  Typed
  <1>1. PICK mine \in SUBSET Mine, pick \in {Unset, Files!Ref(Official, Usual)}, cut \in BOOLEAN :
          /\ doc = [entries |-> mine, pick |-> pick, scopes |-> [s \in Scopes |-> Absent],
                    now |-> None, global |-> Unset,
                    offered |-> IF cut THEN {Files!Only(e) : e \in mine} ELSE None]
          /\ user = [own |-> mine, chose |-> [x \in Files!Slots |-> IF x = "pick" THEN pick ELSE Absent],
                     taken |-> Files!Nothing, adrift |-> {}]
    BY InitFields
  <1>2. mine \subseteq Mine
    OBVIOUS
  <1>3. \A e \in mine : e \in Files!Entries /\ Files!Only(e) \in Files!Models /\ e.models # {}
    BY <1>2, MineTyped
  <1>4. pick \in Files!Selections /\ Unset \in Files!Selections
    <2>1. Files!Ref(Official, Usual) \in Files!Selections
      BY RefTyped, NamesTyped
    <2>. QED
      BY <2>1, Apart
  <1>5. (IF cut THEN {Files!Only(e) : e \in mine} ELSE None) \in {None} \cup SUBSET Files!Models
    BY <1>3
  <1>6. Sound(doc)
    BY <1>1, <1>3, <1>4, <1>5 DEF Sound, Files!Documents
  <1>7. Files!Nothing \in Memories /\ [x \in Files!Slots |-> IF x = "pick" THEN pick ELSE Absent] \in Memories
    BY <1>4 DEF Files!Nothing, Memories
  <1>8. user \in Users
    BY <1>1, <1>2, <1>7 DEF Users
  <1>. QED
    BY <1>6, <1>7, <1>8, InitFields DEF Typed

LEMMA TypedSwitch ==
  ASSUME Typed, NEW p \in Providers, Files!Switch(p)
  PROVE  Typed' /\ doc'.now = doc.now
  <1>1. Sound(doc') /\ doc'.now = doc.now
    BY WrittenSound DEF Typed, Files!Switch
  <1>2. Sound(base') /\ base' \in Files!Documents
    BY BaselineSound DEF Files!Switch
  <1>3. memory' \in Memories /\ user' \in Users
    BY <1>1, MemoriesTyped DEF Files!Switch, Typed, Users
  <1>. QED
    BY <1>1, <1>2, <1>3 DEF Typed, Files!Switch, Sound

LEMMA TypedStep ==
  ASSUME Typed, [Files!Next]_(Files!vars)
  PROVE  Typed'
  <1>1. CASE UNCHANGED Files!vars
    BY <1>1 DEF Typed, Files!vars, Sound
  <1>2. ASSUME NEW p \in Providers, Files!Switch(p)
        PROVE  Typed'
    BY <1>2, TypedSwitch
  <1>3. ASSUME NEW p \in Providers, Files!SwitchFails(p)
        PROVE  Typed'
    <2>1. Sound(doc')
      BY <1>3, CodeBuddyGlobalFields DEF Typed, Files!SwitchFails
    <2>2. Sound(base') /\ base' \in Files!Documents
      BY <1>3, BaselineSound DEF Files!SwitchFails
    <2>. QED
      BY <1>3, <2>1, <2>2 DEF Typed, Files!SwitchFails, Sound
  <1>4. ASSUME Files!Restore
        PROVE  Typed'
    <2>1. Sound(doc')
      BY <1>4, BaselineSound, NativeSound DEF Typed, Files!Restore
    <2>2. Sound(base') /\ base' \in Files!Documents
      BY <1>4, BaselineSound DEF Files!Restore
    <2>3. memory' \in Memories
      BY <1>4, MemoriesTyped DEF Files!Restore
    <2>4. Files!Adrift \subseteq Files!Slots
      BY DEF Files!Adrift, Files!Slots
    <2>5. user' \in Users
      BY <1>4, <2>4 DEF Files!Restore, Typed, Users
    <2>. QED
      BY <1>4, <2>1, <2>2, <2>3, <2>5 DEF Typed, Files!Restore, Sound
  <1>5. ASSUME NEW x \in Files!Slots, Files!Choose(x)
        PROVE  Typed'
    <2>1. PICK s \in Files!Eligible(x, user.own) :
            s \in Files!Selections /\ Sound(doc') /\ user' = [user EXCEPT !.chose[x] = s, !.adrift = @ \ {x}]
      BY <1>5, ChooseFields
    <2>4. user' \in Users
      BY <2>1 DEF Typed, Users, Memories
    <2>. QED
      BY <1>5, <2>1, <2>4 DEF Typed, Files!Choose, Files!Act, Sound
  <1>6. ASSUME NEW s \in Scopes, Files!Open(s)
        PROVE  Typed'
    <2>1. Sound(doc') /\ doc'.scopes[s] \in Files!Selections
      BY <1>6, OpenFields
    <2>2. (IF doc.pick \in Files!OurSelections THEN Unset ELSE doc'.scopes[s]) \in Files!Selections
      BY <2>1, Apart
    <2>3. user' \in Users
      BY <1>6, <2>2 DEF Files!Open, Typed, Users, Memories
    <2>. QED
      BY <1>6, <2>1, <2>3 DEF Typed, Files!Open, Files!Act, Sound
  <1>7. ASSUME NEW s \in Scopes, Files!Return(s)
        PROVE  Typed'
    BY <1>7, ReturnFields DEF Typed, Files!Return, Files!Act, Sound
  <1>8. ASSUME NEW e \in Mine, Files!Add(e)
        PROVE  Typed'
    <2>1. Sound(doc')
      BY <1>8, AddFields
    <2>2. user' \in Users
      BY <1>8 DEF Files!Add, Typed, Users
    <2>. QED
      BY <1>8, <2>1, <2>2 DEF Typed, Files!Add, Files!Act, Sound
  <1>. QED
    BY <1>1, <1>2, <1>3, <1>4, <1>5, <1>6, <1>7, <1>8 DEF Files!Next

-----------------------------------------------------------------------------
(* Whose entry is whose *)

\* What Told says of an entry, the binding aside.
Owned(e) ==
  /\ kind \in Marking /\ ~e.mark => ~Files!Ours(e)
  /\ kind \in Naming /\ Files!Ours(e) => e.name = AtSwitch
  /\ kind \in Keeping /\ e.mark => \E p \in Providers : e.name = p.name /\ e.models = {p.model}
  /\ kind = "dumate" /\ e.mark => e.name \in {AtSwitch, Built}

LEMMA KindsAre == Typed => kind \in {"codex", "openclaw", "autoclaw", "workbuddy", "codebuddy", "zcode", "hermes", "dumate", "aionclaw"}
  BY AgentsAssumption DEF Files!Assumptions, Typed

LEMMA MineOwned ==
  ASSUME NEW e \in Mine
  PROVE  Owned(e)
  BY MineTyped DEF Owned

LEMMA BaselineUntouched ==
  ASSUME Typed, Told
  PROVE  Untouched(Files!Baseline)
  BY DEF Told, Files!Baseline

LEMMA MadeOwned ==
  ASSUME NEW p \in Providers, NEW models, NEW mark, Typed
  PROVE  LET e == Files!Made(AtSwitch, models, p, mark)
             m == Files!Made(p.name, {p.model}, p, TRUE)
             o == Files!Made(Built, models, p, TRUE) IN
         /\ kind \in Naming => Owned(e)
         /\ kind = "dumate" /\ mark = TRUE => Owned(e) /\ Owned(o)
         /\ kind = "openclaw" => \A x : Owned(x)
         /\ kind \in {"autoclaw", "workbuddy", "codebuddy"} => Owned(m)
  BY DEF Files!Made, Owned, Naming, Marking, Keeping

LEMMA WrittenOwned ==
  ASSUME Typed, NEW p \in Providers, \A e \in doc.entries : Owned(e)
  PROVE  \A e \in Files!Written(doc, p).entries : Owned(e)
  <1> DEFINE w == Files!Written(doc, p)
  <1>0. Sound(doc) /\ kind \in {"codex", "openclaw", "autoclaw", "workbuddy", "codebuddy", "zcode", "hermes", "dumate", "aionclaw"}
    BY KindsAre DEF Typed
  <1>1. CASE kind \in {"codex", "hermes", "aionclaw"}
    <2> DEFINE e == Files!Made(AtSwitch, {p.model}, p, FALSE)
    <2>1. w.entries = Files!Upsert(doc.entries, e)
      BY <1>0, <1>1, CodexFields, HermesFields, AionClawFields DEF Files!Written
    <2>2. Owned(e)
      BY <1>1, MadeOwned DEF Naming
    <2>. QED
      BY <2>1, <2>2 DEF Files!Upsert
  <1>2. CASE kind = "zcode"
    <2> DEFINE e == Files!Made(AtSwitch, Files!ZCodeDeclared(doc.entries, p), p, FALSE)
    <2>1. w.entries = Files!Upsert(doc.entries, e)
      BY <1>0, <1>2, ZCodeFields DEF Files!Written
    <2>2. Owned(e)
      BY <1>2, MadeOwned DEF Naming
    <2>. QED
      BY <2>1, <2>2 DEF Files!Upsert
  <1>3. CASE kind = "dumate"
    <2> DEFINE e == Files!Made(AtSwitch, {p.model}, p, TRUE)
               b == Files!Made(Built, Files!Aliases(doc.entries), p, TRUE)
    <2>1. w.entries = Files!Upsert(Files!Upsert(doc.entries, e), b)
      BY <1>0, <1>3, DuMateFields DEF Files!Written
    <2>2. Owned(e) /\ Owned(b)
      BY <1>3, MadeOwned
    <2>. QED
      BY <2>1, <2>2 DEF Files!Upsert
  <1>4. CASE kind = "openclaw"
    BY <1>4 DEF Owned, Marking, Naming, Keeping
  <1>5. CASE kind = "autoclaw"
    <2>1. w.entries = Files!AutoClawOthers(doc.entries) \cup {Files!Made(p.name, {p.model}, p, TRUE)}
      BY <1>0, <1>5, AutoClawFields DEF Files!Written
    <2>. QED
      BY <1>5, <2>1, MadeOwned DEF Files!AutoClawOthers, Files!Unmarked
  <1>6. CASE kind = "workbuddy"
    <2>1. w.entries = Files!Unmarked(doc.entries) \cup {Files!Made(p.name, {p.model}, p, TRUE)}
      BY <1>0, <1>6, WorkBuddyFields DEF Files!Written
    <2>. QED
      BY <1>6, <2>1, MadeOwned DEF Files!Unmarked
  <1>7. CASE kind = "codebuddy"
    <2>1. w.entries = Files!NamedAll(Files!Unmarked(doc.entries)) \cup {Files!Made(p.name, {p.model}, p, TRUE)}
      BY <1>0, <1>7, CodeBuddyFields DEF Files!Written
    <2>2. Files!Unmarked(doc.entries) \subseteq Files!Entries /\ \A x \in Files!Unmarked(doc.entries) : x.models # {}
      BY <1>0 DEF Files!Unmarked, Sound, Files!Documents
    <2>3. \A x \in Files!NamedAll(Files!Unmarked(doc.entries)) : \E y \in Files!Unmarked(doc.entries) : x.key = y.key /\ x.mark = y.mark
      BY <2>2, NamedTyped
    <2>4. \A x \in Files!NamedAll(Files!Unmarked(doc.entries)) : ~x.mark /\ ~Files!Ours(x)
      BY <1>7, <2>3 DEF Files!Unmarked, Owned, Files!Ours, Marking
    <2>5. Owned(Files!Made(p.name, {p.model}, p, TRUE))
      BY <1>7, MadeOwned
    <2>6. \A x \in Files!NamedAll(Files!Unmarked(doc.entries)) : Owned(x)
      BY <1>7, <2>4 DEF Owned, Naming
    <2>. QED
      BY <2>1, <2>5, <2>6
  <1>. QED
    BY <1>0, <1>1, <1>2, <1>3, <1>4, <1>5, <1>6, <1>7

\* No entry of AT-Switch's is left, where the adapter can tell them.
LEMMA NativeOwned ==
  ASSUME Typed, Told
  PROVE  \A e \in Files!NativeOf(doc, Files!Baseline, memory).entries :
           Owned(e) /\ (kind \in Marking => ~e.mark /\ ~Files!Ours(e)) /\ (kind \in {"zcode", "hermes"} => e.name # AtSwitch)
  <1> DEFINE w == Files!NativeOf(doc, Files!Baseline, memory)
  <1>0. /\ Sound(doc) /\ Sound(Files!Baseline) /\ memory \in Memories /\ Untouched(Files!Baseline)
        /\ kind \in {"codex", "openclaw", "autoclaw", "workbuddy", "codebuddy", "zcode", "hermes", "dumate", "aionclaw"}
        /\ \A e \in doc.entries : Owned(e)
    BY KindsAre, BaselineSound, BaselineUntouched DEF Typed, Told, Owned
  <1>1. CASE kind \in {"codex", "openclaw", "aionclaw"}
    <2>1. w.entries \subseteq doc.entries
      BY <1>0, <1>1, CodexNativeFields, OpenClawNativeFields DEF Files!NativeOf
    <2>. QED
      BY <1>0, <1>1, <2>1 DEF Marking
  <1>2. CASE kind \in {"autoclaw", "workbuddy", "codebuddy"}
    <2>1. w.entries \subseteq Files!Unmarked(doc.entries)
      BY <1>0, <1>2, AutoClawNativeFields, WorkBuddyNativeFields, CodeBuddyNativeFields DEF Files!NativeOf, Files!AutoClawOthers
    <2>. QED
      BY <1>0, <1>2, <2>1 DEF Owned, Files!Unmarked, Marking
  <1>3. CASE kind = "zcode"
    <2>1. w.entries = doc.entries \ Files!Called(doc.entries, AtSwitch)
      BY <1>0, <1>3, ZCodeNativeFields DEF Files!NativeOf
    <2>. QED
      BY <1>0, <1>3, <2>1 DEF Files!Called, Marking
  <1>4. CASE kind = "hermes"
    <2>1. w = Files!Baseline
      BY <1>4 DEF Files!NativeOf, Files!HermesNative
    <2>. QED
      BY <1>0, <1>4, <2>1 DEF Untouched, Owned, Marking, Keeping
  <1>5. CASE kind = "dumate"
    <2>1. w.entries \subseteq Files!Unmarked(doc.entries) \cup Files!Unmarked(Files!Baseline.entries)
      BY <1>0, <1>5, DuMateNativeFields DEF Files!NativeOf
    <2>. QED
      BY <1>0, <1>5, <2>1 DEF Files!Unmarked, Untouched, Owned, Marking, Naming, Keeping
  <1>. QED
    BY <1>0, <1>1, <1>2, <1>3, <1>4, <1>5

LEMMA ToldInit ==
  ASSUME Files!Init
  PROVE  Told
  <1>1. PICK mine \in SUBSET Mine, pick \in {Unset, Files!Ref(Official, Usual)}, cut \in BOOLEAN :
          /\ doc = [entries |-> mine, pick |-> pick, scopes |-> [s \in Scopes |-> Absent],
                    now |-> None, global |-> Unset,
                    offered |-> IF cut THEN {Files!Only(e) : e \in mine} ELSE None]
          /\ user = [own |-> mine, chose |-> [x \in Files!Slots |-> IF x = "pick" THEN pick ELSE Absent],
                     taken |-> Files!Nothing, adrift |-> {}]
    BY InitFields
  <1>2. \A e \in doc.entries : e \in Mine
    BY <1>1
  <1>3. \A e \in doc.entries : Owned(e) /\ ~Files!Ours(e) /\ ~e.mark /\ e.name # AtSwitch
    BY <1>2, MineTyped, MineOwned
  <1>4. doc.pick \in {Unset, Files!Ref(Official, Usual)}
    BY <1>1
  <1>5. Files!Selects(doc.pick) => doc.pick.name # AtSwitch
    BY <1>4, RefTyped, NamesTyped, Apart DEF Files!Selects
  <1>. QED
    BY <1>3, <1>5, InitFields DEF Told, Owned, Untouched

LEMMA ToldStep ==
  ASSUME Typed, Told, [Files!Next]_(Files!vars)
  PROVE  Told'
  <1>0. \A e \in doc.entries : Owned(e)
    BY DEF Told, Owned
  <1>a. ASSUME kind' = kind, doc'.entries = doc.entries, base' = base, binding' = binding,
               kind = "dumate" /\ Files!Selects(doc'.pick) /\ base = None => doc'.pick.name # AtSwitch
        PROVE  Told'
    BY <1>a DEF Told, Untouched, Files!Ours, Files!Selects
  <1>1. CASE UNCHANGED Files!vars
    BY <1>1 DEF Told, Files!vars, Untouched, Files!Ours, Files!Selects
  <1>2. ASSUME NEW p \in Providers, Files!Switch(p)
        PROVE  Told'
    <2>1. \A e \in doc'.entries : Owned(e)
      BY <1>0, <1>2, WrittenOwned DEF Files!Switch
    <2>2. Untouched(base') /\ base' # None /\ binding' = p /\ p # None /\ kind' = kind
      BY <1>2, BaselineUntouched, BaselineSound, AgentsAssumption DEF Files!Switch, Files!Assumptions
    <2>. QED
      BY <2>1, <2>2 DEF Told, Owned, Untouched, Files!Ours, Files!Selects
  <1>3. ASSUME NEW p \in Providers, Files!SwitchFails(p)
        PROVE  Told'
    <2>1. doc'.entries = doc.entries
      BY <1>3, CodeBuddyGlobalFields DEF Files!SwitchFails, Typed
    <2>2. Untouched(base') /\ base' # None /\ binding' = binding /\ kind' = kind
      BY <1>3, BaselineUntouched, BaselineSound DEF Files!SwitchFails
    <2>. QED
      BY <1>0, <2>1, <2>2 DEF Told, Owned, Untouched, Files!Ours, Files!Selects
  <1>4. ASSUME Files!Restore
        PROVE  Told'
    <2>1. \A e \in doc'.entries :
            Owned(e) /\ (kind \in Marking => ~e.mark /\ ~Files!Ours(e)) /\ (kind \in {"zcode", "hermes"} => e.name # AtSwitch)
      BY <1>4, NativeOwned DEF Files!Restore
    <2>2. Untouched(base') /\ base' # None /\ binding' = None /\ kind' = kind
      BY <1>4, BaselineUntouched, BaselineSound DEF Files!Restore
    <2>. QED
      BY <2>1, <2>2 DEF Told, Owned, Untouched, Files!Ours, Files!Selects
  <1>5. ASSUME NEW x \in Files!Slots, Files!Choose(x)
        PROVE  Told'
    <2>1. PICK s \in Files!Eligible(x, user.own) :
            Sound(doc') /\ doc'.entries = doc.entries /\ \A y \in Files!Slots : Files!In(doc', y) = IF y = x THEN s ELSE Files!In(doc, y)
      BY <1>5, ChooseFields
    <2>2. user.own \in SUBSET Mine
      BY DEF Typed, Users
    <2>5. doc'.pick = IF x = "pick" THEN s ELSE doc.pick
      BY <2>1, Slotted
    <2>6. kind = "dumate" => s.name # AtSwitch
      <3>1. Files!Ref(Official, Usual).name # AtSwitch
        BY Apart DEF Files!Ref
      <3>2. \A e \in user.own : Files!Ref(e.name, Files!Only(e)).name # AtSwitch
        BY <2>2, MineTyped DEF Files!Ref
      <3>. QED
        BY <2>1, <3>1, <3>2 DEF Files!Eligible, Files!RefOf
    <2>7. kind = "dumate" /\ Files!Selects(doc'.pick) /\ base = None => doc'.pick.name # AtSwitch
      BY <2>5, <2>6 DEF Told, Untouched
    <2>. QED
      BY <1>a, <1>5, <2>1, <2>7 DEF Files!Choose, Files!Act
  <1>6. ASSUME NEW s \in Scopes, Files!Open(s)
        PROVE  Told'
    BY <1>a, <1>6, OpenFields DEF Files!Open, Files!Act, Told, Untouched
  <1>7. ASSUME NEW s \in Scopes, Files!Return(s)
        PROVE  Told'
    BY <1>a, <1>7, ReturnFields DEF Files!Return, Files!Act, Told, Untouched
  <1>8. ASSUME NEW e \in Mine, Files!Add(e)
        PROVE  Told'
    <2>1. doc'.entries = doc.entries \cup {e} /\ doc'.pick = doc.pick
      BY <1>8, AddFields
    <2>2. Owned(e) /\ ~Files!Ours(e) /\ ~e.mark /\ e.name # AtSwitch
      BY MineTyped, MineOwned
    <2>3. kind' = kind /\ base' = base /\ binding' = binding
      BY <1>8 DEF Files!Add, Files!Act
    <2>. QED
      BY <1>0, <2>1, <2>2, <2>3 DEF Told, Owned, Untouched, Files!Ours, Files!Selects
  <1>. QED
    BY <1>1, <1>2, <1>3, <1>4, <1>5, <1>6, <1>7, <1>8 DEF Files!Next

-----------------------------------------------------------------------------
(* The user's entries *)

Present(e, entries) == \E x \in entries : x = e \/ x = [e EXCEPT !.name = IF @ = NoName THEN Files!Only(e) ELSE @]

Excused(e, written, unbound) ==
  \/ kind = "openclaw" /\ \E p \in Providers : p.name = e.name
  \/ kind = "hermes" /\ written # None /\ e \notin written.entries
  \/ kind = "dumate" /\ e.name = Built /\ (~unbound \/ e \notin written.entries)

LEMMA StayIs ==
  Files!UsersEntriesStay <=> \A e \in user.own : Present(e, doc.entries) \/ Excused(e, base, binding = None)
  BY DEF Files!UsersEntriesStay, Present, Excused

LEMMA StayIsNext ==
  kind' = kind =>
    (Files!UsersEntriesStay' <=> \A e \in user'.own : Present(e, doc'.entries) \/ Excused(e, base', binding' = None))
  BY DEF Files!UsersEntriesStay, Present, Excused

LEMMA PresentExact ==
  ASSUME NEW e \in Mine, NEW entries, e.name # NoName
  PROVE  Present(e, entries) <=> e \in entries
  <1>1. [e EXCEPT !.name = IF @ = NoName THEN Files!Only(e) ELSE @] = e
    BY MineTyped DEF Files!Entries
  <1>. QED
    BY <1>1 DEF Present

LEMMA PresentNamed ==
  ASSUME NEW e \in Mine, NEW entries, entries \subseteq Files!Entries, \A x \in entries : x.models # {}, Present(e, entries)
  PROVE  Present(e, Files!NamedAll(Files!Unmarked(entries)))
  <1> DEFINE n(y) == [y EXCEPT !.name = IF @ = NoName THEN Files!Only(y) ELSE @]
  <1>1. PICK x \in entries : x = e \/ x = n(e)
    BY DEF Present
  <1>2. e \in Files!Entries /\ ~e.mark
    BY MineTyped
  <1>3. ~x.mark /\ x \in Files!Entries /\ x.models = e.models
    BY <1>1, <1>2 DEF Files!Entries
  <1>4. n(x) \in Files!NamedAll(Files!Unmarked(entries))
    BY <1>3 DEF Files!NamedAll, Files!Unmarked
  <1>5. n(x) = n(e)
    <2>1. CASE x = e
      BY <2>1
    <2>2. CASE x = n(e)
      <3>1. Files!Only(x) = Files!Only(e)
        BY <1>3 DEF Files!Only
      <3>. QED
        BY <1>2, <1>3, <2>2, <3>1 DEF Files!Entries
    <2>. QED
      BY <1>1, <2>1, <2>2
  <1>. QED
    BY <1>4, <1>5 DEF Present

LEMMA KeptInit ==
  ASSUME Files!Init
  PROVE  Kept
  <1>1. PICK mine \in SUBSET Files!Makes({}), pick \in {Unset, Files!Ref(Official, Usual)}, cut \in BOOLEAN :
          /\ doc = [entries |-> mine, pick |-> pick, scopes |-> [s \in Scopes |-> Absent],
                    now |-> None, global |-> Unset,
                    offered |-> IF cut THEN {Files!Only(e) : e \in mine} ELSE None]
          /\ user = [own |-> mine, chose |-> [x \in Files!Slots |-> IF x = "pick" THEN pick ELSE Absent],
                     taken |-> Files!Nothing, adrift |-> {}]
    BY DEF Files!Init
  <1>2. \A e \in user.own : e \in doc.entries /\ (e.name = Built => kind = "dumate") /\ (e.name = NoName => kind = "codebuddy")
    BY <1>1 DEF Files!Makes
  <1>. QED
    BY <1>2, InitFields DEF Kept, Files!UsersEntriesStay

LEMMA KeptSwitch ==
  ASSUME Typed, Told, Kept, NEW p \in Providers, Files!Switch(p)
  PROVE  Kept'
  <1> DEFINE w == Files!Written(doc, p)
  <1>0. /\ Sound(doc) /\ user.own \subseteq Mine
        /\ kind \in {"codex", "openclaw", "autoclaw", "workbuddy", "codebuddy", "zcode", "hermes", "dumate", "aionclaw"}
    BY KindsAre DEF Typed, Users
  <1>1. /\ kind' = kind /\ doc' = w /\ user'.own = user.own /\ base' = Files!Baseline /\ binding' # None /\ base' # None
        /\ base # None => base' = base
    BY BaselineSound, AgentsAssumption DEF Files!Switch, Typed, Users, Files!Baseline, Files!Assumptions
  <1>2. \A e \in user.own : Present(e, doc.entries) \/ Excused(e, base, binding = None)
    BY StayIs DEF Kept
  <1>3. ASSUME NEW e \in user.own
        PROVE  Present(e, w.entries) \/ Excused(e, base', FALSE)
    <2>0. e \in Mine /\ ~e.mark /\ e.name # AtSwitch /\ (e.name = NoName => kind = "codebuddy")
      BY <1>0, MineTyped DEF Kept
    <2>1. CASE kind \in {"codex", "zcode", "aionclaw"}
      <3>1. e \in doc.entries
        BY <1>2, <2>0, <2>1, PresentExact DEF Excused
      <3>1a. kind = "codex" => w.entries = Files!Upsert(doc.entries, Files!Made(AtSwitch, {p.model}, p, FALSE))
        BY <1>0, CodexFields DEF Files!Written
      <3>1b. kind = "aionclaw" => w.entries = Files!Upsert(doc.entries, Files!Made(AtSwitch, {p.model}, p, FALSE))
        BY <1>0, AionClawFields DEF Files!Written
      <3>1c. kind = "zcode" => w.entries = Files!Upsert(doc.entries, Files!Made(AtSwitch, Files!ZCodeDeclared(doc.entries, p), p, FALSE))
        BY <1>0, ZCodeFields DEF Files!Written
      <3>2. \A models : e \in Files!Upsert(doc.entries, Files!Made(AtSwitch, models, p, FALSE))
        BY <2>0, <3>1 DEF Files!Upsert, Files!Made
      <3>3. e \in w.entries
        BY <2>1, <3>1a, <3>1b, <3>1c, <3>2
      <3>. QED
        BY <2>0, <2>1, <3>3, PresentExact
    <2>2. CASE kind = "hermes"
      <3>1. CASE e \in doc.entries
        <4>1. w.entries = Files!Upsert(doc.entries, Files!Made(AtSwitch, {p.model}, p, FALSE))
          BY <1>0, <2>2, CodexFields, HermesFields DEF Files!Written
        <4>2. e \in w.entries
          BY <2>0, <3>1, <4>1 DEF Files!Upsert, Files!Made
        <4>. QED
          BY <2>0, <2>2, <4>2, PresentExact
      <3>2. CASE e \notin doc.entries
        BY <1>1, <1>2, <2>0, <2>2, <3>2, PresentExact DEF Excused
      <3>. QED
        BY <3>1, <3>2
    <2>3. CASE kind = "openclaw"
      <3>1. CASE \E q \in Providers : q.name = e.name
        BY <2>3, <3>1 DEF Excused
      <3>2. CASE ~\E q \in Providers : q.name = e.name
        <4>1. e \in doc.entries
          BY <1>2, <2>0, <2>3, <3>2, PresentExact DEF Excused
        <4>2. w.entries = Files!Upsert(doc.entries \ Files!Called(doc.entries, AtSwitch), Files!Made(p.name, {p.model}, p, FALSE))
          BY <1>0, <2>3, OpenClawFields DEF Files!Written
        <4>3. e \in w.entries
          BY <2>0, <3>2, <4>1, <4>2 DEF Files!Upsert, Files!Made, Files!Called
        <4>. QED
          BY <2>0, <2>3, <4>3, PresentExact
      <3>. QED
        BY <3>1, <3>2
    <2>4. CASE kind \in {"autoclaw", "workbuddy"}
      <3>1. e \in doc.entries
        BY <1>2, <2>0, <2>4, PresentExact DEF Excused
      <3>1a. kind = "autoclaw" => w.entries = Files!AutoClawOthers(doc.entries) \cup {Files!Made(p.name, {p.model}, p, TRUE)}
        BY <1>0, AutoClawFields DEF Files!Written
      <3>1b. kind = "workbuddy" => w.entries = Files!Unmarked(doc.entries) \cup {Files!Made(p.name, {p.model}, p, TRUE)}
        BY <1>0, WorkBuddyFields DEF Files!Written
      <3>3. e \in Files!AutoClawOthers(doc.entries) /\ e \in Files!Unmarked(doc.entries)
        BY <2>0, <3>1 DEF Files!AutoClawOthers, Files!Unmarked, Files!Called
      <3>4. e \in w.entries
        BY <2>4, <3>1a, <3>1b, <3>3
      <3>. QED
        BY <2>0, <2>4, <3>4, PresentExact
    <2>5. CASE kind = "codebuddy"
      <3>1. Present(e, doc.entries)
        BY <1>2, <2>5 DEF Excused
      <3>2. Present(e, Files!NamedAll(Files!Unmarked(doc.entries)))
        BY <1>0, <2>0, <3>1, PresentNamed DEF Sound, Files!Documents
      <3>4. w.entries = Files!NamedAll(Files!Unmarked(doc.entries)) \cup {Files!Made(p.name, {p.model}, p, TRUE)}
        BY <1>0, <2>5, CodeBuddyFields DEF Files!Written
      <3>3. Files!NamedAll(Files!Unmarked(doc.entries)) \subseteq w.entries
        BY <3>4
      <3>. QED
        BY <3>2, <3>3 DEF Present
    <2>6. CASE kind = "dumate"
      <3>1. CASE e.name = Built
        BY <2>6, <3>1 DEF Excused
      <3>2. CASE e.name # Built
        <4>1. e \in doc.entries
          BY <1>2, <2>0, <2>6, <3>2, PresentExact DEF Excused
        <4>2. w.entries = Files!Upsert(Files!Upsert(doc.entries, Files!Made(AtSwitch, {p.model}, p, TRUE)), Files!Made(Built, Files!Aliases(doc.entries), p, TRUE))
          BY <1>0, <2>6, DuMateFields DEF Files!Written
        <4>3. e \in w.entries
          BY <2>0, <3>2, <4>1, <4>2 DEF Files!Upsert, Files!Made
        <4>. QED
          BY <2>0, <2>6, <4>3, PresentExact
      <3>. QED
        BY <3>1, <3>2
    <2>. QED
      BY <1>0, <2>1, <2>2, <2>3, <2>4, <2>5, <2>6
  <1>4. Files!UsersEntriesStay'
    BY <1>1, <1>3, StayIsNext DEF Excused
  <1>5. kind = "dumate" => \E y \in w.entries : y.mark /\ y.name = Built
    <2>1. CASE kind = "dumate"
      <3>1. w.entries = Files!Upsert(Files!Upsert(doc.entries, Files!Made(AtSwitch, {p.model}, p, TRUE)), Files!Made(Built, Files!Aliases(doc.entries), p, TRUE))
        BY <1>0, <2>1, DuMateFields DEF Files!Written
      <3>. QED
        BY <3>1 DEF Files!Upsert, Files!Made
    <2>. QED
      BY <2>1
  <1>. QED
    BY <1>1, <1>4, <1>5 DEF Kept

LEMMA KeptRestore ==
  ASSUME Typed, Told, Kept, Files!Restore
  PROVE  Kept'
  <1> DEFINE w == Files!NativeOf(doc, Files!Baseline, memory)
  <1>0. /\ Sound(doc) /\ Sound(Files!Baseline) /\ memory \in Memories /\ user.own \subseteq Mine
        /\ kind \in {"codex", "openclaw", "autoclaw", "workbuddy", "codebuddy", "zcode", "hermes", "dumate", "aionclaw"}
    BY KindsAre, BaselineSound DEF Typed, Users
  <1>1. /\ kind' = kind /\ doc' = w /\ user'.own = user.own /\ base' = Files!Baseline /\ binding' = None /\ base' # None
        /\ base # None => base' = base
        /\ base = None => base' = doc
    BY BaselineSound DEF Files!Restore, Typed, Users, Files!Baseline
  <1>2. \A e \in user.own : Present(e, doc.entries) \/ Excused(e, base, binding = None)
    BY StayIs DEF Kept
  <1>3. ASSUME NEW e \in user.own
        PROVE  /\ Present(e, w.entries) \/ Excused(e, base', TRUE)
               /\ kind = "dumate" /\ e.name = Built /\ e \in base'.entries => e \in w.entries
    <2>0. e \in Mine /\ ~e.mark /\ e.name # AtSwitch /\ (e.name = NoName => kind = "codebuddy")
      BY <1>0, MineTyped DEF Kept
    <2>1. CASE kind \in {"codex", "zcode", "aionclaw"}
      <3>1. e \in doc.entries
        BY <1>2, <2>0, <2>1, PresentExact DEF Excused
      <3>2. e \in w.entries
        BY <1>0, <2>0, <2>1, <3>1, CodexNativeFields, ZCodeNativeFields DEF Files!NativeOf, Files!Called
      <3>. QED
        BY <2>0, <2>1, <3>2, PresentExact
    <2>2. CASE kind = "hermes"
      <3>1. w = base'
        BY <1>1, <2>2 DEF Files!NativeOf, Files!HermesNative
      <3>. QED
        BY <1>1, <2>0, <2>2, <3>1, PresentExact DEF Excused
    <2>3. CASE kind = "openclaw"
      <3>1. CASE \E q \in Providers : q.name = e.name
        BY <2>3, <3>1 DEF Excused
      <3>2. CASE ~\E q \in Providers : q.name = e.name
        <4>1. e \in doc.entries
          BY <1>2, <2>0, <2>3, <3>2, PresentExact DEF Excused
        <4>2. e \in w.entries
          BY <1>0, <2>0, <2>3, <4>1, OpenClawNativeFields DEF Files!NativeOf, Files!Called
        <4>. QED
          BY <2>0, <2>3, <4>2, PresentExact
      <3>. QED
        BY <3>1, <3>2, <2>3
    <2>4. CASE kind \in {"autoclaw", "workbuddy"}
      <3>1. e \in doc.entries
        BY <1>2, <2>0, <2>4, PresentExact DEF Excused
      <3>2. e \in w.entries
        BY <1>0, <2>0, <2>4, <3>1, AutoClawNativeFields, WorkBuddyNativeFields DEF Files!NativeOf, Files!AutoClawOthers, Files!Unmarked, Files!Called
      <3>. QED
        BY <2>0, <2>4, <3>2, PresentExact
    <2>5. CASE kind = "codebuddy"
      <3>1. Present(e, doc.entries)
        BY <1>2, <2>5 DEF Excused
      <3>2. PICK x \in doc.entries : x = e \/ x = [e EXCEPT !.name = IF @ = NoName THEN Files!Only(e) ELSE @]
        BY <3>1 DEF Present
      <3>3. ~x.mark
        BY <2>0, <3>2, MineTyped DEF Files!Entries
      <3>4. x \in w.entries
        BY <1>0, <2>5, <3>2, <3>3, CodeBuddyNativeFields DEF Files!NativeOf, Files!Unmarked
      <3>. QED
        BY <2>5, <3>2, <3>4 DEF Present
    <2>6. CASE kind = "dumate"
      <3>1. w.entries = Files!Unmarked(doc.entries) \cup
              {x \in Files!Unmarked(Files!Baseline.entries) : x.name \in {AtSwitch, Built} /\ \E y \in doc.entries : y.mark /\ y.name = x.name}
        BY <1>0, <2>6, DuMateNativeFields DEF Files!NativeOf
      <3>2. CASE e \in doc.entries
        <4>1. e \in w.entries
          BY <2>0, <3>1, <3>2 DEF Files!Unmarked
        <4>. QED
          BY <2>0, <2>6, <4>1, PresentExact
      <3>3. CASE e \notin doc.entries
        <4>1. e.name = Built
          BY <1>2, <2>0, <2>6, <3>3, PresentExact DEF Excused
        <4>2. e \in base'.entries => e \in w.entries
          <5>1. SUFFICES ASSUME e \in base'.entries
                         PROVE  e \in w.entries
            OBVIOUS
          <5>2. base # None /\ base' = base
            BY <1>1, <3>3, <5>1
          <5>3. \E y \in doc.entries : y.mark /\ y.name = Built
            BY <2>6, <3>3, <4>1, <5>1, <5>2 DEF Kept
          <5>. QED
            BY <1>1, <2>0, <3>1, <4>1, <5>1, <5>3 DEF Files!Unmarked
        <4>. QED
          BY <2>0, <2>6, <4>1, <4>2, PresentExact DEF Excused
      <3>. QED
        BY <3>2, <3>3
    <2>. QED
      BY <1>0, <2>1, <2>2, <2>3, <2>4, <2>5, <2>6
  <1>4. Files!UsersEntriesStay'
    BY <1>1, <1>3, StayIsNext DEF Excused
  <1>. QED
    BY <1>1, <1>3, <1>4 DEF Kept

LEMMA KeptStep ==
  ASSUME Typed, Told, Kept, [Files!Next]_(Files!vars)
  PROVE  Kept'
  <1>0. user.own \subseteq Mine /\ \A e \in user.own : Present(e, doc.entries) \/ Excused(e, base, binding = None)
    BY StayIs DEF Kept, Typed, Users
  <1>a. ASSUME kind' = kind, doc'.entries = doc.entries, base' = base, binding' = binding, user'.own = user.own
        PROVE  Kept'
    <2>1. Files!UsersEntriesStay'
      BY <1>0, <1>a, StayIsNext
    <2>. QED
      BY <1>a, <2>1 DEF Kept
  <1>1. CASE UNCHANGED Files!vars
    BY <1>1, <1>a DEF Files!vars
  <1>2. ASSUME NEW p \in Providers, Files!Switch(p)
        PROVE  Kept'
    BY <1>2, KeptSwitch
  <1>3. ASSUME NEW p \in Providers, Files!SwitchFails(p)
        PROVE  Kept'
    <2>1. doc'.entries = doc.entries /\ kind = "codebuddy" /\ kind' = kind /\ user' = user
      BY <1>3, CodeBuddyGlobalFields DEF Files!SwitchFails, Typed
    <2>2. Files!UsersEntriesStay'
      BY <1>0, <2>1, StayIsNext DEF Excused
    <2>. QED
      BY <2>1, <2>2 DEF Kept
  <1>4. ASSUME Files!Restore
        PROVE  Kept'
    BY <1>4, KeptRestore
  <1>5. ASSUME NEW x \in Files!Slots, Files!Choose(x)
        PROVE  Kept'
    <2>1. doc'.entries = doc.entries /\ \E s : user' = [user EXCEPT !.chose[x] = s, !.adrift = @ \ {x}]
      BY <1>5, ChooseFields
    <2>2. user'.own = user.own
      BY <2>1 DEF Typed, Users
    <2>. QED
      BY <1>a, <1>5, <2>1, <2>2 DEF Files!Choose, Files!Act
  <1>6. ASSUME NEW s \in Scopes, Files!Open(s)
        PROVE  Kept'
    <2>1. user'.own = user.own
      BY <1>6 DEF Files!Open, Typed, Users
    <2>. QED
      BY <1>a, <1>6, <2>1, OpenFields DEF Files!Open, Files!Act
  <1>7. ASSUME NEW s \in Scopes, Files!Return(s)
        PROVE  Kept'
    BY <1>a, <1>7, ReturnFields DEF Files!Return, Files!Act
  <1>8. ASSUME NEW e \in Mine, Files!Add(e)
        PROVE  Kept'
    <2>1. doc'.entries = doc.entries \cup {e} /\ user'.own = user.own \cup {e}
      BY <1>8, AddFields DEF Files!Add, Typed, Users
    <2>2. kind' = kind /\ base' = base /\ binding' = binding
      BY <1>8 DEF Files!Add, Files!Act
    <2>3. (e.name = Built => kind = "dumate") /\ (e.name = NoName => kind = "codebuddy")
      BY <1>8 DEF Files!Add, Files!Makes
    <2>4. \A x \in user'.own : Present(x, doc'.entries) \/ Excused(x, base', binding' = None)
      BY <1>0, <2>1, <2>2 DEF Present
    <2>5. Files!UsersEntriesStay'
      BY <2>2, <2>4, StayIsNext
    <2>. QED
      BY <2>1, <2>2, <2>3, <2>5 DEF Kept
  <1>. QED
    BY <1>1, <1>2, <1>3, <1>4, <1>5, <1>6, <1>7, <1>8 DEF Files!Next

-----------------------------------------------------------------------------
(* What a switch and a restore leave alone *)

LEMMA ScopelessInit ==
  ASSUME Files!Init
  PROVE  Scopeless
  <1>1. PICK mine \in SUBSET Mine, pick \in {Unset, Files!Ref(Official, Usual)}, cut \in BOOLEAN :
          /\ doc = [entries |-> mine, pick |-> pick, scopes |-> [s \in Scopes |-> Absent],
                    now |-> None, global |-> Unset,
                    offered |-> IF cut THEN {Files!Only(e) : e \in mine} ELSE None]
          /\ user = [own |-> mine, chose |-> [x \in Files!Slots |-> IF x = "pick" THEN pick ELSE Absent],
                     taken |-> Files!Nothing, adrift |-> {}]
    BY InitFields
  <1>2. \A s \in Scopes : s \in Files!Slots /\ s # "pick"
    BY Slotted, Apart
  <1>. QED
    BY <1>1, <1>2, InitFields DEF Scopeless

LEMMA ScopelessStep ==
  ASSUME Typed, Scopeless, [Files!Next]_(Files!vars)
  PROVE  Scopeless'
  <1>0. /\ Sound(doc) /\ Sound(Files!Baseline) /\ user \in Users /\ memory \in Memories
    BY BaselineSound DEF Typed
  <1>00. \A s \in Scopes : s \in Files!Slots /\ s # "pick" /\ Files!In(doc, s) = doc.scopes[s]
    BY Slotted, Apart
  <1>b. kind \in Unscoped => \A s \in Scopes : Files!Baseline.scopes[s] = Absent
    BY DEF Scopeless, Files!Baseline
  <1>1. CASE UNCHANGED Files!vars
    BY <1>1 DEF Scopeless, Files!vars
  <1>2. ASSUME NEW p \in Providers, Files!Switch(p)
        PROVE  Scopeless'
    <2>1. kind' = kind /\ base' = Files!Baseline /\ user'.chose = Files!Chosen
      BY <1>0, <1>2 DEF Files!Switch, Users
    <2>2. kind \in Unscoped => doc'.scopes = doc.scopes
      <3>1. kind = "codex" => doc'.scopes = doc.scopes
        BY <1>0, <1>2, CodexFields DEF Files!Switch, Files!Written
      <3>2. kind = "hermes" => doc'.scopes = doc.scopes
        BY <1>0, <1>2, CodexFields, HermesFields DEF Files!Switch, Files!Written
      <3>3. kind = "dumate" => doc'.scopes = doc.scopes
        BY <1>0, <1>2, DuMateFields DEF Files!Switch, Files!Written
      <3>. QED
        BY <3>1, <3>2, <3>3 DEF Unscoped
    <2>3. \A s \in Scopes : Files!Chosen[s] \in {user.chose[s], doc.scopes[s]}
      BY <1>00 DEF Files!Chosen
    <2>. QED
      BY <1>b, <2>1, <2>2, <2>3 DEF Scopeless, Unscoped
  <1>3. ASSUME NEW p \in Providers, Files!SwitchFails(p)
        PROVE  Scopeless'
    BY <1>3 DEF Files!SwitchFails, Scopeless, Unscoped
  <1>4. ASSUME Files!Restore
        PROVE  Scopeless'
    <2>1. kind' = kind /\ base' = Files!Baseline /\ user'.chose = user.chose
      BY <1>0, <1>4 DEF Files!Restore, Users
    <2>2. kind \in Unscoped => doc'.scopes \in {doc.scopes, Files!Baseline.scopes}
      <3>1. kind = "codex" => doc'.scopes = doc.scopes
        BY <1>0, <1>4, CodexNativeFields DEF Files!Restore, Files!NativeOf
      <3>2. kind = "hermes" => doc'.scopes = Files!Baseline.scopes
        BY <1>4 DEF Files!Restore, Files!NativeOf, Files!HermesNative
      <3>3. kind = "dumate" => doc'.scopes = doc.scopes
        BY <1>0, <1>4, DuMateNativeFields DEF Files!Restore, Files!NativeOf
      <3>. QED
        BY <3>1, <3>2, <3>3 DEF Unscoped
    <2>. QED
      BY <1>b, <2>1, <2>2 DEF Scopeless, Unscoped
  <1>5. ASSUME NEW x \in Files!Slots, Files!Choose(x)
        PROVE  Scopeless'
    <2>1. PICK s \in Files!Eligible(x, user.own) :
            /\ \A y \in Files!Slots : Files!In(doc', y) = IF y = x THEN s ELSE Files!In(doc, y)
            /\ user' = [user EXCEPT !.chose[x] = s, !.adrift = @ \ {x}]
      BY <1>5, ChooseFields
    <2>2. kind \in Unscoped => x \notin Scopes
      BY <1>00, <1>5 DEF Files!Choose, Scopeless
    <2>3. kind \in Unscoped => \A y \in Scopes : doc'.scopes[y] = doc.scopes[y] /\ user'.chose[y] = user.chose[y]
      BY <1>0, <1>00, <2>1, <2>2, Slotted DEF Users, Memories
    <2>. QED
      BY <1>5, <2>3 DEF Scopeless, Files!Choose, Files!Act, Unscoped
  <1>6. ASSUME NEW s \in Scopes, Files!Open(s)
        PROVE  Scopeless'
    BY <1>6 DEF Files!Open, Files!Act, Files!Scoped, Scopeless, Unscoped
  <1>7. ASSUME NEW s \in Scopes, Files!Return(s)
        PROVE  Scopeless'
    BY <1>7, ReturnFields DEF Files!Return, Files!Act, Scopeless, Unscoped
  <1>8. ASSUME NEW e \in Mine, Files!Add(e)
        PROVE  Scopeless'
    <2>1. user'.chose = user.chose
      BY <1>0, <1>8 DEF Files!Add, Users
    <2>. QED
      BY <1>8, <2>1, AddFields DEF Files!Add, Files!Act, Scopeless, Unscoped
  <1>. QED
    BY <1>1, <1>2, <1>3, <1>4, <1>5, <1>6, <1>7, <1>8 DEF Files!Next

\* The selections that a switch makes are told from the agent's own.
LEMMA OursAre ==
  /\ \A q \in Providers, n \in Files!OurNames : kind \notin Keeping => Files!Ref(n, q.model) \in Files!OurSelections
  /\ \A q \in Providers : kind = "workbuddy" => Files!Local(q.model) \in Files!OurSelections
  /\ \A q \in Providers : kind = "codebuddy" => Files!CodeBuddyRef(q.name, q.model) \in Files!OurSelections
  /\ AtSwitch \in Files!OurNames /\ Bare \in Files!OurNames /\ \A q \in Providers : q.name \in Files!OurNames
  <1>1. AtSwitch \in Files!OurNames /\ Bare \in Files!OurNames /\ \A q \in Providers : q.name \in Files!OurNames
    BY DEF Files!OurNames
  <1>2. ASSUME NEW q \in Providers, NEW n \in Files!OurNames
        PROVE  Files!OurRef(n, q) \in Files!OurSelections
    BY DEF Files!OurSelections
  <1>3. \A n, m : Files!Only([name |-> n, models |-> {m}]) = m
    BY DEF Files!Only
  <1>4. ASSUME NEW q \in Providers, NEW n \in Files!OurNames, kind \notin Keeping
        PROVE  Files!Ref(n, q.model) \in Files!OurSelections
    BY <1>2, <1>3, <1>4 DEF Files!RefOf, Keeping, Files!OurRef
  <1>5. ASSUME NEW q \in Providers, kind = "workbuddy"
        PROVE  Files!Local(q.model) \in Files!OurSelections
    BY <1>1, <1>2, <1>3, <1>5 DEF Files!RefOf, Files!OurRef
  <1>6. ASSUME NEW q \in Providers, kind = "codebuddy"
        PROVE  Files!CodeBuddyRef(q.name, q.model) \in Files!OurSelections
    BY <1>1, <1>2, <1>3, <1>6 DEF Files!RefOf, Files!OurRef
  <1>. QED
    BY <1>1, <1>4, <1>5, <1>6

LEMMA OursOnly ==
  ASSUME NEW s \in Files!OurSelections
  PROVE  Files!Selects(s) /\ s.name # Official /\ \E q \in Providers : s.model = q.model
  <1>1. PICK q \in Providers, n \in Files!OurNames : s = Files!OurRef(n, q)
    BY DEF Files!OurSelections
  <1> DEFINE e == [name |-> n, models |-> {q.model}]
  <1>2. Files!Only(e) = q.model /\ e.name = n
    BY DEF Files!Only
  <1>3. n \in Files!Names /\ q.model \in Files!Models
    BY ProviderTyped, NamesTyped DEF Files!OurNames
  <1>4. n # Official /\ n # NoName
    BY Apart, AgentsAssumption DEF Files!Assumptions, Files!OurNames
  <1>5. Files!Selects(Files!RefOf(e))
    <2> HIDE DEF e
    <2>. QED
      BY <1>2, <1>3, RefOfTyped
  <1>6. Files!RefOf(e).name # Official /\ Files!RefOf(e).model = q.model
    BY <1>2, <1>3, <1>4, Apart DEF Files!RefOf, Files!Local, Files!CodeBuddyRef, Files!Ref
  <1>. QED
    BY <1>1, <1>5, <1>6 DEF Files!OurRef

LEMMA OursNext ==
  kind' = kind => Files!OurSelections' = Files!OurSelections
  BY DEF Files!OurSelections, Files!OurRef, Files!RefOf

LEMMA LeftInit ==
  ASSUME Files!Init
  PROVE  Left
  <1>1. PICK mine \in SUBSET Mine, pick \in {Unset, Files!Ref(Official, Usual)}, cut \in BOOLEAN :
          /\ doc = [entries |-> mine, pick |-> pick, scopes |-> [s \in Scopes |-> Absent],
                    now |-> None, global |-> Unset,
                    offered |-> IF cut THEN {Files!Only(e) : e \in mine} ELSE None]
          /\ user = [own |-> mine, chose |-> [x \in Files!Slots |-> IF x = "pick" THEN pick ELSE Absent],
                     taken |-> Files!Nothing, adrift |-> {}]
    BY InitFields
  <1>2. \A s \in Scopes : Files!In(doc, s) = Absent /\ user.chose[s] = Absent
    BY <1>1, Slotted, Apart
  <1>3. user.chose["pick"] = doc.pick
    BY <1>1, Slotted
  <1>4. kind = "zcode" => doc.pick = user.chose["pick"]
    BY <1>3
  <1>. QED
    BY <1>2, <1>3 DEF Left

\* A takeover records as chosen what is not AT-Switch's.
LEMMA ChosenIs ==
  ASSUME Typed, NEW x \in Files!Slots
  PROVE  /\ binding # None => Files!Chosen[x] = user.chose[x]
         /\ binding = None /\ Files!In(doc, x) \in Files!OurSelections => Files!Chosen[x] = user.chose[x]
         /\ binding = None /\ Files!In(doc, x) \notin Files!OurSelections => Files!Chosen[x] = Files!In(doc, x)
  BY DEF Files!Chosen

LEMMA LeftSwitch ==
  ASSUME Typed, Left, NEW p \in Providers, Files!Switch(p)
  PROVE  Left'
  <1> DEFINE w == Files!Written(doc, p)
  <1>0. /\ Sound(doc) /\ user'.chose = Files!Chosen /\ kind' = kind /\ doc' = w
    BY DEF Typed, Files!Switch, Users
  <1>1. \A s \in Scopes : s \in Files!Slots /\ \A d : Files!In(d, s) = d.scopes[s]
    BY Slotted
  <1>2. Files!OurSelections' = Files!OurSelections
    BY <1>0, OursNext
  <1>3. ASSUME NEW s \in Scopes, kind \in {"openclaw", "autoclaw", "zcode"}
        PROVE  w.scopes[s] = doc.scopes[s] \/ w.scopes[s] \in Files!OurSelections
    <2>1. kind = "openclaw" => w.scopes[s] \in {doc.scopes[s], Files!Ref(p.name, p.model)}
      BY <1>0, OpenClawFields DEF Files!Written
    <2>2. kind = "autoclaw" => w.scopes[s] \in {doc.scopes[s], Files!Ref(Bare, p.model)}
      <3>1. kind = "autoclaw" => w = Files!AutoClawWritten(doc, p)
        BY DEF Files!Written
      <3>2. Files!AutoClawWritten(doc, p).scopes[s] \in {doc.scopes[s], Files!Ref(Bare, p.model)}
        BY <1>0, AutoClawFields
      <3>. QED
        BY <3>1, <3>2
    <2>3. kind = "zcode" => w.scopes[s] \in {doc.scopes[s], Files!Ref(AtSwitch, p.model)}
      BY <1>0, ZCodeFields DEF Files!Written
    <2>4. Files!Ref(p.name, p.model) \in Files!OurSelections /\ Files!Ref(Bare, p.model) \in Files!OurSelections /\ Files!Ref(AtSwitch, p.model) \in Files!OurSelections
      BY <1>3, OursAre DEF Keeping
    <2>. QED
      BY <1>3, <2>1, <2>2, <2>3, <2>4
  <1>4. ASSUME NEW s \in Scopes, kind \in {"openclaw", "autoclaw", "zcode"}
        PROVE  Files!In(doc', s) \in Files!OurSelections \cup {user'.chose[s]}
    <2>1. Files!In(doc, s) \in Files!OurSelections \cup {user.chose[s]}
      BY <1>4 DEF Left
    <2>2. Files!In(doc', s) = Files!In(doc, s) \/ Files!In(doc', s) \in Files!OurSelections
      BY <1>0, <1>1, <1>3, <1>4
    <2>3. Files!In(doc, s) \notin Files!OurSelections => Files!Chosen[s] = Files!In(doc, s)
      BY <1>1, <2>1, ChosenIs
    <2>. QED
      BY <1>0, <2>1, <2>2, <2>3
  <1>5. kind \in {"zcode", "dumate"} => Files!Selects(doc'.pick) /\ doc'.pick.name = AtSwitch
    <2>1. kind = "zcode" => w.pick = Files!Ref(AtSwitch, p.model)
      BY <1>0, ZCodeFields DEF Files!Written
    <2>2. kind = "dumate" => w.pick = Files!Ref(AtSwitch, p.model)
      BY <1>0, DuMateFields DEF Files!Written
    <2>3. AtSwitch \in Files!Names /\ p.model \in Files!Models
      BY ProviderTyped, NamesTyped
    <2>4. Files!Selects(Files!Ref(AtSwitch, p.model)) /\ Files!Ref(AtSwitch, p.model).name = AtSwitch
      BY <2>3, RefTyped
    <2>. QED
      BY <1>0, <2>1, <2>2, <2>4
  <1>. QED
    BY <1>0, <1>2, <1>4, <1>5 DEF Left, Files!Selects

LEMMA LeftRestore ==
  ASSUME Typed, Told, Left, Files!Restore
  PROVE  /\ Left'
         /\ kind \in {"zcode", "dumate"} => ~(Files!Selects(doc'.pick) /\ doc'.pick.name = AtSwitch)
  <1> DEFINE w == Files!NativeOf(doc, Files!Baseline, memory)
  <1>0. /\ Sound(doc) /\ Sound(Files!Baseline) /\ user'.chose = user.chose /\ kind' = kind /\ doc' = w /\ base' = Files!Baseline
        /\ base' # None /\ (base # None => base' = base) /\ Untouched(Files!Baseline)
    BY BaselineSound, BaselineUntouched DEF Typed, Files!Restore, Users, Files!Baseline
  <1>1. Files!OurSelections' = Files!OurSelections
    BY <1>0, OursNext
  <1>2. ASSUME NEW s \in Scopes, kind \in {"openclaw", "autoclaw", "zcode"}
        PROVE  Files!In(doc', s) \in Files!OurSelections \cup {user'.chose[s]}
    <2>1. kind = "openclaw" => w.scopes = doc.scopes
      BY <1>0, OpenClawNativeFields DEF Files!NativeOf
    <2>2. kind = "autoclaw" => w.scopes = doc.scopes
      BY <1>0, AutoClawNativeFields DEF Files!NativeOf
    <2>3. kind = "zcode" => w.scopes = doc.scopes
      BY <1>0, ZCodeNativeFields DEF Files!NativeOf
    <2>4. Files!In(doc', s) = Files!In(doc, s)
      BY <1>0, <1>2, <2>1, <2>2, <2>3, Slotted
    <2>. QED
      BY <1>0, <1>2, <2>4 DEF Left
  <1>3. ASSUME kind = "zcode"
        PROVE  /\ doc'.pick \in {Unset, user'.chose["pick"]} \/ (Files!Selects(doc'.pick) /\ doc'.pick.name = AtSwitch)
               /\ ~(Files!Selects(doc'.pick) /\ doc'.pick.name = AtSwitch)
    <2>1. w.pick = IF Files!Selects(doc.pick) /\ doc.pick.name = AtSwitch THEN Unset ELSE doc.pick
      BY <1>0, <1>3, ZCodeNativeFields DEF Files!NativeOf
    <2>. QED
      BY <1>0, <1>3, <2>1 DEF Left, Files!Selects
  <1>4. ASSUME kind = "dumate"
        PROVE  /\ doc'.pick = user'.chose["pick"] \/ doc'.pick = base'.pick
               /\ ~(Files!Selects(doc'.pick) /\ doc'.pick.name = AtSwitch)
    <2>1. w.pick = IF Files!Selects(doc.pick) /\ doc.pick.name = AtSwitch
                   THEN IF Files!Selects(Files!Baseline.pick) /\ Files!Baseline.pick.name = AtSwitch THEN Unset ELSE Files!Baseline.pick
                   ELSE doc.pick
      BY <1>0, <1>4, DuMateNativeFields DEF Files!NativeOf
    <2>2. ~(Files!Selects(Files!Baseline.pick) /\ Files!Baseline.pick.name = AtSwitch)
      BY <1>0, <1>4 DEF Untouched
    <2>. QED
      BY <1>0, <1>4, <2>1, <2>2 DEF Left
  <1>. QED
    BY <1>0, <1>1, <1>2, <1>3, <1>4 DEF Left, Files!Selects

LEMMA LeftStep ==
  ASSUME Typed, Told, Left, [Files!Next]_(Files!vars)
  PROVE  Left'
  <1>0. /\ Sound(doc) /\ user \in Users
    BY DEF Typed
  <1>00. "pick" \in Files!Slots /\ \A s \in Scopes : s \in Files!Slots /\ s # "pick"
    BY Slotted, Apart
  <1>a. ASSUME kind' = kind, doc'.scopes = doc.scopes, doc'.pick = doc.pick, user'.chose = user.chose, base' = base
        PROVE  Left'
    <2>1. Files!OurSelections' = Files!OurSelections /\ \A s \in Scopes : Files!In(doc', s) = Files!In(doc, s)
      BY <1>a, OursNext, Slotted
    <2>. QED
      BY <1>a, <2>1 DEF Left, Files!Selects
  <1>1. CASE UNCHANGED Files!vars
    BY <1>1, <1>a DEF Files!vars
  <1>2. ASSUME NEW p \in Providers, Files!Switch(p)
        PROVE  Left'
    BY <1>2, LeftSwitch
  <1>3. ASSUME NEW p \in Providers, Files!SwitchFails(p)
        PROVE  Left'
    BY <1>3 DEF Files!SwitchFails, Left
  <1>4. ASSUME Files!Restore
        PROVE  Left'
    BY <1>4, LeftRestore
  <1>5. ASSUME NEW x \in Files!Slots, Files!Choose(x)
        PROVE  Left'
    <2>1. PICK s \in Files!Eligible(x, user.own) :
            /\ \A y \in Files!Slots : Files!In(doc', y) = IF y = x THEN s ELSE Files!In(doc, y)
            /\ user' = [user EXCEPT !.chose[x] = s, !.adrift = @ \ {x}]
      BY <1>5, ChooseFields
    <2>2. \A y \in Files!Slots : user'.chose[y] = IF y = x THEN s ELSE user.chose[y]
      BY <1>0, <2>1 DEF Users, Memories
    <2>3. kind' = kind /\ base' = base /\ Files!OurSelections' = Files!OurSelections
      BY <1>5, OursNext DEF Files!Choose, Files!Act
    <2>4. doc'.pick = (IF x = "pick" THEN s ELSE doc.pick) /\ user'.chose["pick"] = (IF x = "pick" THEN s ELSE user.chose["pick"])
      BY <1>00, <2>1, <2>2, Slotted
    <2>5. \A y \in Scopes : (Files!In(doc', y) = Files!In(doc, y) /\ user'.chose[y] = user.chose[y]) \/ Files!In(doc', y) = user'.chose[y]
      BY <1>00, <2>1, <2>2
    <2>. QED
      BY <2>3, <2>4, <2>5 DEF Left, Files!Selects
  <1>6. ASSUME NEW s \in Scopes, Files!Open(s)
        PROVE  Left'
    <2> DEFINE to == IF kind = "autoclaw" /\ Files!Selects(doc.pick) /\ doc.pick.name # Official
                     THEN Files!Ref(Bare, doc.pick.model) ELSE doc.pick
    <2>1. /\ doc'.pick = doc.pick /\ doc'.scopes[s] = to
          /\ \A y \in Files!Slots : Files!In(doc', y) = IF y = s THEN to ELSE Files!In(doc, y)
      BY <1>6, OpenFields
    <2> HIDE DEF to
    <2>2. kind' = kind /\ base' = base /\ Files!OurSelections' = Files!OurSelections
      BY <1>6, OursNext DEF Files!Open, Files!Act
    <2>3. user'.chose = [user.chose EXCEPT ![s] = IF doc.pick \in Files!OurSelections THEN Unset ELSE doc'.scopes[s]]
      BY <1>0, <1>6 DEF Files!Open, Users
    <2>4. \A y \in Files!Slots : user'.chose[y] = IF y = s THEN IF doc.pick \in Files!OurSelections THEN Unset ELSE to ELSE user.chose[y]
      BY <1>0, <2>1, <2>3 DEF Users, Memories
    <2>5. doc.pick \in Files!OurSelections => to \in Files!OurSelections
      BY OursOnly, OursAre DEF to, Keeping
    <2>6. user'.chose["pick"] = user.chose["pick"]
      BY <1>00, <2>4
    <2>7. \A y \in Scopes : (Files!In(doc', y) = Files!In(doc, y) /\ user'.chose[y] = user.chose[y]) \/ Files!In(doc', y) \in Files!OurSelections \cup {user'.chose[y]}
      BY <1>00, <2>1, <2>4, <2>5
    <2>. QED
      BY <2>1, <2>2, <2>6, <2>7 DEF Left, Files!Selects
  <1>7. ASSUME NEW s \in Scopes, Files!Return(s)
        PROVE  Left'
    BY <1>a, <1>7, ReturnFields DEF Files!Return, Files!Act
  <1>8. ASSUME NEW e \in Mine, Files!Add(e)
        PROVE  Left'
    <2>1. user'.chose = user.chose
      BY <1>0, <1>8 DEF Files!Add, Users
    <2>. QED
      BY <1>a, <1>8, <2>1, AddFields DEF Files!Add, Files!Act
  <1>. QED
    BY <1>1, <1>2, <1>3, <1>4, <1>5, <1>6, <1>7, <1>8 DEF Files!Next

-----------------------------------------------------------------------------
(* WorkBuddy and CodeBuddy: what is remembered, and what it is good for *)

LEMMA RefOfNext ==
  kind' = kind => /\ \A e : Files!RefOf(e)' = Files!RefOf(e)
                  /\ \A d : Marked(d)' = Marked(d)
  BY DEF Files!RefOf, Marked

LEMMA MarkedOurs ==
  ASSUME Typed, Told, kind \in Keeping
  PROVE  /\ Marked(doc) \subseteq Files!OurSelections
         /\ Marked(doc) # {} => binding # None
         /\ kind = "workbuddy" => {Files!Local(model) : model \in Files!MarkedModels(doc)} = Marked(doc)
         /\ kind = "codebuddy" => Files!ManagedSelections(doc) = Marked(doc)
  <1>1. ASSUME NEW e \in doc.entries, e.mark
        PROVE  Files!RefOf(e) \in Files!OurSelections
    <2>1. PICK p \in Providers : e.name = p.name /\ e.models = {p.model}
      BY <1>1 DEF Told
    <2>2. Files!Only(e) = p.model
      BY <2>1, OnlySingle
    <2>3. kind = "workbuddy" => Files!RefOf(e) = Files!Local(p.model)
      BY <2>2 DEF Files!RefOf
    <2>4. kind = "codebuddy" => Files!RefOf(e) = Files!CodeBuddyRef(p.name, p.model)
      BY <2>1, <2>2 DEF Files!RefOf
    <2>. QED
      BY <2>3, <2>4, OursAre DEF Keeping
  <1>2. Marked(doc) \subseteq Files!OurSelections
    BY <1>1 DEF Marked
  <1>3. Marked(doc) # {} => binding # None
    BY DEF Marked, Told, Keeping, Marking
  <1>4. kind = "workbuddy" => {Files!Local(model) : model \in Files!MarkedModels(doc)} = Marked(doc)
    BY DEF Files!MarkedModels, Marked, Files!RefOf
  <1>5. kind = "codebuddy" => Files!ManagedSelections(doc) = Marked(doc)
    BY DEF Files!ManagedSelections, Marked, Files!RefOf
  <1>. QED
    BY <1>2, <1>3, <1>4, <1>5

\* The user chooses a model of the agent's or one of the user's.
LEMMA EligibleKept ==
  ASSUME NEW x, NEW s \in Files!Eligible(x, user.own), kind \in Keeping
  PROVE  s \in Files!OurSelections => s \in OwnRefs
  <1>1. CASE s = Files!Ref(Official, Usual)
    <2>1. s.name = Official
      BY <1>1 DEF Files!Ref
    <2>. QED
      BY <2>1, OursOnly
  <1>2. CASE \E e \in user.own : s = Files!RefOf(e)
    BY <1>2 DEF OwnRefs
  <1>. QED
    BY <1>1, <1>2 DEF Files!Eligible, Keeping

\* What a switch of theirs moves, and where to.
LEMMA KeepingWritten ==
  ASSUME Typed, kind \in Keeping, NEW p \in Providers
  PROVE  LET w == Files!Written(doc, p)
             e == Files!Made(p.name, {p.model}, p, TRUE) IN
         /\ e \in w.entries /\ e.mark /\ Files!RefOf(e) \in Files!OurSelections
         /\ \A x \in Files!Slots : Files!In(w, x) = IF x \in Files!Repointed THEN Files!RefOf(e) ELSE Files!In(doc, x)
  <1> DEFINE w == Files!Written(doc, p)
             e == Files!Made(p.name, {p.model}, p, TRUE)
  <1>0. Sound(doc)
    BY DEF Typed
  <1>1. e.mark /\ e.name = p.name /\ Files!Only(e) = p.model
    BY DEF Files!Made, Files!Only
  <1>2. CASE kind = "workbuddy"
    <2>1. Files!RefOf(e) = Files!Local(p.model)
      BY <1>1, <1>2 DEF Files!RefOf
    <2>2. w = Files!WorkBuddyWritten(doc, p)
      BY <1>2 DEF Files!Written
    <2>a. Files!WorkBuddyWritten(doc, p).entries = Files!Unmarked(doc.entries) \cup {e}
      BY <1>0, WorkBuddyFields
    <2>b. Files!WorkBuddyWritten(doc, p).pick = Files!Local(p.model)
      BY <1>0, WorkBuddyFields
    <2>c. \A s \in Scopes : Files!WorkBuddyWritten(doc, p).scopes[s] = IF s = doc.now THEN Files!Local(p.model) ELSE doc.scopes[s]
      BY <1>0, WorkBuddyFields
    <2> HIDE DEF w, e
    <2>3. /\ e \in w.entries /\ w.pick = Files!Local(p.model)
          /\ \A s \in Scopes : w.scopes[s] = IF s = doc.now THEN Files!Local(p.model) ELSE doc.scopes[s]
      BY <2>2, <2>a, <2>b, <2>c
    <2>4. \A x \in Files!Slots : Files!In(w, x) = IF x \in Files!Repointed THEN Files!RefOf(e) ELSE Files!In(doc, x)
      BY <2>1, <2>3, Apart DEF Files!In, Files!Slots, Files!Repointed
    <2>. QED
      BY <1>1, <1>2, <2>1, <2>3, <2>4, OursAre DEF w, e
  <1>3. CASE kind = "codebuddy"
    <2>1. Files!RefOf(e) = Files!CodeBuddyRef(p.name, p.model)
      BY <1>1, <1>3 DEF Files!RefOf
    <2>2. w = Files!CodeBuddyWritten(doc, p)
      BY <1>3 DEF Files!Written
    <2>a. Files!CodeBuddyWritten(doc, p).entries = Files!NamedAll(Files!Unmarked(doc.entries)) \cup {e}
      BY <1>0, CodeBuddyFields
    <2>b. Files!CodeBuddyWritten(doc, p).pick = Files!CodeBuddyRef(p.name, p.model)
      BY <1>0, CodeBuddyFields
    <2>c. \A s \in Scopes : Files!CodeBuddyWritten(doc, p).scopes[s] = IF s = doc.now THEN Files!CodeBuddyRef(p.name, p.model) ELSE doc.scopes[s]
      BY <1>0, CodeBuddyFields
    <2> HIDE DEF w, e
    <2>3. /\ e \in w.entries /\ w.pick = Files!CodeBuddyRef(p.name, p.model)
          /\ \A s \in Scopes : w.scopes[s] = IF s = doc.now THEN Files!CodeBuddyRef(p.name, p.model) ELSE doc.scopes[s]
      BY <2>2, <2>a, <2>b, <2>c
    <2>4. \A x \in Files!Slots : Files!In(w, x) = IF x \in Files!Repointed THEN Files!RefOf(e) ELSE Files!In(doc, x)
      BY <2>1, <2>3, Apart DEF Files!In, Files!Slots, Files!Repointed
    <2>. QED
      BY <1>1, <1>3, <2>1, <2>3, <2>4, OursAre DEF w, e
  <1>. QED
    BY <1>2, <1>3 DEF Keeping

LEMMA FrontShown ==
  ASSUME Typed, NEW x \in Files!Repointed
  PROVE  x \in Files!Slots /\ Files!In(doc, x) # Absent
  <1>1. Sound(doc)
    BY DEF Typed
  <1>2. "pick" \in Files!Slots /\ Files!In(doc, "pick") # Absent
    BY <1>1, Slotted, SlotTyped, Apart
  <1>3. doc.now # None => doc.now \in Files!Slots /\ Files!In(doc, doc.now) # Absent
    BY <1>1, Slotted, Apart DEF Sound, Files!Documents
  <1>. QED
    BY <1>2, <1>3 DEF Files!Repointed

LEMMA RemembersSwitch ==
  ASSUME Typed, Told, Remembers, kind \in Keeping, NEW p \in Providers, Files!Switch(p)
  PROVE  Remembers'
  <1> DEFINE e == Files!Made(p.name, {p.model}, p, TRUE)
             before == IF binding = None THEN Files!Nothing ELSE user.taken
  <1>1. /\ kind' = kind /\ binding' = p /\ p # None /\ memory' = Files!Remembered /\ user'.own = user.own /\ user'.taken = Files!Taken
        /\ doc' = Files!Written(doc, p)
    BY AgentsAssumption DEF Files!Switch, Typed, Users, Files!Assumptions
  <1>2. \A x \in Files!Slots : Files!Remembered[x] = IF x \in Files!Repointed /\ memory[x] = Absent THEN Files!In(doc, x) ELSE memory[x]
    BY DEF Files!Remembered, Keeping
  <1>3. \A x \in Files!Slots : Files!Taken[x] = IF before[x] = Absent /\ (x = "pick" \/ Files!In(doc', x) # Files!In(doc, x)) THEN Files!In(doc, x) ELSE before[x]
    BY DEF Files!Taken
  <1>4. /\ e \in doc'.entries /\ e.mark /\ Files!RefOf(e) \in Files!OurSelections
        /\ \A x \in Files!Slots : Files!In(doc', x) = IF x \in Files!Repointed THEN Files!RefOf(e) ELSE Files!In(doc, x)
    BY <1>1, KeepingWritten
  <1>5. \A x \in Files!Slots : Files!Nothing[x] = Absent
    BY DEF Files!Nothing
  <1>6. \A x \in Files!Slots : memory[x] = Absent => before[x] = Absent
    BY <1>5 DEF Remembers
  <1>7. \A x \in Files!Slots : memory[x] # Absent => binding # None
    BY <1>5 DEF Remembers
  <1>8. "pick" \in Files!Repointed /\ "pick" \in Files!Slots
    BY Slotted DEF Files!Repointed
  <1> HIDE DEF e, before
  <1>9. Files!Remembered["pick"] # Absent
    BY <1>2, <1>8, FrontShown
  <1>10. ASSUME NEW x \in Files!Slots
         PROVE  /\ Files!Remembered[x] = Absent => Files!Taken[x] = Absent
                /\ Files!Remembered[x] # Absent /\ (x = "pick" \/ Files!Remembered[x] \notin Files!OurSelections) => Files!Taken[x] = Files!Remembered[x]
    <2>1. CASE memory[x] = Absent /\ x \notin Files!Repointed
      <3>1. Files!Remembered[x] = Absent /\ Files!In(doc', x) = Files!In(doc, x) /\ x # "pick"
        BY <1>2, <1>4, <1>8, <2>1
      <3>. QED
        BY <1>3, <1>6, <2>1, <3>1
    <2>2. CASE memory[x] = Absent /\ x \in Files!Repointed
      <3>1. Files!Remembered[x] = Files!In(doc, x) /\ Files!In(doc, x) # Absent /\ before[x] = Absent /\ Files!In(doc', x) \in Files!OurSelections
        BY <1>2, <1>4, <1>6, <2>2, FrontShown
      <3>. QED
        BY <1>3, <3>1
    <2>3. CASE memory[x] # Absent
      <3>1. Files!Remembered[x] = memory[x] /\ before = user.taken
        BY <1>2, <1>7, <2>3 DEF before
      <3>2. x = "pick" \/ memory[x] \notin Files!OurSelections => user.taken[x] = memory[x]
        BY <1>7, <2>3 DEF Remembers
      <3>. QED
        BY <1>3, <2>3, <3>1, <3>2
    <2>. QED
      BY <2>1, <2>2, <2>3
  <1>11. Files!Remembered["pick"] \in Files!OurSelections => Files!Remembered["pick"] \in OwnRefs
    <2>1. CASE memory["pick"] # Absent
      BY <1>2, <1>8, <2>1 DEF Remembers
    <2>2. CASE memory["pick"] = Absent
      <3>1. binding = None /\ Files!Remembered["pick"] = doc.pick
        BY <1>2, <1>8, <2>2, Slotted DEF Remembers
      <3>2. Marked(doc) = {}
        BY <3>1, MarkedOurs
      <3>. QED
        BY <3>1, <3>2 DEF Remembers
    <2>. QED
      BY <2>1, <2>2
  <1>12. doc'.pick = Files!RefOf(e)
    BY <1>4, <1>8, Slotted
  <1>13. Files!RefOf(e) \in Marked(doc')
    BY <1>4 DEF Marked
  <1>14. Files!OurSelections' = Files!OurSelections /\ OwnRefs' = OwnRefs /\ Marked(doc)' = Marked(doc')
    <2>1. kind' = kind => \A e_1 : Files!RefOf(e_1)' = Files!RefOf(e_1)
      BY RefOfNext
    <2>. QED
      BY <1>1, OursNext DEF OwnRefs, Marked, Files!RefOf
  <1>. QED
    BY <1>1, <1>9, <1>10, <1>11, <1>12, <1>13, <1>14 DEF Remembers

LEMMA KeepingNative ==
  ASSUME Typed, Told, kind \in Keeping, Files!Restore, NEW x \in Files!Slots
  PROVE  /\ Files!In(doc, x) \notin Marked(doc) => Files!In(doc', x) = Files!In(doc, x)
         /\ Files!In(doc, x) \in Marked(doc) /\ memory[x] # Absent => Files!In(doc', x) = memory[x]
         /\ Files!In(doc, x) \in Marked(doc) /\ memory[x] = Absent => Files!In(doc', x) \in {Unset, Automatic}
  <1>0. Sound(doc) /\ memory \in Memories
    BY DEF Typed
  <1>1. CASE kind = "workbuddy"
    <2>1. doc' = Files!WorkBuddyNative(doc, memory)
      BY <1>1 DEF Files!Restore, Files!NativeOf
    <2>2. Files!In(doc', x) = Files!WorkBuddyRestored(doc, memory, x)
      BY <1>0, <2>1, WorkBuddyNativeFields
    <2>3. {Files!Local(model) : model \in Files!MarkedModels(doc)} = Marked(doc)
      BY <1>1, MarkedOurs
    <2>. QED
      BY <2>2, <2>3 DEF Files!WorkBuddyRestored, Files!WorkBuddyOriginal
  <1>2. CASE kind = "codebuddy"
    <2>1. doc' = Files!CodeBuddyNative(doc, memory)
      BY <1>2 DEF Files!Restore, Files!NativeOf
    <2>2. Files!In(doc', x) = Files!CodeBuddyRestored(doc, memory, x)
      BY <1>0, <2>1, CodeBuddyNativeFields
    <2>3. Files!ManagedSelections(doc) = Marked(doc)
      BY <1>2, MarkedOurs
    <2>. QED
      BY <2>2, <2>3 DEF Files!CodeBuddyRestored
  <1>. QED
    BY <1>1, <1>2 DEF Keeping

\* No selection of AT-Switch's is one of the fixed ones.
LEMMA OursSelect ==
  {Unset, Automatic, Absent} \cap Files!OurSelections = {}
  BY OursOnly DEF Files!Selects

LEMMA RemembersRestore ==
  ASSUME Typed, Told, Remembers, kind \in Keeping, Files!Restore
  PROVE  Remembers'
  <1>1. kind' = kind /\ binding' = None /\ memory' = Files!Nothing /\ user'.own = user.own
    BY DEF Files!Restore, Typed, Users
  <1>2. "pick" \in Files!Slots /\ Files!In(doc, "pick") = doc.pick /\ Files!In(doc', "pick") = doc'.pick
    BY Slotted
  <1>3. Files!Nothing["pick"] \notin Files!OurSelections
    BY <1>2, OursSelect DEF Files!Nothing
  <1>4. doc'.pick \in Files!OurSelections => doc'.pick \in OwnRefs
    <2>1. CASE doc.pick \notin Marked(doc)
      BY <1>2, <2>1, KeepingNative DEF Remembers
    <2>2. CASE doc.pick \in Marked(doc) /\ memory["pick"] # Absent
      BY <1>2, <2>2, KeepingNative DEF Remembers
    <2>3. CASE doc.pick \in Marked(doc) /\ memory["pick"] = Absent
      BY <1>2, <2>3, KeepingNative, OursSelect
    <2>. QED
      BY <2>1, <2>2, <2>3
  <1>5. Files!OurSelections' = Files!OurSelections /\ OwnRefs' = OwnRefs
    BY <1>1, OursNext DEF OwnRefs, Files!RefOf
  <1>. QED
    BY <1>1, <1>3, <1>4, <1>5 DEF Remembers

LEMMA RemembersInit ==
  ASSUME Files!Init
  PROVE  Remembers
  <1>1. PICK mine \in SUBSET Mine, pick \in {Unset, Files!Ref(Official, Usual)}, cut \in BOOLEAN :
          /\ doc = [entries |-> mine, pick |-> pick, scopes |-> [s \in Scopes |-> Absent],
                    now |-> None, global |-> Unset,
                    offered |-> IF cut THEN {Files!Only(e) : e \in mine} ELSE None]
          /\ user = [own |-> mine, chose |-> [x \in Files!Slots |-> IF x = "pick" THEN pick ELSE Absent],
                     taken |-> Files!Nothing, adrift |-> {}]
    BY InitFields
  <1>2. doc.pick = Unset \/ doc.pick = Files!Ref(Official, Usual)
    BY <1>1
  <1>3. Files!Ref(Official, Usual).name = Official
    BY DEF Files!Ref
  <1>4. doc.pick \notin Files!OurSelections
    BY <1>2, <1>3, OursOnly DEF Files!Selects
  <1>5. Files!Nothing["pick"] \notin Files!OurSelections
    BY Slotted, OursSelect DEF Files!Nothing
  <1>. QED
    BY <1>4, <1>5, InitFields DEF Remembers

LEMMA RemembersStep ==
  ASSUME Typed, Told, Remembers, [Files!Next]_(Files!vars)
  PROVE  Remembers'
  <1>0. /\ Sound(doc) /\ user \in Users
    BY DEF Typed
  <1>a. ASSUME kind' = kind, memory' = memory, binding' = binding, user'.taken = user.taken, user.own \subseteq user'.own,
               doc.entries \subseteq doc'.entries,
               kind \in Keeping => doc'.pick = doc.pick \/ (doc'.pick \in Files!OurSelections => doc'.pick \in OwnRefs)
        PROVE  Remembers'
    <2>1. Files!OurSelections' = Files!OurSelections /\ OwnRefs \subseteq OwnRefs' /\ Marked(doc) \subseteq Marked(doc)'
      BY <1>a, OursNext DEF OwnRefs, Marked, Files!RefOf
    <2>. QED
      BY <1>a, <2>1 DEF Remembers
  <1>1. CASE UNCHANGED Files!vars
    BY <1>1, <1>a DEF Files!vars
  <1>2. ASSUME NEW p \in Providers, Files!Switch(p)
        PROVE  Remembers'
    <2>1. kind' = kind
      BY <1>2 DEF Files!Switch
    <2>. QED
      BY <1>2, <2>1, RemembersSwitch DEF Remembers
  <1>3. ASSUME NEW p \in Providers, Files!SwitchFails(p)
        PROVE  Remembers'
    BY <1>0, <1>3, <1>a, CodeBuddyGlobalFields DEF Files!SwitchFails
  <1>4. ASSUME Files!Restore
        PROVE  Remembers'
    <2>1. kind' = kind
      BY <1>4 DEF Files!Restore
    <2>. QED
      BY <1>4, <2>1, RemembersRestore DEF Remembers
  <1>5. ASSUME NEW x \in Files!Slots, Files!Choose(x)
        PROVE  Remembers'
    <2>1. PICK s \in Files!Eligible(x, user.own) :
            /\ doc'.entries = doc.entries
            /\ \A y \in Files!Slots : Files!In(doc', y) = IF y = x THEN s ELSE Files!In(doc, y)
            /\ user' = [user EXCEPT !.chose[x] = s, !.adrift = @ \ {x}]
      BY <1>5, ChooseFields
    <2>2. user'.taken = user.taken /\ user'.own = user.own
      BY <1>0, <2>1 DEF Users
    <2>3. doc'.pick \in {doc.pick, s}
      BY <2>1, Slotted
    <2>4. kind \in Keeping => (s \in Files!OurSelections => s \in OwnRefs)
      BY EligibleKept
    <2>. QED
      BY <1>5, <1>a, <2>1, <2>2, <2>3, <2>4 DEF Files!Choose, Files!Act
  <1>6. ASSUME NEW s \in Scopes, Files!Open(s)
        PROVE  Remembers'
    <2>1. user'.taken = user.taken /\ user'.own = user.own
      BY <1>0, <1>6 DEF Files!Open, Users
    <2>. QED
      BY <1>6, <1>a, <2>1, OpenFields DEF Files!Open, Files!Act
  <1>7. ASSUME NEW s \in Scopes, Files!Return(s)
        PROVE  Remembers'
    BY <1>7, <1>a, ReturnFields DEF Files!Return, Files!Act
  <1>8. ASSUME NEW e \in Mine, Files!Add(e)
        PROVE  Remembers'
    <2>1. user'.taken = user.taken /\ user.own \subseteq user'.own
      BY <1>0, <1>8 DEF Files!Add, Users
    <2>. QED
      BY <1>8, <1>a, <2>1, AddFields DEF Files!Add, Files!Act
  <1>. QED
    BY <1>1, <1>2, <1>3, <1>4, <1>5, <1>6, <1>7, <1>8 DEF Files!Next

\* A restore of WorkBuddy or CodeBuddy returns what it can, and leaves adrift
\* only what is counted as such.
LEMMA KeepingReturned ==
  ASSUME Typed, Told, Remembers, Accounted, kind \in Keeping, Files!Restore, NEW x \in Files!Slots
  PROVE  /\ Files!Returned(x)' \/ x \in user'.adrift
         /\ Files!In(doc', x) \in Files!OurSelections => x \in user'.adrift \/ x = "pick"
  <1>0. /\ user'.chose = user.chose /\ user'.taken = user.taken /\ user'.adrift = user.adrift \cup Files!Adrift
        /\ kind' = kind
    BY DEF Files!Restore, Typed, Users
  <1>1. Files!Returned(x)' <=> \/ Files!In(doc', x) \in {user.chose[x], user.taken[x]}
                               \/ user.chose[x] = Unset /\ Files!In(doc', x) \in {Automatic, Unset}
    BY <1>0 DEF Files!Returned
  <1>2. x = "pick" \/ x \in Scopes
    BY DEF Files!Slots
  <1>3. "pick" \in Files!Slots /\ Files!In(doc, "pick") = doc.pick
    BY Slotted
  <1>4. OwnRefs = {Files!RefOf(e) : e \in user.own}
    BY DEF OwnRefs
  <1>5. CASE Files!In(doc, x) \notin Marked(doc)
    <2>1. Files!In(doc', x) = Files!In(doc, x)
      BY <1>5, KeepingNative
    <2>2. CASE Files!In(doc, x) \in Files!OurSelections
      <3>1. CASE Files!In(doc, x) = doc.pick
        <4>1. Files!In(doc, x) \in OwnRefs
          BY <1>5, <2>2, <3>1 DEF Remembers
        <4>2. x \in Files!Adrift
          BY <1>4, <2>2, <4>1 DEF Files!Adrift
        <4>. QED
          BY <1>0, <4>2
      <3>2. CASE Files!In(doc, x) # doc.pick
        <4>1. x \in Files!Adrift
          BY <1>2, <1>3, <2>2, <3>2 DEF Files!Adrift
        <4>. QED
          BY <1>0, <4>1
      <3>. QED
        BY <3>1, <3>2
    <2>3. CASE Files!In(doc, x) \notin Files!OurSelections
      <3>1. Files!Returned(x) \/ x \in user.adrift
        BY <2>3 DEF Accounted
      <3>. QED
        BY <1>0, <1>1, <2>1, <2>3, <3>1 DEF Files!Returned
    <2>. QED
      BY <2>2, <2>3
  <1>6. CASE Files!In(doc, x) \in Marked(doc) /\ memory[x] # Absent
    <2>1. Files!In(doc', x) = memory[x] /\ binding # None
      BY <1>6, KeepingNative, MarkedOurs
    <2>2. CASE x = "pick" \/ memory[x] \notin Files!OurSelections
      <3>1. user.taken[x] = memory[x]
        BY <1>6, <2>1, <2>2 DEF Remembers
      <3>. QED
        BY <1>1, <2>1, <2>2, <3>1
    <2>3. CASE x # "pick" /\ memory[x] \in Files!OurSelections
      <3>1. x \in Files!Adrift
        BY <1>2, <2>3 DEF Files!Adrift
      <3>. QED
        BY <1>0, <3>1
    <2>. QED
      BY <2>2, <2>3
  <1>7. CASE Files!In(doc, x) \in Marked(doc) /\ memory[x] = Absent
    <2>1. Files!In(doc', x) \in {Unset, Automatic} /\ binding # None
      BY <1>7, KeepingNative, MarkedOurs
    <2>2. x \in Scopes
      BY <1>2, <1>7, <2>1 DEF Remembers
    <2>3. Files!In(doc, x) \in Files!OurSelections
      BY <1>7, MarkedOurs
    <2>4. CASE Files!In(doc, x) \in OwnRefs
      <3>1. x \in Files!Adrift
        BY <1>4, <2>3, <2>4 DEF Files!Adrift
      <3>. QED
        BY <1>0, <3>1
    <2>5. CASE Files!In(doc, x) \notin OwnRefs
      <3>1. user.chose[x] = Unset \/ x \in user.adrift
        BY <1>7, <2>2, <2>3, <2>5 DEF Accounted
      <3>. QED
        BY <1>0, <1>1, <2>1, <3>1, OursSelect
    <2>. QED
      BY <2>4, <2>5
  <1>. QED
    BY <1>5, <1>6, <1>7

LEMMA AccountedInit ==
  ASSUME Files!Init
  PROVE  Accounted
  <1>1. PICK mine \in SUBSET Mine, pick \in {Unset, Files!Ref(Official, Usual)}, cut \in BOOLEAN :
          /\ doc = [entries |-> mine, pick |-> pick, scopes |-> [s \in Scopes |-> Absent],
                    now |-> None, global |-> Unset,
                    offered |-> IF cut THEN {Files!Only(e) : e \in mine} ELSE None]
          /\ user = [own |-> mine, chose |-> [x \in Files!Slots |-> IF x = "pick" THEN pick ELSE Absent],
                     taken |-> Files!Nothing, adrift |-> {}]
    BY InitFields
  <1>2. \A x \in Files!Slots : Files!In(doc, x) = user.chose[x]
    BY <1>1, Apart DEF Files!In, Files!Slots
  <1>3. \A s \in Scopes : Files!In(doc, s) = Absent
    BY <1>1, Slotted
  <1>. QED
    BY <1>2, <1>3, OursSelect DEF Accounted, Files!Returned

LEMMA AccountedSwitch ==
  ASSUME Typed, Told, Remembers, Accounted, kind \in Keeping, NEW p \in Providers, Files!Switch(p)
  PROVE  Accounted'
  <1> DEFINE before == IF binding = None THEN Files!Nothing ELSE user.taken
  <1>1. /\ kind' = kind /\ memory' = Files!Remembered /\ user'.own = user.own /\ user'.taken = Files!Taken /\ user'.chose = Files!Chosen
        /\ user'.adrift = user.adrift /\ doc' = Files!Written(doc, p)
    BY DEF Files!Switch, Typed, Users
  <1>2. Files!OurSelections' = Files!OurSelections /\ OwnRefs' = OwnRefs
    BY <1>1, OursNext DEF OwnRefs, Files!RefOf
  <1>3. \A x \in Files!Slots : Files!Remembered[x] = IF x \in Files!Repointed /\ memory[x] = Absent THEN Files!In(doc, x) ELSE memory[x]
    BY DEF Files!Remembered, Keeping
  <1>4. \A x \in Files!Slots : Files!Taken[x] = IF before[x] = Absent /\ (x = "pick" \/ Files!In(doc', x) # Files!In(doc, x)) THEN Files!In(doc, x) ELSE before[x]
    BY DEF Files!Taken
  <1>5. ASSUME NEW x \in Files!Slots
        PROVE  Files!In(doc', x) = IF x \in Files!Repointed THEN Files!In(doc', x) ELSE Files!In(doc, x)
    BY <1>1, KeepingWritten
  <1>6. ASSUME NEW x \in Files!Slots, x \in Files!Repointed
        PROVE  Files!In(doc', x) \in Files!OurSelections
    <2>1. LET e == Files!Made(p.name, {p.model}, p, TRUE) IN Files!RefOf(e) \in Files!OurSelections /\ Files!In(Files!Written(doc, p), x) = Files!RefOf(e)
      BY <1>6, KeepingWritten
    <2>. QED
      BY <1>1, <2>1
  <1>7. "pick" \in Files!Repointed
    BY DEF Files!Repointed
  <1>8. ASSUME NEW x \in Files!Slots, x \notin Files!Repointed
        PROVE  /\ Files!In(doc', x) \in Files!OurSelections \/ Files!Returned(x)' \/ x \in user'.adrift
               /\ Files!In(doc, x) \in Files!OurSelections => Files!Chosen[x] = user.chose[x]
    <2>1. Files!In(doc', x) = Files!In(doc, x) /\ x # "pick" /\ Files!Taken[x] = before[x]
      BY <1>4, <1>5, <1>7, <1>8
    <2>2. CASE Files!In(doc, x) \in Files!OurSelections
      BY <2>1, <2>2, ChosenIs
    <2>3. CASE Files!In(doc, x) \notin Files!OurSelections /\ binding = None
      <3>1. Files!Chosen[x] = Files!In(doc, x)
        BY <2>3, ChosenIs
      <3>. QED
        BY <1>1, <2>1, <2>3, <3>1 DEF Files!Returned
    <2>4. CASE Files!In(doc, x) \notin Files!OurSelections /\ binding # None
      <3>1. Files!Chosen[x] = user.chose[x] /\ before = user.taken
        BY <2>4, ChosenIs
      <3>2. Files!Returned(x) \/ x \in user.adrift
        BY <2>4 DEF Accounted
      <3>. QED
        BY <1>1, <2>1, <2>4, <3>1, <3>2 DEF Files!Returned
    <2>. QED
      BY <2>2, <2>3, <2>4
  <1>9. ASSUME NEW s \in Scopes, Files!In(doc', s) \in Files!OurSelections \ OwnRefs, Files!Remembered[s] = Absent
        PROVE  Files!Chosen[s] = Unset \/ s \in user'.adrift
    <2>1. s \in Files!Slots
      BY Slotted
    <2>2. s \notin Files!Repointed /\ memory[s] = Absent
      BY <1>3, <1>9, <2>1, FrontShown
    <2>3. Files!In(doc, s) \in Files!OurSelections \ OwnRefs
      BY <1>5, <1>9, <2>1, <2>2
    <2>4. user.chose[s] = Unset \/ s \in user.adrift
      BY <2>2, <2>3 DEF Accounted
    <2>. QED
      BY <1>1, <1>8, <2>1, <2>2, <2>3, <2>4
  <1>10. \A x \in Files!Slots : Files!In(doc', x) \in Files!OurSelections \/ Files!Returned(x)' \/ x \in user'.adrift
    BY <1>6, <1>8
  <1>. QED
    BY <1>1, <1>2, <1>9, <1>10 DEF Accounted

LEMMA AccountedStep ==
  ASSUME Typed, Told, Remembers, Accounted, [Files!Next]_(Files!vars)
  PROVE  Accounted'
  <1>0. /\ Sound(doc) /\ user \in Users
    BY DEF Typed
  <1>00. "pick" \in Files!Slots /\ \A s \in Scopes : s \in Files!Slots /\ s # "pick"
    BY Slotted, Apart
  \* Whoever changes nothing but one selection, to the user's liking or to the default.
  <1>a. ASSUME kind' = kind, memory' = memory, user'.taken = user.taken, user.own \subseteq user'.own,
               kind \in Keeping => \A y \in Files!Slots :
                 \/ Files!In(doc', y) = Files!In(doc, y) /\ user'.chose[y] = user.chose[y] /\ (y \in user.adrift => y \in user'.adrift)
                 \/ Files!In(doc', y) = user'.chose[y] /\ (Files!In(doc', y) \in Files!OurSelections => Files!In(doc', y) \in OwnRefs)
                 \/ Files!In(doc', y) \in Files!OurSelections /\ user'.chose[y] = Unset
        PROVE  Accounted'
    <2>1. Files!OurSelections' = Files!OurSelections /\ OwnRefs \subseteq OwnRefs'
      BY <1>a, OursNext DEF OwnRefs, Files!RefOf
    <2>2. ASSUME kind \in Keeping, NEW y \in Files!Slots
          PROVE  Files!In(doc', y) \in Files!OurSelections \/ Files!Returned(y)' \/ y \in user'.adrift
      <3>1. Files!In(doc, y) \in Files!OurSelections \/ Files!Returned(y) \/ y \in user.adrift
        BY <2>2 DEF Accounted
      <3>. QED
        BY <1>a, <2>2, <3>1 DEF Files!Returned
    <2>3. ASSUME kind \in Keeping, NEW y \in Scopes, Files!In(doc', y) \in Files!OurSelections \ OwnRefs', memory[y] = Absent
          PROVE  user'.chose[y] = Unset \/ y \in user'.adrift
      <3>1. Files!In(doc, y) \in Files!OurSelections \ OwnRefs => user.chose[y] = Unset \/ y \in user.adrift
        BY <2>3 DEF Accounted
      <3>. QED
        BY <1>00, <1>a, <2>1, <2>3, <3>1
    <2>. QED
      BY <1>a, <2>1, <2>2, <2>3 DEF Accounted
  <1>1. CASE UNCHANGED Files!vars
    BY <1>1, <1>a DEF Files!vars
  <1>2. ASSUME NEW p \in Providers, Files!Switch(p)
        PROVE  Accounted'
    <2>1. kind' = kind
      BY <1>2 DEF Files!Switch
    <2>. QED
      BY <1>2, <2>1, AccountedSwitch DEF Accounted
  <1>3. ASSUME NEW p \in Providers, Files!SwitchFails(p)
        PROVE  Accounted'
    <2>1. \A y \in Files!Slots : Files!In(doc', y) = Files!In(doc, y)
      BY <1>0, <1>3, CodeBuddyGlobalFields DEF Files!SwitchFails, Files!In
    <2>. QED
      BY <1>3, <1>a, <2>1 DEF Files!SwitchFails
  <1>4. ASSUME Files!Restore
        PROVE  Accounted'
    <2>1. kind' = kind /\ memory' = Files!Nothing
      BY <1>4 DEF Files!Restore
    <2>2. kind \in Keeping => \A x \in Files!Slots :
            /\ Files!Returned(x)' \/ x \in user'.adrift
            /\ Files!In(doc', x) \in Files!OurSelections => x \in user'.adrift \/ x = "pick"
      BY <1>4, KeepingReturned
    <2>3. Files!OurSelections' = Files!OurSelections
      BY <2>1, OursNext
    <2>. QED
      BY <1>00, <2>1, <2>2, <2>3 DEF Accounted
  <1>5. ASSUME NEW x \in Files!Slots, Files!Choose(x)
        PROVE  Accounted'
    <2>1. PICK s \in Files!Eligible(x, user.own) :
            /\ doc'.entries = doc.entries
            /\ \A y \in Files!Slots : Files!In(doc', y) = IF y = x THEN s ELSE Files!In(doc, y)
            /\ user' = [user EXCEPT !.chose[x] = s, !.adrift = @ \ {x}]
      BY <1>5, ChooseFields
    <2>2. /\ user'.taken = user.taken /\ user'.own = user.own /\ user'.adrift = user.adrift \ {x}
          /\ \A y \in Files!Slots : user'.chose[y] = IF y = x THEN s ELSE user.chose[y]
      BY <1>0, <2>1 DEF Users, Memories
    <2>3. kind \in Keeping => (s \in Files!OurSelections => s \in OwnRefs)
      BY EligibleKept
    <2>4. kind' = kind /\ memory' = memory
      BY <1>5 DEF Files!Choose, Files!Act
    <2>. QED
      BY <1>a, <2>1, <2>2, <2>3, <2>4
  <1>6. ASSUME NEW s \in Scopes, Files!Open(s)
        PROVE  Accounted'
    <2>1. kind \in Keeping => \A y \in Files!Slots : Files!In(doc', y) = IF y = s THEN doc.pick ELSE Files!In(doc, y)
      BY <1>6, OpenFields DEF Keeping
    <2>2. user'.chose = [user.chose EXCEPT ![s] = IF doc.pick \in Files!OurSelections THEN Unset ELSE doc'.scopes[s]]
      BY <1>0, <1>6 DEF Files!Open, Users
    <2>3. user'.taken = user.taken /\ user'.own = user.own /\ user'.adrift = user.adrift
      BY <1>0, <1>6 DEF Files!Open, Users
    <2>4. \A y \in Files!Slots : user'.chose[y] = IF y = s THEN IF doc.pick \in Files!OurSelections THEN Unset ELSE Files!In(doc', s) ELSE user.chose[y]
      BY <1>0, <2>2, Slotted DEF Users, Memories
    <2>5. kind' = kind /\ memory' = memory
      BY <1>6 DEF Files!Open, Files!Act
    <2>. QED
      BY <1>00, <1>a, <2>1, <2>3, <2>4, <2>5
  <1>7. ASSUME NEW s \in Scopes, Files!Return(s)
        PROVE  Accounted'
    BY <1>7, <1>a, ReturnFields DEF Files!Return, Files!Act
  <1>8. ASSUME NEW e \in Mine, Files!Add(e)
        PROVE  Accounted'
    <2>1. user'.taken = user.taken /\ user.own \subseteq user'.own /\ user'.chose = user.chose /\ user'.adrift = user.adrift
      BY <1>0, <1>8 DEF Files!Add, Users
    <2>. QED
      BY <1>8, <1>a, <2>1, AddFields DEF Files!Add, Files!Act
  <1>. QED
    BY <1>1, <1>2, <1>3, <1>4, <1>5, <1>6, <1>7, <1>8 DEF Files!Next

-----------------------------------------------------------------------------
(* A restore *)

LEMMA RestoreReturns ==
  ASSUME Typed, Told, Scopeless, Left, Remembers, Accounted, Files!Restore
  PROVE  Files!RestoreReturnsNative'
  <1>0. /\ Sound(doc) /\ Sound(Files!Baseline) /\ memory \in Memories /\ user'.chose = user.chose /\ kind' = kind
        /\ base' = Files!Baseline /\ doc' = Files!NativeOf(doc, Files!Baseline, memory)
        /\ kind \in {"codex", "openclaw", "autoclaw", "workbuddy", "codebuddy", "zcode", "hermes", "dumate", "aionclaw"}
    BY KindsAre, BaselineSound DEF Typed, Files!Restore, Users
  <1>1. Scopeless'
    BY ScopelessStep DEF Files!Next
  <1>2. Left' /\ (kind \in {"zcode", "dumate"} => ~(Files!Selects(doc'.pick) /\ doc'.pick.name = AtSwitch))
    BY LeftRestore
  <1>3. Files!OurSelections' = Files!OurSelections
    BY <1>0, OursNext
  <1>4. ASSUME NEW x \in Files!Slots
        PROVE  Files!Returned(x)' \/ Files!LeftBehind(x)'
    <2>0. /\ x = "pick" \/ x \in Scopes
          /\ Files!In(doc', "pick") = doc'.pick
          /\ x \in Scopes => x # "pick" /\ Files!In(doc', x) = doc'.scopes[x]
      BY Slotted, Apart DEF Files!Slots
    <2>1. CASE kind = "aionclaw"
      BY <1>0, <2>1 DEF Files!LeftBehind
    <2>2. CASE kind \in {"openclaw", "autoclaw", "zcode"} /\ x # "pick"
      <3>1. Files!In(doc', x) \in Files!OurSelections \cup {user'.chose[x]}
        BY <1>0, <1>2, <1>3, <2>0, <2>2 DEF Left
      <3>2. Files!In(doc', x) = user'.chose[x] => Files!Returned(x)'
        BY DEF Files!Returned
      <3>3. Files!In(doc', x) \in Files!OurSelections => Files!LeftBehind(x)'
        BY <1>0, <1>3, <2>2 DEF Files!LeftBehind
      <3>. QED
        BY <3>1, <3>2, <3>3
    <2>3. CASE kind = "zcode" /\ x = "pick"
      <3>1. doc'.pick \in {Unset, user'.chose[x]}
        BY <1>0, <1>2, <2>3 DEF Left, Files!Selects
      <3>2. Files!In(doc', x) = user'.chose[x] => Files!Returned(x)'
        BY DEF Files!Returned
      <3>3. doc'.pick = Unset => Files!LeftBehind(x)'
        BY <1>0, <2>3 DEF Files!LeftBehind
      <3>. QED
        BY <2>0, <2>3, <3>1, <3>2, <3>3
    <2>4. CASE kind \in {"openclaw", "autoclaw"} /\ x = "pick"
      <3>1. kind = "openclaw" => doc'.pick = Files!Baseline.pick
        BY <1>0, OpenClawNativeFields DEF Files!NativeOf
      <3>2. kind = "autoclaw" => doc'.pick = Files!Baseline.pick
        BY <1>0, AutoClawNativeFields DEF Files!NativeOf
      <3>. QED
        BY <1>0, <2>4, <3>1, <3>2 DEF Files!LeftBehind
    <2>5. CASE kind \in {"codex", "hermes", "dumate"} /\ x \in Scopes
      <3>1. doc'.scopes[x] = Absent /\ user'.chose[x] = Absent
        BY <1>0, <1>1, <2>5 DEF Scopeless, Unscoped
      <3>. QED
        BY <2>0, <2>5, <3>1 DEF Files!Returned
    <2>6. CASE kind = "codex" /\ x = "pick"
      <3>1. doc'.pick = IF Files!Baseline.pick = Unset THEN Files!Ref(Official, Usual) ELSE Files!Baseline.pick
        BY <1>0, <2>6, CodexNativeFields DEF Files!NativeOf
      <3>. QED
        BY <1>0, <2>6, <3>1 DEF Files!LeftBehind
    <2>7. CASE kind = "hermes" /\ x = "pick"
      BY <1>0, <2>7 DEF Files!LeftBehind, Files!NativeOf, Files!HermesNative
    <2>8. CASE kind = "dumate" /\ x = "pick"
      <3>1. doc'.pick \in {user'.chose[x], base'.pick}
        BY <1>0, <1>2, <2>8 DEF Left, Files!Selects
      <3>2. Files!In(doc', x) = user'.chose[x] => Files!Returned(x)'
        BY DEF Files!Returned
      <3>3. doc'.pick = base'.pick => Files!LeftBehind(x)'
        BY <1>0, <2>8 DEF Files!LeftBehind
      <3>. QED
        BY <2>0, <2>8, <3>1, <3>2, <3>3
    <2>9. CASE kind \in {"workbuddy", "codebuddy"}
      <3>1. Files!Returned(x)' \/ x \in user'.adrift
        BY <2>9, KeepingReturned DEF Keeping
      <3>2. x \in user'.adrift => Files!LeftBehind(x)'
        BY <1>0, <2>9 DEF Files!LeftBehind
      <3>. QED
        BY <3>1, <3>2
    <2>. QED
      BY <1>0, <2>0, <2>1, <2>2, <2>3, <2>4, <2>5, <2>6, <2>7, <2>8, <2>9
  <1>5. kind \notin {"codex", "openclaw", "aionclaw"} => ~\E e \in doc'.entries : Files!Ours(e)
    <2>1. \A e \in doc'.entries :
            Owned(e) /\ (kind \in Marking => ~e.mark /\ ~Files!Ours(e)) /\ (kind \in {"zcode", "hermes"} => e.name # AtSwitch)
      BY <1>0, NativeOwned
    <2>. QED
      BY <1>0, <2>1 DEF Owned, Marking, Naming
  <1>. QED
    BY <1>0, <1>4, <1>5 DEF Files!RestoreReturnsNative, Files!Ours

-----------------------------------------------------------------------------
(* A switch *)

\* By a name that only the managed entry has.
LEMMA ServedByName ==
  ASSUME NEW entries, NEW e, NEW p \in Providers, NEW mark, NEW models, NEW name,
         e = Files!Made(name, models, p, mark), p.model \in models
  PROVE  /\ e \in Files!Upsert(entries, e) /\ e.name = name /\ e.key = p.key /\ e.url = p.url /\ p.model \in e.models
         /\ \A x \in Files!Upsert(entries, e) : x.name = name => x = e
  BY DEF Files!Upsert, Files!Made

ServedAs(d, s, p) ==
  \E e \in d.entries :
    /\ e.key = p.key /\ e.url = p.url /\ p.model \in e.models
    /\ IF s.name = Bare THEN s.model \in e.models
       ELSE IF kind = "codebuddy" THEN Files!CodeBuddyRef(e.name, Files!Only(e)) = s ELSE e.name = s.name /\ s.model \in e.models

\* Every entry of AT-Switch is the binding's.
LEMMA WrittenIsBindings ==
  ASSUME Typed, Told, NEW p \in Providers, kind # "openclaw", NEW e \in Files!Written(doc, p).entries, Files!Ours(e)
  PROVE  e.key = p.key /\ e.url = p.url
  <1> DEFINE w == Files!Written(doc, p)
  <1>0. /\ Sound(doc)
        /\ kind \in {"codex", "openclaw", "autoclaw", "workbuddy", "codebuddy", "zcode", "hermes", "dumate", "aionclaw"}
    BY KindsAre DEF Typed
  <1>1. \A x \in doc.entries : Owned(x)
    BY DEF Told, Owned
  <1>2. Owned(e)
    BY <1>1, WrittenOwned
  <1>3. CASE kind \in {"codex", "hermes", "aionclaw"}
    <2>1. w.entries = Files!Upsert(doc.entries, Files!Made(AtSwitch, {p.model}, p, FALSE))
      BY <1>0, <1>3, CodexFields, HermesFields, AionClawFields DEF Files!Written
    <2>2. e.name = AtSwitch
      BY <1>2, <1>3 DEF Owned, Naming
    <2>. QED
      BY <2>1, <2>2 DEF Files!Upsert, Files!Made
  <1>4. CASE kind = "zcode"
    <2>1. w.entries = Files!Upsert(doc.entries, Files!Made(AtSwitch, Files!ZCodeDeclared(doc.entries, p), p, FALSE))
      BY <1>0, <1>4, ZCodeFields DEF Files!Written
    <2>2. e.name = AtSwitch
      BY <1>2, <1>4 DEF Owned, Naming
    <2>. QED
      BY <2>1, <2>2 DEF Files!Upsert, Files!Made
  <1>5. CASE kind = "dumate"
    <2>1. w.entries = Files!Upsert(Files!Upsert(doc.entries, Files!Made(AtSwitch, {p.model}, p, TRUE)), Files!Made(Built, Files!Aliases(doc.entries), p, TRUE))
      BY <1>0, <1>5, DuMateFields DEF Files!Written
    <2>2. e.name \in {AtSwitch, Built}
      BY <1>2, <1>5 DEF Owned, Marking
    <2>. QED
      BY <2>1, <2>2 DEF Files!Upsert, Files!Made
  <1>6. CASE kind \in {"autoclaw", "workbuddy", "codebuddy"}
    <2>1. e.mark
      BY <1>2, <1>6 DEF Owned, Marking
    <2>2. Files!Unmarked(doc.entries) \subseteq Files!Entries /\ \A x \in Files!Unmarked(doc.entries) : x.models # {} /\ ~x.mark
      BY <1>0 DEF Files!Unmarked, Sound, Files!Documents
    <2>3. \A x \in Files!NamedAll(Files!Unmarked(doc.entries)) : ~x.mark
      BY <2>2, NamedTyped
    <2>a. kind = "autoclaw" => w.entries = Files!AutoClawOthers(doc.entries) \cup {Files!Made(p.name, {p.model}, p, TRUE)}
      BY <1>0, AutoClawFields DEF Files!Written
    <2>b. kind = "workbuddy" => w.entries = Files!Unmarked(doc.entries) \cup {Files!Made(p.name, {p.model}, p, TRUE)}
      BY <1>0, WorkBuddyFields DEF Files!Written
    <2>c. kind = "codebuddy" => w.entries = Files!NamedAll(Files!Unmarked(doc.entries)) \cup {Files!Made(p.name, {p.model}, p, TRUE)}
      BY <1>0, CodeBuddyFields DEF Files!Written
    <2>4. \A x \in Files!AutoClawOthers(doc.entries) : ~x.mark
      BY DEF Files!AutoClawOthers, Files!Unmarked
    <2> DEFINE m == Files!Made(p.name, {p.model}, p, TRUE)
    <2> HIDE DEF m, w
    <2>5. e = m
      <3>0. e \in w.entries
        BY DEF w
      <3>1. CASE kind = "autoclaw"
        BY <2>1, <2>4, <2>a, <3>0, <3>1 DEF m, w
      <3>2. CASE kind = "workbuddy"
        BY <2>1, <2>2, <2>b, <3>0, <3>2 DEF m, w
      <3>3. CASE kind = "codebuddy"
        BY <2>1, <2>3, <2>c, <3>0, <3>3 DEF m, w
      <3>. QED
        BY <1>6, <3>1, <3>2, <3>3
    <2>. QED
      BY <2>5 DEF m, Files!Made
  <1>. QED
    BY <1>0, <1>3, <1>4, <1>5, <1>6

\* What is selected and where, after a switch.
MovedIn(d) ==
  CASE kind \in {"codex", "hermes", "zcode"} -> {"pick"}
    [] kind = "dumate" -> {"pick"}
    [] kind = "openclaw" -> {"pick"} \cup {s \in Scopes : Files!Selects(d.scopes[s]) /\ d.scopes[s].name # Official}
    [] kind = "autoclaw" -> {"pick"} \cup {s \in Scopes \ Threads : Files!Selects(d.scopes[s])}
    [] OTHER -> {"pick"} \cup (IF d.now = None THEN {} ELSE {d.now})

LEMMA MovedIs ==
  Files!Moved = MovedIn(doc)
  BY DEF Files!Moved, MovedIn, Files!Repointed

LEMMA MovedIsNext ==
  kind' = kind => Files!Moved' = MovedIn(doc')
  BY DEF Files!Moved, MovedIn, Files!Repointed, Files!Selects

LEMMA WrittenServes ==
  ASSUME Typed, Told, NEW p \in Providers, NEW x \in MovedIn(Files!Written(doc, p))
  PROVE  Files!Selects(Files!In(Files!Written(doc, p), x)) /\ ServedAs(Files!Written(doc, p), Files!In(Files!Written(doc, p), x), p)
  <1> DEFINE w == Files!Written(doc, p)
  <1>0. /\ Sound(doc)
        /\ kind \in {"codex", "openclaw", "autoclaw", "workbuddy", "codebuddy", "zcode", "hermes", "dumate", "aionclaw"}
    BY KindsAre DEF Typed
  <1>00. /\ Files!In(w, "pick") = w.pick
         /\ \A s \in Scopes : s # "pick" /\ Files!In(w, s) = w.scopes[s]
         /\ \A s \in MovedIn(w) : s = "pick" \/ s \in Scopes
    <2>1. w.now \in Scopes \cup {None}
      BY <1>0, WrittenSound DEF Typed, Sound, Files!Documents
    <2>. QED
      BY <2>1, <1>0, Slotted, Apart DEF MovedIn
  <1>a. p.model \in Files!Models /\ p.name \in Files!Names /\ AtSwitch \in Files!Names /\ Bare \in Files!Names /\ AtSwitch # Bare /\ p.name # Bare
        /\ p.name # NoName /\ AtSwitch # Built
    BY ProviderTyped, NamesTyped, Apart, AgentsAssumption DEF Files!Assumptions
  <1>b. /\ Files!Selects(Files!Ref(AtSwitch, p.model)) /\ Files!Selects(Files!Ref(p.name, p.model)) /\ Files!Selects(Files!Ref(Bare, p.model))
        /\ Files!Ref(AtSwitch, p.model).name = AtSwitch /\ Files!Ref(p.name, p.model).name = p.name /\ Files!Ref(Bare, p.model).name = Bare
        /\ Files!Ref(AtSwitch, p.model).model = p.model /\ Files!Ref(p.name, p.model).model = p.model /\ Files!Ref(Bare, p.model).model = p.model
    BY <1>a, RefTyped
  <1>c. ASSUME NEW e \in w.entries, NEW models, NEW mark, e = Files!Made(AtSwitch, models, p, mark), p.model \in models, kind # "codebuddy"
        PROVE  ServedAs(w, Files!Ref(AtSwitch, p.model), p)
    <2>1. e.key = p.key /\ e.url = p.url /\ p.model \in e.models /\ e.name = AtSwitch
      BY <1>c DEF Files!Made
    <2>. QED
      BY <1>a, <1>b, <1>c, <2>1 DEF ServedAs
  <1>1. CASE kind \in {"codex", "hermes"}
    <2>1. w.entries = Files!Upsert(doc.entries, Files!Made(AtSwitch, {p.model}, p, FALSE)) /\ w.pick = Files!Ref(AtSwitch, p.model)
      BY <1>0, <1>1, CodexFields, HermesFields DEF Files!Written
    <2>2. x = "pick"
      BY <1>1 DEF MovedIn
    <2>3. Files!Made(AtSwitch, {p.model}, p, FALSE) \in w.entries
      BY <2>1 DEF Files!Upsert
    <2>. QED
      BY <1>00, <1>1, <1>b, <1>c, <2>1, <2>2, <2>3
  <1>2. CASE kind = "zcode"
    <2>1. w.entries = Files!Upsert(doc.entries, Files!Made(AtSwitch, Files!ZCodeDeclared(doc.entries, p), p, FALSE)) /\ w.pick = Files!Ref(AtSwitch, p.model)
      BY <1>0, <1>2, ZCodeFields DEF Files!Written
    <2>2. x = "pick"
      BY <1>2 DEF MovedIn
    <2>3. Files!Made(AtSwitch, Files!ZCodeDeclared(doc.entries, p), p, FALSE) \in w.entries /\ p.model \in Files!ZCodeDeclared(doc.entries, p)
      BY <2>1 DEF Files!Upsert, Files!ZCodeDeclared
    <2>. QED
      BY <1>00, <1>2, <1>b, <1>c, <2>1, <2>2, <2>3
  <1>3. CASE kind = "dumate"
    <2>1. /\ w.entries = Files!Upsert(Files!Upsert(doc.entries, Files!Made(AtSwitch, {p.model}, p, TRUE)), Files!Made(Built, Files!Aliases(doc.entries), p, TRUE))
          /\ w.pick = Files!Ref(AtSwitch, p.model)
      BY <1>0, <1>3, DuMateFields DEF Files!Written
    <2>2. x = "pick"
      BY <1>3 DEF MovedIn
    <2>3. Files!Made(AtSwitch, {p.model}, p, TRUE) \in w.entries
      BY <1>a, <2>1 DEF Files!Upsert, Files!Made
    <2>. QED
      BY <1>00, <1>3, <1>b, <1>c, <2>1, <2>2, <2>3
  <1>4. CASE kind = "aionclaw"
    <2>1. /\ w.entries = Files!Upsert(doc.entries, Files!Made(AtSwitch, {p.model}, p, FALSE)) /\ w.pick = Files!Ref(AtSwitch, p.model) /\ w.now = doc.now
          /\ \A s \in Scopes : w.scopes[s] = IF s = doc.now THEN Files!Ref(AtSwitch, p.model) ELSE doc.scopes[s]
      BY <1>0, <1>4, AionClawFields DEF Files!Written
    <2>2. x = "pick" \/ x = w.now
      BY <1>4 DEF MovedIn
    <2>3. Files!Made(AtSwitch, {p.model}, p, FALSE) \in w.entries
      BY <2>1 DEF Files!Upsert
    <2>4. Files!In(w, x) = Files!Ref(AtSwitch, p.model)
      BY <1>00, <2>1, <2>2
    <2>. QED
      BY <1>4, <1>b, <1>c, <2>3, <2>4
  <1>5. CASE kind = "openclaw"
    <2> DEFINE e == Files!Made(p.name, {p.model}, p, FALSE)
    <2>1. /\ w.entries = Files!Upsert(doc.entries \ Files!Called(doc.entries, AtSwitch), e) /\ w.pick = Files!Ref(p.name, p.model)
          /\ \A s \in Scopes : w.scopes[s] = IF Files!Selects(doc.scopes[s]) /\ doc.scopes[s].name # Official
                                             THEN Files!Ref(p.name, p.model) ELSE doc.scopes[s]
      BY <1>0, <1>5, OpenClawFields DEF Files!Written
    <2>2. x = "pick" \/ (x \in Scopes /\ Files!Selects(w.scopes[x]) /\ w.scopes[x].name # Official)
      BY <1>5 DEF MovedIn
    <2>3. Files!In(w, x) = Files!Ref(p.name, p.model)
      BY <1>00, <2>1, <2>2
    <2>4. e \in w.entries /\ e.name = p.name /\ e.key = p.key /\ e.url = p.url /\ e.models = {p.model}
      BY <2>1 DEF Files!Upsert, Files!Made
    <2>. QED
      BY <1>5, <1>a, <1>b, <2>3, <2>4 DEF ServedAs
  <1>6. CASE kind = "autoclaw"
    <2> DEFINE e == Files!Made(p.name, {p.model}, p, TRUE)
    <2>1. w = Files!AutoClawWritten(doc, p)
      BY <1>6 DEF Files!Written
    <2>a. Files!AutoClawWritten(doc, p).entries = Files!AutoClawOthers(doc.entries) \cup {e}
      BY <1>0, AutoClawFields
    <2>b. Files!AutoClawWritten(doc, p).pick = Files!Ref(p.name, p.model)
      BY <1>0, AutoClawFields
    <2>2. e \in Files!AutoClawWritten(doc, p).entries /\ Files!AutoClawWritten(doc, p).pick = Files!Ref(p.name, p.model)
      BY <2>a, <2>b
    <2>3. \A s \in Scopes : Files!AutoClawWritten(doc, p).scopes[s] =
            IF Files!Selects(doc.scopes[s]) /\ (s \in Threads => doc.scopes[s].name = Bare) THEN Files!Ref(Bare, p.model) ELSE doc.scopes[s]
      BY <1>0, AutoClawFields
    <2>4. x = "pick" \/ (x \in Scopes \ Threads /\ Files!Selects(w.scopes[x]))
      BY <1>6 DEF MovedIn
    <2> HIDE DEF w
    <2>5. Files!In(w, x) \in {Files!Ref(p.name, p.model), Files!Ref(Bare, p.model)}
      BY <1>00, <2>1, <2>2, <2>3, <2>4
    <2>6. e \in w.entries /\ e.name = p.name /\ e.key = p.key /\ e.url = p.url /\ e.models = {p.model}
      BY <2>1, <2>2 DEF Files!Made
    <2>. QED
      BY <1>6, <1>a, <1>b, <2>5, <2>6 DEF ServedAs, w
  <1>7. CASE kind \in {"workbuddy", "codebuddy"}
    <2> DEFINE e == Files!Made(p.name, {p.model}, p, TRUE)
    <2>1. /\ e \in w.entries
          /\ \A y \in Files!Slots : Files!In(w, y) = IF y \in Files!Repointed THEN Files!RefOf(e) ELSE Files!In(doc, y)
      BY <1>7, KeepingWritten DEF Keeping
    <2>2. w.now = doc.now
      BY <1>0, WrittenSound DEF Typed
    <2>3. x \in Files!Repointed /\ x \in Files!Slots
      BY <1>00, <1>7, <2>2, Slotted DEF MovedIn, Files!Repointed
    <2>4. e.name = p.name /\ e.key = p.key /\ e.url = p.url /\ e.models = {p.model} /\ Files!Only(e) = p.model
      BY DEF Files!Made, Files!Only
    <2>5. kind = "workbuddy" => Files!RefOf(e) = Files!Ref(Bare, p.model)
      BY <2>4 DEF Files!RefOf, Files!Local
    <2>6. kind = "codebuddy" => Files!RefOf(e) = Files!Ref(p.name, p.model) /\ Files!CodeBuddyRef(e.name, Files!Only(e)) = Files!Ref(p.name, p.model)
      BY <1>a, <2>4 DEF Files!RefOf, Files!CodeBuddyRef
    <2> HIDE DEF w, e
    <2>. QED
      BY <1>7, <1>a, <1>b, <2>1, <2>3, <2>4, <2>5, <2>6 DEF ServedAs, w
  <1>. QED
    BY <1>0, <1>1, <1>2, <1>3, <1>4, <1>5, <1>6, <1>7

LEMMA SwitchServes ==
  ASSUME Typed, Told, NEW p \in Providers, Files!Switch(p)
  PROVE  Files!SwitchIsServed'
  <1> DEFINE w == Files!Written(doc, p)
  <1>0. Sound(doc) /\ doc' = w /\ binding' = p /\ kind' = kind
    BY DEF Typed, Files!Switch
  <1>1. ASSUME NEW x \in Files!Moved'
        PROVE  /\ \E e \in Files!Named(Files!In(doc, x))' : e.key = p.key /\ e.url = p.url /\ p.model \in e.models
               /\ \A e \in Files!Named(Files!In(doc, x))' : Files!Ours(e) => e.key = p.key /\ e.url = p.url
    <2>1. x \in MovedIn(w)
      BY <1>0, <1>1, MovedIsNext
    <2>2. Files!Selects(Files!In(w, x)) /\ ServedAs(w, Files!In(w, x), p)
      BY <2>1, WrittenServes
    <2>3. PICK e \in w.entries :
            /\ e.key = p.key /\ e.url = p.url /\ p.model \in e.models
            /\ IF Files!In(w, x).name = Bare THEN Files!In(w, x).model \in e.models
               ELSE IF kind = "codebuddy" THEN Files!CodeBuddyRef(e.name, Files!Only(e)) = Files!In(w, x)
               ELSE e.name = Files!In(w, x).name /\ Files!In(w, x).model \in e.models
      BY <2>2 DEF ServedAs
    <2>4. e \in Files!Named(Files!In(doc, x))'
      BY <1>0, <2>2, <2>3 DEF Files!Named, Files!Selects
    <2>5. ASSUME NEW y \in Files!Named(Files!In(doc, x))', Files!Ours(y)
          PROVE  y.key = p.key /\ y.url = p.url
      <3>1. y \in w.entries
        BY <1>0, <2>5 DEF Files!Named
      <3>2. CASE kind # "openclaw"
        BY <2>5, <3>1, <3>2, WrittenIsBindings
      <3>3. CASE kind = "openclaw"
        <4>1. /\ w.entries = Files!Upsert(doc.entries \ Files!Called(doc.entries, AtSwitch), Files!Made(p.name, {p.model}, p, FALSE))
              /\ w.pick = Files!Ref(p.name, p.model)
              /\ \A s \in Scopes : w.scopes[s] = IF Files!Selects(doc.scopes[s]) /\ doc.scopes[s].name # Official
                                                 THEN Files!Ref(p.name, p.model) ELSE doc.scopes[s]
          BY <1>0, <3>3, OpenClawFields DEF Files!Written
        <4>2. x = "pick" \/ (x \in Scopes /\ Files!Selects(w.scopes[x]) /\ w.scopes[x].name # Official)
          BY <2>1, <3>3 DEF MovedIn
        <4>3. Files!In(w, x) = Files!Ref(p.name, p.model)
          BY <4>1, <4>2, Slotted
        <4>4. Files!Ref(p.name, p.model).name = p.name /\ p.name # Bare
          BY AgentsAssumption DEF Files!Ref, Files!Assumptions
        <4>5. y.name = p.name
          BY <1>0, <2>5, <3>3, <4>3, <4>4 DEF Files!Named, Files!Selects
        <4>. QED
          BY <3>1, <4>1, <4>5 DEF Files!Upsert, Files!Made
      <3>. QED
        BY <3>2, <3>3
    <2>. QED
      BY <2>3, <2>4, <2>5
  <1>2. ASSUME kind = "codebuddy"
        PROVE  doc'.global = doc'.pick /\ (doc'.offered # None => p.model \in doc'.offered)
    <2>a. w = Files!CodeBuddyWritten(doc, p)
      BY <1>2 DEF Files!Written
    <2>b. Files!CodeBuddyWritten(doc, p).offered = Files!Offered(doc, {p.model})
      BY <1>0, CodeBuddyFields
    <2>c. Files!CodeBuddyWritten(doc, p).global = Files!CodeBuddyRef(p.name, p.model)
      BY <1>0, CodeBuddyFields
    <2>d. Files!CodeBuddyWritten(doc, p).pick = Files!CodeBuddyRef(p.name, p.model)
      BY <1>0, CodeBuddyFields
    <2>1. w.global = w.pick /\ w.offered = Files!Offered(doc, {p.model})
      BY <2>a, <2>b, <2>c, <2>d
    <2>. QED
      BY <1>0, <2>1 DEF Files!Offered
  <1>3. kind # "openclaw" => \A e \in doc'.entries : Files!Ours(e) => e.key = p.key /\ e.url = p.url
    BY <1>0, WrittenIsBindings
  <1>4. ASSUME kind = "dumate"
        PROVE  \A e \in Files!Called(doc'.entries, Built) : e.key = p.key
    <2>1. w.entries = Files!Upsert(Files!Upsert(doc.entries, Files!Made(AtSwitch, {p.model}, p, TRUE)), Files!Made(Built, Files!Aliases(doc.entries), p, TRUE))
      BY <1>0, <1>4, DuMateFields DEF Files!Written
    <2>. QED
      BY <1>0, <2>1 DEF Files!Upsert, Files!Made, Files!Called
  <1>5. ASSUME kind = "zcode", NEW s \in Scopes, Files!Selects(doc'.scopes[s]), doc'.scopes[s].name = AtSwitch
        PROVE  Files!Named(doc.scopes[s])' # {}
    <2> DEFINE e == Files!Made(AtSwitch, Files!ZCodeDeclared(doc.entries, p), p, FALSE)
    <2>1. /\ w.entries = Files!Upsert(doc.entries, e)
          /\ \A t \in Scopes : w.scopes[t] = IF Files!Selects(doc.scopes[t]) /\ doc.scopes[t].name = AtSwitch
                                             THEN Files!Ref(AtSwitch, p.model) ELSE doc.scopes[t]
      BY <1>0, <1>5, ZCodeFields DEF Files!Written
    <2>2. doc'.scopes[s] = Files!Ref(AtSwitch, p.model)
      BY <1>0, <1>5, <2>1
    <2>3. e \in doc'.entries /\ e.name = AtSwitch /\ p.model \in e.models
      BY <1>0, <2>1 DEF Files!Upsert, Files!Made, Files!ZCodeDeclared
    <2>4. Files!Ref(AtSwitch, p.model).name = AtSwitch /\ Files!Ref(AtSwitch, p.model).model = p.model /\ AtSwitch # Bare
      BY Apart DEF Files!Ref
    <2> HIDE DEF e
    <2>5. e \in Files!Named(doc.scopes[s])'
      BY <1>0, <1>5, <2>2, <2>3, <2>4 DEF Files!Named, Files!Selects
    <2>. QED
      BY <2>5
  <1>. QED
    BY <1>0, <1>1, <1>2, <1>3, <1>4, <1>5 DEF Files!SwitchIsServed, Files!Ours, Files!Selects, Files!Called

-----------------------------------------------------------------------------
(* The theorems *)

LEMMA FilesInvInit ==
  ASSUME Files!Init
  PROVE  FilesInv
  BY TypedInit, ToldInit, KeptInit, ScopelessInit, LeftInit, RemembersInit, AccountedInit, InitFields
  DEF FilesInv, Files!SwitchIsServed, Files!RestoreReturnsNative

LEMMA FilesInvStep ==
  ASSUME FilesInv, [Files!Next]_(Files!vars)
  PROVE  FilesInv'
  <1>0. Typed /\ Told /\ Kept /\ Scopeless /\ Left /\ Remembers /\ Accounted /\ Files!SwitchIsServed /\ Files!RestoreReturnsNative
    BY DEF FilesInv
  <1>1. Typed' /\ Told' /\ Kept' /\ Scopeless' /\ Left' /\ Remembers' /\ Accounted'
    BY <1>0, TypedStep, ToldStep, KeptStep, ScopelessStep, LeftStep, RemembersStep, AccountedStep
  <1>2. Files!SwitchIsServed' /\ Files!RestoreReturnsNative'
    <2>1. CASE UNCHANGED Files!vars
      <3>0. UNCHANGED <<kind, doc, base, user, said, binding>>
        BY <2>1 DEF Files!vars
      <3>1. Files!SwitchIsServed'
        <4>1. Files!Moved' = Files!Moved
          BY <3>0, MovedIs, MovedIsNext
        <4>2. \A x : Files!In(doc, x)' = Files!In(doc, x) /\ Files!Named(Files!In(doc, x))' = Files!Named(Files!In(doc, x))
          BY <3>0 DEF Files!In, Files!Named, Files!Selects
        <4>3. \A s \in Scopes : Files!Named(doc.scopes[s])' = Files!Named(doc.scopes[s])
          BY <3>0 DEF Files!Named, Files!Selects
        <4>. QED
          BY <1>0, <3>0, <4>1, <4>2, <4>3 DEF Files!SwitchIsServed, Files!Selects, Files!Ours, Files!Called
      <3>2. Files!RestoreReturnsNative'
        <4>1. Files!OurSelections' = Files!OurSelections
          BY <3>0, OursNext
        <4>2. \A x : Files!In(doc, x)' = Files!In(doc, x) /\ (Files!Returned(x)' <=> Files!Returned(x))
          BY <3>0 DEF Files!In, Files!Returned
        <4>3. \A x : Files!LeftBehind(x)' <=> Files!LeftBehind(x)
          BY <3>0, <4>1, <4>2 DEF Files!LeftBehind
        <4>. QED
          BY <1>0, <3>0, <4>2, <4>3 DEF Files!RestoreReturnsNative, Files!Ours
      <3>. QED
        BY <3>1, <3>2
    <2>2. ASSUME NEW p \in Providers, Files!Switch(p)
          PROVE  Files!SwitchIsServed' /\ Files!RestoreReturnsNative'
      BY <1>0, <2>2, SwitchServes DEF Files!Switch, Files!RestoreReturnsNative
    <2>3. ASSUME NEW p \in Providers, Files!SwitchFails(p)
          PROVE  Files!SwitchIsServed' /\ Files!RestoreReturnsNative'
      BY <2>3 DEF Files!SwitchFails, Files!RestoreReturnsNative, Files!SwitchIsServed
    <2>4. ASSUME Files!Restore
          PROVE  Files!SwitchIsServed' /\ Files!RestoreReturnsNative'
      BY <1>0, <2>4, RestoreReturns DEF Files!Restore, Files!SwitchIsServed
    <2>5. ASSUME NEW x \in Files!Slots, Files!Choose(x)
          PROVE  Files!SwitchIsServed' /\ Files!RestoreReturnsNative'
      BY <2>5 DEF Files!Choose, Files!Act, Files!RestoreReturnsNative, Files!SwitchIsServed
    <2>6. ASSUME NEW s \in Scopes, Files!Open(s) \/ Files!Return(s)
          PROVE  Files!SwitchIsServed' /\ Files!RestoreReturnsNative'
      BY <2>6 DEF Files!Open, Files!Return, Files!Act, Files!RestoreReturnsNative, Files!SwitchIsServed
    <2>7. ASSUME NEW e \in Mine, Files!Add(e)
          PROVE  Files!SwitchIsServed' /\ Files!RestoreReturnsNative'
      BY <2>7 DEF Files!Add, Files!Act, Files!RestoreReturnsNative, Files!SwitchIsServed
    <2>. QED
      BY <2>1, <2>2, <2>3, <2>4, <2>5, <2>6, <2>7 DEF Files!Next
  <1>. QED
    BY <1>1, <1>2 DEF FilesInv

LEMMA FilesInvImplies ==
  ASSUME FilesInv
  PROVE  Files!TypeOK /\ Files!SwitchIsServed /\ Files!UsersEntriesStay /\ Files!RestoreReturnsNative
  BY DEF FilesInv, Files!TypeOK, Typed, Kept, Sound, Users, Memories

\* Whatever is switched, restored, entered, opened and selected, in whichever
\* order: what a switch has moved is served as the binding says, the user's
\* entries stay, and a restore returns what was selected before the takeover
\* (build_config, build_native_config, verify_config of nine adapters).
THEOREM FilesAreSafe ==
  Files!Spec => [](Files!TypeOK /\ Files!SwitchIsServed /\ Files!UsersEntriesStay /\ Files!RestoreReturnsNative)
  <1>1. Files!Init => FilesInv
    BY FilesInvInit
  <1>2. FilesInv /\ [Files!Next]_(Files!vars) => FilesInv'
    BY FilesInvStep
  <1>3. FilesInv => Files!TypeOK /\ Files!SwitchIsServed /\ Files!UsersEntriesStay /\ Files!RestoreReturnsNative
    BY FilesInvImplies
  <1>. QED
    BY <1>1, <1>2, <1>3, PTL DEF Files!Spec
-----------------------------------------------------------------------------
(* Applications that are closed for an operation *)


Stages == {"idle", "scan", "quit", "wait", "write", "resume", "drop", "over"}
Apps == [at : {"closed", "running", "leaving"}, pid : Nat, reads : Nat]
Pauses ==
  [at : Stages, pid : Nat, held : BOOLEAN, was : BOOLEAN, alone : BOOLEAN, stop : {"ok", "failed"},
   launch : {"none", "ok", "failed"}, result : {"none", "ok", "failed"}, restart : BOOLEAN]

AppTyped ==
  /\ app \in Apps
  /\ config \in Nat
  /\ call \in Pauses

\* A pause is held from when the application is gone, or was not there, and not
\* at all when it would not stop.
PauseInv ==
  /\ ~App!OnDesktop => app.at = "closed"
  /\ call.at \in {"idle", "scan", "quit", "wait"} => ~call.held /\ ~call.was /\ call.stop = "ok"
  /\ call.at \in {"write", "resume", "drop"} => call.held = (call.stop = "ok")
  /\ call.was => call.held /\ App!OnDesktop
  /\ call.at \in {"quit", "wait"} => App!OnDesktop
  /\ call.at # "over" => ~call.restart

\* Without the user there is but the process that was found.
AloneInv ==
  call.alone =>
    /\ call.at \in {"quit", "wait"} /\ App!Alive => app.pid = call.pid
    /\ call.at \in {"write", "resume", "drop"} /\ call.held => ~App!Alive

AppInv == AppTyped /\ PauseInv /\ AloneInv /\ App!AppIsAsTold

LEMMA AppInvInit == App!Init => AppInv
BY DEF App!Init, AppInv, AppTyped, PauseInv, AloneInv, App!AppIsAsTold, App!Fresh, Apps, Pauses, Stages, App!Alive, App!OnDesktop

\* What StopFails leaves is claimed nothing of but the types.
LEMMA StopFailsKeeps ==
  ASSUME AppInv, App!StopFails, call.at \in {"scan", "quit", "wait"},
         app' \in Apps, ~App!OnDesktop => app' = app, UNCHANGED <<host, config>>
  PROVE  AppInv'
<1>1. AppTyped'
  BY DEF AppInv, AppTyped, App!StopFails, Pauses, Stages
<1>2. PauseInv'
  BY DEF AppInv, AppTyped, Pauses, PauseInv, App!StopFails, App!OnDesktop
<1>3. AloneInv'
  BY DEF AppInv, AppTyped, Pauses, PauseInv, App!StopFails, AloneInv
<1>4. App!AppIsAsTold'
  BY DEF AppInv, AppTyped, Pauses, PauseInv, App!StopFails, App!AppIsAsTold
<1> QED BY <1>1, <1>2, <1>3, <1>4 DEF AppInv

LEMMA ReopensKeeps ==
  ASSUME AppInv, NEW result \in {"ok", "failed"}, App!Reopens(result), call.at \in {"resume", "drop"},
         UNCHANGED <<host, config>>
  PROVE  AppInv'
<1> USE DEF AppInv
<1>1. App!NeedsRestart("none") \in BOOLEAN /\ App!NeedsRestart("ok") \in BOOLEAN /\ App!NeedsRestart("failed") \in BOOLEAN
  BY DEF App!NeedsRestart
<1>2. App!Started \in Apps /\ App!Started.at = "running" /\ App!Started.reads = config
  BY DEF App!Started, AppTyped, Apps
<1>3. CASE /\ call.held /\ call.was
           /\ app' = (IF App!Alive THEN app ELSE App!Started) /\ App!Over(result, "ok")
  <2>1. call' = [call EXCEPT !.at = "over", !.result = result, !.launch = "ok",
                             !.restart = result = "ok" /\ App!NeedsRestart("ok")]
    BY <1>3 DEF App!Over
  <2>2. AppTyped' /\ PauseInv' /\ AloneInv'
    BY <1>1, <1>2, <1>3, <2>1 DEF AppTyped, PauseInv, AloneInv, Pauses, Stages, App!OnDesktop, App!Alive
  <2>3. call.alone => app' = App!Started
    BY <1>3 DEF AloneInv
  <2>4. App!AppIsAsTold'
    BY <1>2, <1>3, <2>1, <2>3 DEF App!AppIsAsTold, AppTyped, Pauses
  <2> QED BY <2>2, <2>4
<1>4. CASE call.held /\ call.was /\ App!Over(result, "failed") /\ UNCHANGED app
  <2>1. call' = [call EXCEPT !.at = "over", !.result = result, !.launch = "failed",
                             !.restart = result = "ok" /\ App!NeedsRestart("failed")]
    BY <1>4 DEF App!Over
  <2>2. AppTyped' /\ PauseInv' /\ AloneInv'
    BY <1>1, <1>4, <2>1 DEF AppTyped, PauseInv, AloneInv, Pauses, Stages, App!OnDesktop, App!Alive
  <2>3. host.agent # "codebuddy" => App!NeedsRestart("failed")
    BY DEF App!NeedsRestart
  <2>4. App!AppIsAsTold'
    BY <1>4, <2>1, <2>3 DEF App!AppIsAsTold, AppTyped, Pauses
  <2> QED BY <2>2, <2>4
<1>5. CASE ~(call.held /\ call.was) /\ App!Over(result, "none") /\ UNCHANGED app
  <2>1. call' = [call EXCEPT !.at = "over", !.result = result, !.launch = "none",
                             !.restart = result = "ok" /\ App!NeedsRestart("none")]
    BY <1>5 DEF App!Over
  <2>2. AppTyped' /\ PauseInv' /\ AloneInv'
    BY <1>1, <1>5, <2>1 DEF AppTyped, PauseInv, AloneInv, Pauses, Stages, App!OnDesktop, App!Alive
  <2>3. ~call.was /\ (call.alone /\ call.stop = "ok" => ~App!Alive)
    BY <1>5 DEF PauseInv, AloneInv, AppTyped, Pauses
  <2>4. call.stop = "failed" => App!NeedsRestart("none")
    BY DEF App!NeedsRestart
  <2>5. App!AppIsAsTold'
    BY <1>5, <2>1, <2>3, <2>4 DEF App!AppIsAsTold, AppTyped, Pauses, App!Alive
  <2> QED BY <2>2, <2>5
<1> QED BY <1>3, <1>4, <1>5 DEF App!Reopens

LEMMA AppInvStep == AppInv /\ [App!Next]_(App!vars) => AppInv'
<1> SUFFICES ASSUME AppInv, [App!Next]_(App!vars) PROVE AppInv'
  OBVIOUS
<1> USE DEF AppInv
<1>1. CASE App!Begin
  BY <1>1 DEF App!Begin, App!Fresh, AppTyped, PauseInv, AloneInv, App!AppIsAsTold, Pauses, Stages, App!OnDesktop
<1>2. CASE App!Scan
  <2>1. CASE ~(App!OnDesktop /\ App!Alive) /\ App!Holds(FALSE)
    BY <1>2, <2>1 DEF App!Scan, App!Holds, AppTyped, PauseInv, AloneInv, App!AppIsAsTold, Pauses, Stages, App!OnDesktop, App!Alive
  <2>2. CASE App!OnDesktop /\ App!Alive /\ call' = [call EXCEPT !.at = "quit", !.pid = app.pid]
    BY <1>2, <2>2 DEF App!Scan, AppTyped, Apps, PauseInv, AloneInv, App!AppIsAsTold, Pauses, Stages, App!OnDesktop, App!Alive
  <2>3. CASE App!OnDesktop /\ App!StopFails
    BY <1>2, <2>3, StopFailsKeeps DEF App!Scan, AppTyped
  <2> QED BY <1>2, <2>1, <2>2, <2>3 DEF App!Scan
<1>3. CASE App!Quit
  <2>1. app' \in Apps /\ (App!Alive' <=> App!Alive) /\ app'.pid = app.pid /\ (~App!OnDesktop => app' = app)
    BY <1>3 DEF App!Quit, AppTyped, Apps, App!Alive, App!Remains, PauseInv
  <2>2. CASE call' = [call EXCEPT !.at = "wait"]
    BY <1>3, <2>1, <2>2 DEF App!Quit, AppTyped, PauseInv, AloneInv, App!AppIsAsTold, Pauses, Stages, App!OnDesktop
  <2>3. CASE App!StopFails
    BY <1>3, <2>1, <2>3, StopFailsKeeps DEF App!Quit
  <2> QED BY <1>3, <2>2, <2>3 DEF App!Quit
<1>4. CASE App!Gone
  <2>1. call.alone => ~App!Alive
    BY <1>4 DEF App!Gone, App!Remains, AloneInv
  <2>2. call' = [call EXCEPT !.at = "write", !.held = TRUE, !.was = TRUE]
    BY <1>4 DEF App!Gone, App!Holds
  <2> QED BY <1>4, <2>1, <2>2 DEF App!Gone, AppTyped, PauseInv, AloneInv, App!AppIsAsTold, Pauses, Stages, App!OnDesktop, App!Alive
<1>5. CASE App!ForceExit
  BY <1>5 DEF App!ForceExit, AppTyped, Apps, PauseInv, AloneInv, App!AppIsAsTold, Pauses, App!OnDesktop, App!Alive
<1>6. CASE App!GivesUp
  BY <1>6, StopFailsKeeps DEF App!GivesUp, AppTyped
<1>7. CASE App!Write
  BY <1>7 DEF App!Write, AppTyped, PauseInv, AloneInv, App!AppIsAsTold, Pauses, Stages, App!OnDesktop, App!Alive
<1>8. CASE App!Resume
  BY <1>8, ReopensKeeps DEF App!Resume
<1>9. CASE App!Drop
  BY <1>9, ReopensKeeps DEF App!Drop
<1>10. CASE App!Exits
  BY <1>10 DEF App!Exits, AppTyped, Apps, PauseInv, AloneInv, App!AppIsAsTold, Pauses, App!OnDesktop, App!Alive
<1>11. CASE App!User
  <2>1. app' \in Apps /\ UNCHANGED <<host, config>> /\ App!OnDesktop
    BY <1>11 DEF App!User, AppTyped, Apps, App!Started
  <2>2. call' = [call EXCEPT !.alone = FALSE]
    BY <1>11 DEF App!User
  <2> QED BY <2>1, <2>2 DEF AppTyped, PauseInv, AloneInv, App!AppIsAsTold, Pauses, App!OnDesktop
<1>12. CASE UNCHANGED App!vars
  BY <1>12 DEF App!vars, AppTyped, PauseInv, AloneInv, App!AppIsAsTold, App!OnDesktop, App!Alive
<1> QED
  BY <1>1, <1>2, <1>3, <1>4, <1>5, <1>6, <1>7, <1>8, <1>9, <1>10, <1>11, <1>12 DEF App!Next

\* What TypeOK says of the bounds, and of a pause that was not had.
Counted ==
  /\ host \in Hosts
  /\ config \in 0 .. AppSwitches
  /\ app.reads <= config
  /\ call.at \in {"scan", "quit", "wait", "write"} => config < AppSwitches
  /\ call.stop = "failed" => ~call.held

LEMMA CountedInit == App!Init => Counted
  BY AgentsAssumption DEF App!Init, Counted, App!Fresh

LEMMA CountedStep ==
  ASSUME AppInv, Counted, [App!Next]_(App!vars)
  PROVE  Counted'
<1> USE DEF AppInv, AppTyped, Apps, Pauses, Stages
<1>1. CASE App!Begin
  BY <1>1, AgentsAssumption DEF App!Begin, App!Fresh, Counted
<1>2. CASE App!Scan \/ App!Quit \/ App!Gone \/ App!ForceExit \/ App!GivesUp
  <2>1. UNCHANGED <<host, config>> /\ app'.reads = app.reads /\ call.at \in {"scan", "quit", "wait"}
    BY <1>2 DEF App!Scan, App!Quit, App!Gone, App!ForceExit, App!GivesUp, App!Remains
  <2>2. call' = call \/ (call'.stop = "failed" /\ ~call'.held) \/ call'.stop = "ok"
    BY <1>2 DEF App!Scan, App!Quit, App!Gone, App!ForceExit, App!GivesUp, App!Holds, App!StopFails, PauseInv
  <2> QED
    BY <2>1, <2>2 DEF Counted
<1>3. CASE App!Write
  BY <1>3, AgentsAssumption DEF App!Write, Counted
<1>4. CASE App!Resume \/ App!Drop
  <2>1. PICK result \in {"ok", "failed"} : App!Reopens(result) /\ UNCHANGED <<host, config>>
    BY <1>4 DEF App!Resume, App!Drop
  <2>2. app' \in {app, App!Started} /\ call'.at = "over" /\ call'.stop = call.stop /\ call'.held = call.held
    BY <2>1 DEF App!Reopens, App!Over
  <2> QED
    BY <2>1, <2>2 DEF Counted, App!Started
<1>5. CASE App!Exits
  BY <1>5 DEF App!Exits, Counted
<1>6. CASE App!User
  BY <1>6 DEF App!User, App!Started, Counted
<1>7. CASE UNCHANGED App!vars
  BY <1>7 DEF App!vars, Counted
<1> QED
  BY <1>1, <1>2, <1>3, <1>4, <1>5, <1>6, <1>7 DEF App!Next

LEMMA AppInvImplies ==
  ASSUME AppInv, Counted
  PROVE  App!TypeOK
  BY DEF AppInv, AppTyped, Counted, App!TypeOK, Apps, Pauses, Stages

-----------------------------------------------------------------------------
(* All of them *)

\* A behaviour is that of one agent.
LEMMA OneActs ==
  ASSUME [Next]_vars
  PROVE  /\ acting' = acting
         /\ acting = "trae" => [Trae!Next]_(Trae!vars)
         /\ acting = "ima" => [Ima!Next]_(Ima!vars)
         /\ acting = "file" => [Files!Next]_(Files!vars)
         /\ acting = "app" => [App!Next]_(App!vars)
<1>1. CASE UNCHANGED vars
  BY <1>1 DEF vars, serviceVars, traeVars, imaVars, fileVars, appVars, Trae!vars, Ima!vars, Files!vars, App!vars
<1>2. CASE TraeNext \/ ImaNext
  BY <1>2 DEF TraeNext, ImaNext
<1>3. CASE FileNext
  BY <1>3 DEF FileNext
<1>4. CASE AppNext
  BY <1>4 DEF AppNext
<1> QED
  BY <1>1, <1>2, <1>3, <1>4 DEF Next

\* So it is one of that agent's specification.
LEMMA TraeActs == Spec => (acting = "trae" => Trae!Spec) /\ ([](acting = "trae") \/ []~(acting = "trae"))
<1>1. Init => (acting = "trae" => Trae!Init)
  BY DEF Init
<1>2. [Next]_vars => acting' = acting /\ (acting = "trae" => [Trae!Next]_(Trae!vars))
  BY OneActs
<1>3. acting' = acting => (acting = "trae" => (acting = "trae")') /\ (~(acting = "trae") => (~(acting = "trae"))')
  OBVIOUS
<1> QED BY <1>1, <1>2, <1>3, PTL DEF Spec, Trae!Spec

LEMMA ImaActs == Spec => (acting = "ima" => Ima!Spec) /\ ([](acting = "ima") \/ []~(acting = "ima"))
<1>1. Init => (acting = "ima" => Ima!Init)
  BY DEF Init
<1>2. [Next]_vars => acting' = acting /\ (acting = "ima" => [Ima!Next]_(Ima!vars))
  BY OneActs
<1>3. acting' = acting => (acting = "ima" => (acting = "ima")') /\ (~(acting = "ima") => (~(acting = "ima"))')
  OBVIOUS
<1> QED BY <1>1, <1>2, <1>3, PTL DEF Spec, Ima!Spec

\* What holds of the agents with files, and of applications, by invariants.
FileInv == acting = "file" => FilesInv
ClosedInv == acting = "app" => AppInv /\ Counted

LEMMA InvariantsHold == Spec => [](FileInv /\ ClosedInv /\ acting \in {"trae", "ima", "file", "app"})
<1>1. Init => FileInv /\ ClosedInv /\ acting \in {"trae", "ima", "file", "app"}
  BY FilesInvInit, AppInvInit, CountedInit, AgentsAssumption DEF Init, FileInv, ClosedInv
<1>2. FileInv /\ [Next]_vars => FileInv'
  BY OneActs, FilesInvStep DEF FileInv
<1>3. ClosedInv /\ [Next]_vars => ClosedInv'
  BY OneActs, AppInvStep, CountedStep DEF ClosedInv
<1>4. acting \in {"trae", "ima", "file", "app"} /\ [Next]_vars => (acting \in {"trae", "ima", "file", "app"})'
  BY OneActs
<1> QED BY <1>1, <1>2, <1>3, <1>4, PTL DEF Spec

\* An application that is closed for an operation is opened again, however
\* slowly it exits and whatever fails, or what must be done is told.
THEOREM AppsAreAsTold == Spec => []AppIsAsTold
<1>1. ClosedInv => AppIsAsTold
  BY DEF ClosedInv, AppInv, AppIsAsTold
<1> QED BY <1>1, InvariantsHold, PTL

\* What ima's instance is about is what its module says it is.
LEMMA ImaTypes ==
  /\ Ima!Spec => []Ima!TypeOK
  /\ Ima!Spec => []Ima!FailedIsCompensated
  /\ Ima!Spec => []Ima!RestoreReturnsNative
  /\ Ima!Spec => Ima!UsersRowsStay
BY ImaAssumption, Ima!ImaTypeOK, Ima!ImaFailedIsCompensated, Ima!ImaRestoreReturnsNative, Ima!ImaUsersRowsStay
   DEF Scenes, Ima!Scenes, Ids, Ima!Ids, Preferences, Ima!Preferences, Selections, Ima!Selections, Accounts,
       Ima!Accounts, ManagedRows, Ima!ManagedRows, Records, Ima!Records, Pendings, Ima!Pendings, Checkpoints, Ima!Checkpoints

LEMMA TraeTheorems ==
  /\ Trae!Spec => []Trae!TypeOK
  /\ Trae!Spec => []Trae!OnRecord
  /\ Trae!Spec => []Trae!FailedSwitchIsCompensated
  /\ Trae!Spec => []Trae!RestoreReturnsNative
  /\ Trae!Spec => []Trae!VerifiedIsServed
BY AgentsAssumption, Trae!TraeTypeOK, Trae!TraeOnRecord, Trae!TraeFailedSwitch, Trae!TraeRestoreReturnsNative,
   Trae!TraeVerifiedIsServed

\* Every agent's variables keep their types.
THEOREM AgentsTypeOK == Spec => []TypeOK
<1>1. FileInv => (acting = "file" => Files!TypeOK)
  BY FilesInvImplies DEF FileInv
<1>2. ClosedInv => (acting = "app" => App!TypeOK)
  BY AppInvImplies DEF ClosedInv
<1>3. Spec => [](acting = "trae" => Trae!TypeOK)
  <2>1. Trae!Spec => []Trae!TypeOK
    BY TraeTheorems
  <2> QED BY <2>1, TraeActs, PTL
<1>4. Spec => [](acting = "ima" => Ima!TypeOK)
  <2>1. Ima!Spec => []Ima!TypeOK
    BY ImaTypes
  <2> QED BY <2>1, ImaActs, PTL
<1>5. /\ acting \in {"trae", "ima", "file", "app"}
      /\ acting = "trae" => Trae!TypeOK
      /\ acting = "ima" => Ima!TypeOK
      /\ acting = "file" => Files!TypeOK
      /\ acting = "app" => App!TypeOK
      => TypeOK
  BY DEF TypeOK
<1> QED BY <1>1, <1>2, <1>3, <1>4, <1>5, InvariantsHold, PTL

\* A failed operation on TRAE or ima is undone, or what is left is on record.
THEOREM FailuresAreCompensated == Spec => []FailedIsCompensated
<1>1. Spec => [](acting = "trae" => Trae!FailedSwitchIsCompensated)
  <2>1. Trae!Spec => []Trae!FailedSwitchIsCompensated
    BY TraeTheorems
  <2> QED BY <2>1, TraeActs, PTL
<1>2. Spec => [](acting = "ima" => Ima!FailedIsCompensated)
  <2>1. Ima!Spec => []Ima!FailedIsCompensated
    BY ImaTypes
  <2> QED BY <2>1, ImaActs, PTL
<1>3. (acting = "trae" => Trae!FailedSwitchIsCompensated) /\ (acting = "ima" => Ima!FailedIsCompensated) => FailedIsCompensated
  BY DEF FailedIsCompensated
<1> QED BY <1>1, <1>2, <1>3, PTL

\* A finished restore has brought back what was selected before the takeover, in
\* TRAE, in ima and in the files of the others.
THEOREM RestoresReturnNative == Spec => []RestoreReturnsNative
<1>1. Spec => [](acting = "trae" => Trae!RestoreReturnsNative)
  <2>1. Trae!Spec => []Trae!RestoreReturnsNative
    BY TraeTheorems
  <2> QED BY <2>1, TraeActs, PTL
<1>2. Spec => [](acting = "ima" => Ima!RestoreReturnsNative)
  <2>1. Ima!Spec => []Ima!RestoreReturnsNative
    BY ImaTypes
  <2> QED BY <2>1, ImaActs, PTL
<1>3. FileInv => (acting = "file" => Files!RestoreReturnsNative)
  BY FilesInvImplies DEF FileInv
<1>4. /\ acting = "trae" => Trae!RestoreReturnsNative
      /\ acting = "ima" => Ima!RestoreReturnsNative
      /\ acting = "file" => Files!RestoreReturnsNative
      => RestoreReturnsNative
  BY DEF RestoreReturnsNative
<1> QED BY <1>1, <1>2, <1>3, <1>4, InvariantsHold, PTL

\* A healthy binding of TRAE, and a finished switch of a file, is served as the
\* binding says.
THEOREM SwitchesAreServed == Spec => []SwitchIsServed
<1>1. Spec => [](acting = "trae" => Trae!VerifiedIsServed)
  <2>1. Trae!Spec => []Trae!VerifiedIsServed
    BY TraeTheorems
  <2> QED BY <2>1, TraeActs, PTL
<1>2. FileInv => (acting = "file" => Files!SwitchIsServed)
  BY FilesInvImplies DEF FileInv
<1>3. (acting = "trae" => Trae!VerifiedIsServed) /\ (acting = "file" => Files!SwitchIsServed) => SwitchIsServed
  BY DEF SwitchIsServed
<1> QED BY <1>1, <1>2, <1>3, InvariantsHold, PTL

\* AT-Switch's rows in TRAE are on record, and the user's entries in a file stay.
THEOREM EntriesStay == Spec => []UsersEntriesStay
<1>1. Spec => [](acting = "trae" => Trae!OnRecord)
  <2>1. Trae!Spec => []Trae!OnRecord
    BY TraeTheorems
  <2> QED BY <2>1, TraeActs, PTL
<1>2. FileInv => (acting = "file" => Files!UsersEntriesStay)
  BY FilesInvImplies DEF FileInv
<1>3. (acting = "trae" => Trae!OnRecord) /\ (acting = "file" => Files!UsersEntriesStay) => UsersEntriesStay
  BY DEF UsersEntriesStay
<1> QED BY <1>1, <1>2, <1>3, InvariantsHold, PTL

\* AT-Switch leaves the user's models in ima alone (delete_model, update_model).
THEOREM RowsStay == Spec => UsersRowsStay
<1>1. Ima!Spec => [][Ima!RowsStay]_(Ima!vars)
  BY ImaTypes DEF Ima!UsersRowsStay
<1>2. ASSUME [Next]_vars, acting = "ima" => [Ima!RowsStay]_(Ima!vars)
      PROVE  [acting = "ima" => Ima!RowsStay]_vars
  <2>1. CASE acting = "ima" /\ UNCHANGED Ima!vars /\ Next
    BY <2>1 DEF Next, TraeNext, ImaNext, FileNext, AppNext, vars, serviceVars, traeVars, imaVars, fileVars, appVars, Ima!vars
  <2> QED BY <1>2, <2>1
<1>3. [Next]_vars /\ (acting = "ima" => [Ima!RowsStay]_(Ima!vars)) => [acting = "ima" => Ima!RowsStay]_vars
  BY <1>2
<1>4. ~(acting = "ima") /\ [Next]_vars => [acting = "ima" => Ima!RowsStay]_vars
  OBVIOUS
<1> QED BY <1>1, <1>3, <1>4, ImaActs, PTL DEF Spec, UsersRowsStay
=============================================================================
